---------------------------- MODULE ApiServerProofs ----------------------------
(***************************************************************************)
(* ApiServer: what holds for any number of requests.  The invariants talk  *)
(* of the end of Run; the inductive invariant follows the two messages the *)
(* goroutine of ListenAndServe can send: nil is only on its way once       *)
(* Shutdown has closed the listener, error only when the listener failed.  *)
(***************************************************************************)
EXTENDS ApiServer, TLAPS

\* Each request is unknown to the process or has been answered properly.
Quiet == \A r \in Requests : req[r] \in {"none", "answered"}

\* What has been sent is in the channel, and the goroutine has ended.
ChannelOK ==
    /\ serveErrCh \in {<<>>, <<"error">>, <<"nil">>}
    /\ serveErrCh # <<>> => acceptor = "ended"

\* The goroutine says nil only after Shutdown, error only after a failure.
MessagesOK ==
    /\ acceptor = "send nil" \/ serveErrCh = <<"nil">> => inShutdown
    /\ acceptor = "send error" \/ serveErrCh = <<"error">> => broken

\* Where the main goroutine is tells what it has done.
MainOK ==
    /\ main = "start" => acceptor = "unborn" /\ Quiet
    /\ main \in {"start", "select"} => ~inShutdown
    /\ main \in {"start", "select", "drain", "await"} => result = None
    /\ main \in {"select", "drain", "await"} => pools = {"postgres", "redis"}
    /\ main \in {"drain", "await"} => inShutdown
    /\ main = "await" => acceptor # "serve" /\ Quiet
    /\ main \in {"close redis", "close postgres", "return"} => result # None

\* Run's result, and what it means for the requests.
ResultOK ==
    /\ result = "nil" => inShutdown /\ acceptor = "ended" /\ Quiet
    /\ result = "error" => timedOut \/ broken
    /\ main = "exited" /\ result = None => Quiet
    /\ \A r \in Requests : req[r] \in {"failed", "cut off"} => result = "error"

IInv == TypeOK /\ ChannelOK /\ MessagesOK /\ MainOK /\ ResultOK

Messages == {"error", "nil"}

\* A channel with room for one message, as a sequence.
LEMMA OneMessage ==
    /\ <<>> \in Seq(Messages) /\ Len(<<>>) <= 1 /\ Append(<<>>, "nil") = <<"nil">>
    /\ Append(<<>>, "error") = <<"error">> /\ <<"nil">> # <<"error">>
    /\ \A m \in Messages :
          /\ <<m>> \in Seq(Messages) /\ Len(<<m>>) <= 1 /\ <<m>> # <<>>
          /\ Head(<<m>>) = m /\ Tail(<<m>>) = <<>>
    /\ \A s \in Seq(Messages) : Len(s) < 1 => s = <<>>
  BY DEF Messages

\* Every process starts with nothing open, sent or returned.
LEMMA InitInv == Init => IInv
  BY OneMessage DEF Messages, Init, IInv, TypeOK, ChannelOK, MessagesOK, MainOK, ResultOK, Quiet, None

\* The main goroutine keeps the invariant.
LEMMA MainKeeps == IInv /\ (Main \/ ConfigFails) => IInv'
<1> SUFFICES ASSUME IInv, Main \/ ConfigFails PROVE IInv'
  OBVIOUS
<1> USE DEF IInv, TypeOK, ChannelOK, MessagesOK, MainOK, ResultOK, Quiet, None, Return,
            serving, Running
<1>1. CASE StartServer
  BY <1>1 DEF StartServer
<1>2. CASE ReceiveErr
  <2>1. Head(serveErrCh) \in {"error", "nil"} /\ serveErrCh = <<Head(serveErrCh)>>
    BY <1>2, OneMessage DEF Messages, ReceiveErr
  <2>2. serveErrCh' = <<>>
    BY <1>2, OneMessage DEF Messages, ReceiveErr
  <2>3. QED
    BY <1>2, <2>1, <2>2, OneMessage DEF Messages, ReceiveErr
<1>3. CASE BeginShutdown
  BY <1>3 DEF BeginShutdown
<1>4. CASE ShutdownDone
  BY <1>4 DEF ShutdownDone
<1>5. CASE ShutdownGivesUp
  BY <1>5 DEF ShutdownGivesUp
<1>6. CASE ReceiveLast
  <2>1. Head(serveErrCh) \in {"error", "nil"} /\ serveErrCh = <<Head(serveErrCh)>>
    BY <1>6, OneMessage DEF Messages, ReceiveLast
  <2>2. serveErrCh' = <<>>
    BY <1>6, OneMessage DEF Messages, ReceiveLast
  <2>3. QED
    BY <1>6, <2>1, <2>2, OneMessage DEF Messages, ReceiveLast
<1>7. CASE CloseRedis
  BY <1>7 DEF CloseRedis
<1>8. CASE ClosePostgres
  BY <1>8 DEF ClosePostgres
<1>9. CASE ExitProcess
  BY <1>9 DEF ExitProcess
<1>10. CASE ConfigFails
  BY <1>10 DEF ConfigFails
<1> QED
  BY <1>1, <1>2, <1>3, <1>4, <1>5, <1>6, <1>7, <1>8, <1>9, <1>10 DEF Main

\* The goroutine of ListenAndServe keeps the invariant.
LEMMA AcceptorKeeps == IInv /\ Acceptor => IInv'
<1> SUFFICES ASSUME IInv, Acceptor PROVE IInv'
  OBVIOUS
<1> USE DEF IInv, TypeOK, ChannelOK, MessagesOK, MainOK, ResultOK, Quiet, None, process, Acceptor
<1>1. CASE Listening
  BY <1>1 DEF Listening
<1>2. CASE ListenFails
  BY <1>2 DEF ListenFails
<1>3. CASE ServerClosed
  BY <1>3 DEF ServerClosed
<1>4. CASE Send
  <2>1. serveErrCh' = IF acceptor = "send error" THEN <<"error">> ELSE <<"nil">>
    BY <1>4, OneMessage DEF Messages, Send
  <2>2. QED
    BY <1>4, <2>1, OneMessage DEF Messages, Send
<1> QED
  BY <1>1, <1>2, <1>3, <1>4

\* Signals, time and requests keep the invariant.
LEMMA WorldKeeps ==
    /\ IInv
    /\ \/ Signal
       \/ TimePasses
       \/ \E r \in Requests : Accept(r) \/ Answer(r) \/ MeetsClosedPool(r)
    => IInv'
<1> SUFFICES ASSUME IInv,
                    \/ Signal
                    \/ TimePasses
                    \/ \E r \in Requests : Accept(r) \/ Answer(r) \/ MeetsClosedPool(r)
             PROVE  IInv'
  OBVIOUS
<1> USE DEF IInv, TypeOK, ChannelOK, MessagesOK, MainOK, ResultOK, Quiet, None, process,
            serving, Running
<1>1. CASE Signal
  BY <1>1 DEF Signal
<1>2. CASE TimePasses
  BY <1>2 DEF TimePasses
<1>3. ASSUME NEW r \in Requests, Accept(r) PROVE IInv'
  BY <1>3 DEF Accept
<1>4. ASSUME NEW r \in Requests, Answer(r) PROVE IInv'
  BY <1>4 DEF Answer
<1>5. ASSUME NEW r \in Requests, MeetsClosedPool(r) PROVE IInv'
  \* Only Run's end closes pools, and after a nil no request is running.
  <2>1. main \in {"close redis", "close postgres", "return"} /\ result = "error"
    BY <1>5 DEF MeetsClosedPool
  <2>2. QED
    BY <1>5, <2>1 DEF MeetsClosedPool
<1> QED
  BY <1>1, <1>2, <1>3, <1>4, <1>5

LEMMA Invariance == Spec => []IInv
<1>1. ASSUME IInv, UNCHANGED vars PROVE IInv'
  <2> USE <1>1 DEF vars, None, IInv
  <2>1. TypeOK'
    BY DEF TypeOK
  <2>2. ChannelOK' /\ MessagesOK'
    BY DEF ChannelOK, MessagesOK
  <2>3. MainOK'
    BY DEF MainOK, Quiet
  <2>4. ResultOK'
    BY DEF ResultOK, Quiet
  <2>5. QED
    BY <2>1, <2>2, <2>3, <2>4
<1>2. IInv /\ [Next]_vars => IInv'
  BY <1>1, MainKeeps, AcceptorKeeps, WorldKeeps DEF Next
<1>3. QED
  BY InitInv, <1>2, PTL DEF Spec

-----------------------------------------------------------------------------
\* Every variable always has its type; the channel never needs more room than
\* server.go makes for it.
THEOREM TypeCorrect == Spec => []TypeOK
<1>1. IInv => TypeOK
  BY DEF IInv
<1>2. QED
  BY <1>1, Invariance, PTL

\* When Run returns nil nothing listens and every accepted request has been
\* answered.
THEOREM CleanStop == Spec => []NilMeansDrained
<1>1. IInv => NilMeansDrained
  BY DEF IInv, ResultOK, Quiet, NilMeansDrained
<1>2. QED
  BY <1>1, Invariance, PTL

\* No pool is closed under a request without the exit code telling.
THEOREM CutOffTold == Spec => []CutOffHasCause
<1>1. IInv => CutOffHasCause
  BY DEF IInv, TypeOK, MainOK, ResultOK, Quiet, CutOffHasCause, Running, None
<1>2. QED
  BY <1>1, Invariance, PTL

\* Run only returns an error for a timeout or a listener that failed.
THEOREM ErrorExplained == Spec => []ErrorHasCause
<1>1. IInv => ErrorHasCause
  BY DEF IInv, ResultOK, ErrorHasCause
<1>2. QED
  BY <1>1, Invariance, PTL
================================================================================
