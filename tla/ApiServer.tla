------------------------------ MODULE ApiServer ------------------------------
(***************************************************************************)
(* The life of the api process: cmd/api's run opens the pools, starts      *)
(* server.Run and closes them again; server.Run waits for a signal or for  *)
(* the end of ListenAndServe, which runs in a goroutine of its own and     *)
(* reports on a channel, and then shuts down gracefully, for a limited     *)
(* time.  Requests are handled by goroutines that use the pools and that   *)
(* may be slow or never end.                                               *)
(***************************************************************************)
EXTENDS Naturals, Sequences

CONSTANT Requests     \* the requests that may reach the process

VARIABLES
    main,        \* where the main goroutine is, in run and server.Run
    signalled,   \* ctx is done: SIGINT or SIGTERM has arrived
    acceptor,    \* where the goroutine with ListenAndServe is
    serveErrCh,  \* what it has sent and Run has not received
    broken,      \* the port is in use, or accepting connections has failed
    inShutdown,  \* Shutdown has been called: the listener is closed
    timedOut,    \* shutdownCtx is done
    result,      \* what Run has returned; the exit code is 0 for "nil", else 1
    req,         \* what has become of each request
    pools        \* the open ones of "postgres" and "redis"

vars == <<main, signalled, acceptor, serveErrCh, broken, inShutdown, timedOut, result, req, pools>>
serving == <<acceptor, serveErrCh, broken, inShutdown, timedOut>>
process == <<main, signalled, result, pools>>

None == "none"

Init ==
    /\ main = "start"
    /\ signalled = FALSE
    /\ acceptor = "unborn"
    /\ serveErrCh = <<>>
    /\ broken = FALSE
    /\ inShutdown = FALSE
    /\ timedOut = FALSE
    /\ result = None
    /\ req = [r \in Requests |-> "none"]
    /\ pools = {}

Running(r) == req[r] = "running"

-----------------------------------------------------------------------------
(* The main goroutine: cmd/api run                                         *)

\* A configuration that cannot be loaded ends the process at once.
ConfigFails ==
    /\ main = "start"
    /\ main' = "exited"
    /\ UNCHANGED <<signalled, result, pools, serving, req>>

\* Both pools are opened; whether their pings succeed is only logged.  Run
\* starts the goroutine that listens.
StartServer ==
    /\ main = "start"
    /\ pools' = {"postgres", "redis"}
    /\ main' = "select"
    /\ acceptor' = "listen"
    /\ UNCHANGED <<signalled, serveErrCh, broken, inShutdown, timedOut, result, req>>

\* run's deferred calls, the last deferred first.
CloseRedis ==
    /\ main = "close redis"
    /\ pools' = pools \ {"redis"}
    /\ main' = "close postgres"
    /\ UNCHANGED <<signalled, result, serving, req>>

ClosePostgres ==
    /\ main = "close postgres"
    /\ pools' = pools \ {"postgres"}
    /\ main' = "return"
    /\ UNCHANGED <<signalled, result, serving, req>>

\* os.Exit: whatever request is still being handled is cut off.
ExitProcess ==
    /\ main = "return"
    /\ main' = "exited"
    /\ req' = [r \in Requests |-> IF Running(r) THEN "cut off" ELSE req[r]]
    /\ UNCHANGED <<signalled, result, pools, serving>>

-----------------------------------------------------------------------------
(* The main goroutine: server.Run                                          *)

Return(res) ==
    /\ result' = res
    /\ main' = "close redis"

\* case err := <-serveErrCh, in the select.  With a signal too, either case
\* may be taken.
ReceiveErr ==
    /\ main = "select"
    /\ serveErrCh # <<>>
    /\ Return(Head(serveErrCh))
    /\ serveErrCh' = Tail(serveErrCh)
    /\ UNCHANGED <<signalled, acceptor, broken, inShutdown, timedOut, req, pools>>

\* case <-ctx.Done(): Shutdown begins and closes the listener.
BeginShutdown ==
    /\ main = "select"
    /\ signalled
    /\ inShutdown' = TRUE
    /\ main' = "drain"
    /\ UNCHANGED <<signalled, acceptor, serveErrCh, broken, timedOut, result, req, pools>>

\* Mutant: Shutdown only stops new requests, like Server.Close.
ShutdownDoneAtOnce ==
    /\ main = "drain"
    /\ acceptor # "serve"
    /\ main' = "await"
    /\ UNCHANGED <<signalled, result, pools, serving, req>>

\* Shutdown returns nil: Serve has returned and no request is being handled.
ShutdownDone ==
    /\ main = "drain"
    /\ acceptor # "serve"
    /\ \A r \in Requests : ~Running(r)
    /\ main' = "await"
    /\ UNCHANGED <<signalled, result, pools, serving, req>>

\* Shutdown returns the error of its context; serveErrCh is not received.
ShutdownGivesUp ==
    /\ main = "drain"
    /\ acceptor # "serve"
    /\ timedOut
    /\ Return("error")
    /\ UNCHANGED <<signalled, pools, serving, req>>

\* return <-serveErrCh
ReceiveLast ==
    /\ main = "await"
    /\ serveErrCh # <<>>
    /\ Return(Head(serveErrCh))
    /\ serveErrCh' = Tail(serveErrCh)
    /\ UNCHANGED <<signalled, acceptor, broken, inShutdown, timedOut, req, pools>>

-----------------------------------------------------------------------------
(* The goroutine of ListenAndServe                                         *)

Listening ==
    /\ acceptor = "listen"
    /\ ~inShutdown
    /\ acceptor' = "serve"
    /\ UNCHANGED <<serveErrCh, broken, inShutdown, timedOut, process, req>>

\* The port is in use, or (later) accepting connections fails for good.
ListenFails ==
    /\ acceptor \in {"listen", "serve"}
    /\ acceptor = "serve" => ~inShutdown
    /\ broken' = TRUE
    /\ acceptor' = "send error"
    /\ UNCHANGED <<serveErrCh, inShutdown, timedOut, process, req>>

\* Mutant: ErrServerClosed is an error like any other.
ServerClosedIsError ==
    /\ acceptor \in {"listen", "serve"}
    /\ inShutdown
    /\ acceptor' = "send error"
    /\ UNCHANGED <<serveErrCh, broken, inShutdown, timedOut, process, req>>

\* http.ErrServerClosed, which is no error; also when Shutdown came first.
ServerClosed ==
    /\ acceptor \in {"listen", "serve"}
    /\ inShutdown
    /\ acceptor' = "send nil"
    /\ UNCHANGED <<serveErrCh, broken, inShutdown, timedOut, process, req>>

\* Mutant: only errors are sent.
SendErrorOnly ==
    /\ acceptor \in {"send error", "send nil"}
    /\ serveErrCh' = IF acceptor = "send error" THEN Append(serveErrCh, "error") ELSE serveErrCh
    /\ acceptor' = "ended"
    /\ UNCHANGED <<broken, inShutdown, timedOut, process, req>>

\* Mutant: no return after the error is sent, and a channel with room for two.
SendBoth ==
    /\ acceptor \in {"send error", "send nil"}
    /\ serveErrCh' = Append(serveErrCh, IF acceptor = "send error" THEN "error" ELSE "nil")
    /\ acceptor' = IF acceptor = "send error" THEN "send nil" ELSE "ended"
    /\ UNCHANGED <<broken, inShutdown, timedOut, process, req>>

\* The channel has room for the one message there is.
Send ==
    /\ acceptor \in {"send error", "send nil"}
    /\ Len(serveErrCh) < 1
    /\ serveErrCh' = Append(serveErrCh, IF acceptor = "send error" THEN "error" ELSE "nil")
    /\ acceptor' = "ended"
    /\ UNCHANGED <<broken, inShutdown, timedOut, process, req>>

-----------------------------------------------------------------------------
(* The world                                                               *)

\* A second signal changes nothing: signal.NotifyContext still catches it.
Signal ==
    /\ main # "exited"
    /\ ~signalled
    /\ signalled' = TRUE
    /\ UNCHANGED <<main, result, pools, serving, req>>

\* shutdownTimeout has passed.
TimePasses ==
    /\ main = "drain"
    /\ ~timedOut
    /\ timedOut' = TRUE
    /\ UNCHANGED <<acceptor, serveErrCh, broken, inShutdown, process, req>>

Accept(r) ==
    /\ main # "exited"
    /\ acceptor = "serve"
    /\ ~inShutdown
    /\ req[r] = "none"
    /\ req' = [req EXCEPT ![r] = "running"]
    /\ UNCHANGED <<process, serving>>

Answer(r) ==
    /\ main # "exited"
    /\ Running(r)
    /\ req' = [req EXCEPT ![r] = "answered"]
    /\ UNCHANGED <<process, serving>>

\* A statement, or a ping of /healthz, on a pool that is closed: the client
\* is told of an error that is none.
MeetsClosedPool(r) ==
    /\ main # "exited"
    /\ Running(r)
    /\ pools # {"postgres", "redis"}
    /\ req' = [req EXCEPT ![r] = "failed"]
    /\ UNCHANGED <<process, serving>>

Main ==
    \/ StartServer \/ ReceiveErr \/ BeginShutdown \/ ShutdownDone \/ ShutdownGivesUp
    \/ ReceiveLast \/ CloseRedis \/ ClosePostgres \/ ExitProcess

\* The goroutine ends with the process.
Acceptor == main # "exited" /\ (Listening \/ ListenFails \/ ServerClosed \/ Send)

Next ==
    \/ Main \/ Acceptor
    \/ ConfigFails \/ Signal \/ TimePasses
    \/ \E r \in Requests : Accept(r) \/ Answer(r) \/ MeetsClosedPool(r)

Spec == Init /\ [][Next]_vars

\* Goroutines are scheduled, the network tells of a closed listener and time
\* passes.  Nothing is assumed of the handlers, which may never end, and a
\* listener need not fail.
FairSpec ==
    /\ Spec
    /\ WF_vars(Main)
    /\ WF_vars(main # "exited" /\ (Listening \/ ServerClosed \/ Send))
    /\ WF_vars(TimePasses)

-----------------------------------------------------------------------------
(* Properties                                                              *)

\* Every variable has its type.
TypeOK ==
    /\ main \in {"start", "select", "drain", "await", "close redis",
                 "close postgres", "return", "exited"}
    /\ signalled \in BOOLEAN
    /\ acceptor \in {"unborn", "listen", "serve", "send error", "send nil", "ended"}
    /\ serveErrCh \in Seq({"error", "nil"})
    /\ Len(serveErrCh) <= 1
    /\ broken \in BOOLEAN
    /\ inShutdown \in BOOLEAN
    /\ timedOut \in BOOLEAN
    /\ result \in {None, "nil", "error"}
    /\ req \in [Requests -> {"none", "running", "answered", "failed", "cut off"}]
    /\ pools \subseteq {"postgres", "redis"}

\* When Run returns nil, and so when the process exits with 0, nothing is
\* listening any more, and every request that was accepted has been answered,
\* none of them with an error because a pool was closed under it.
NilMeansDrained ==
    result = "nil" =>
        /\ acceptor = "ended"
        /\ \A r \in Requests : req[r] \in {"none", "answered"}

\* A pool is only closed under a request when the shutdown timed out or the
\* listener failed, and then the exit code tells.
CutOffHasCause ==
    \A r \in Requests :
        (Running(r) /\ pools = {}) \/ req[r] \in {"failed", "cut off"} =>
            /\ result = "error"
            /\ timedOut \/ broken

\* An orderly stop is no error: Run returns one only when its time ran out or
\* the listener has failed, also when the signal came before ListenAndServe.
ErrorHasCause == result = "error" => timedOut \/ broken

\* A signal always ends the process, whatever the handlers do and wherever the
\* start was when it came; so does a port that is in use.
StopEndsProcess == (signalled \/ broken) ~> main = "exited"
==============================================================================
