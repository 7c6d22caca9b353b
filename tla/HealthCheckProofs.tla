-------------------------- MODULE HealthCheckProofs --------------------------
(***************************************************************************)
(* The safety of Service.Check for any finite set of checkers.             *)
(***************************************************************************)
EXTENDS HealthCheck, FiniteSetTheorems, SequenceTheorems, TLAPS

Counted == {c \in Checkers : worker[c] \in {"ping", "send", "done"}}
Sent == {c \in Checkers : worker[c] \in {"done", "ended"}}

Types ==
    /\ caller \in {"loop", "read", "reported"}
    /\ worker \in [Checkers -> {"unborn", "ping", "send", "done", "ended"}]
    /\ healthy \subseteq Checkers
    /\ results \in Seq([name: Checkers, ok: BOOLEAN])
    /\ closed \in BOOLEAN
    /\ allOK \in BOOLEAN
    /\ checks \in [DOMAIN checks -> {"ok", "down"}]

\* The WaitGroup counts the goroutines that are started and not over.
WaitGroupOK == wg = Cardinality(Counted)

\* A checker is healthy only after its ping.
HealthyOK == \A c \in healthy : worker[c] \in {"send", "done", "ended"}

\* Each result is in the channel or in the report, and in one of them only.
ResultsOK ==
    /\ Len(results) <= Cardinality(Sent)
    /\ \A i, j \in DOMAIN results : results[i].name = results[j].name => i = j
    /\ \A i \in DOMAIN results :
          /\ results[i].name \in Sent \ DOMAIN checks
          /\ results[i].ok <=> results[i].name \in healthy
    /\ DOMAIN checks \subseteq Sent
    /\ \A c \in Sent : c \in DOMAIN checks \/ \E i \in DOMAIN results : results[i].name = c

\* The report so far says what the pings said.
ChecksOK ==
    /\ \A c \in DOMAIN checks : checks[c] = IF c \in healthy THEN "ok" ELSE "down"
    /\ allOK <=> DOMAIN checks \subseteq healthy

\* Check reads the channel only when every goroutine is over.
CallerOK ==
    /\ caller = "loop" => ~closed /\ DOMAIN checks = {}
    /\ caller # "loop" => \A c \in Checkers : worker[c] = "ended"
    /\ caller = "reported" => results = <<>>

IInv == Types /\ WaitGroupOK /\ HealthyOK /\ ResultsOK /\ ChecksOK /\ CallerOK

-----------------------------------------------------------------------------

\* Both sets of checkers are finite.
LEMMA Finite == Types => IsFiniteSet(Counted) /\ IsFiniteSet(Sent)
  BY CheckersAssumption, FS_Subset DEF Counted, Sent

\* No goroutine runs, nothing was sent.
LEMMA InitLemma == Init => IInv
  <1> SUFFICES ASSUME Init PROVE IInv
    OBVIOUS
  <1> USE DEF Init
  <1>0. DOMAIN checks = {} /\ checks \in [DOMAIN checks -> {"ok", "down"}]
    OBVIOUS
  <1>1. Types
    <2>1. results \in Seq([name: Checkers, ok: BOOLEAN])
      BY EmptySeq
    <2> QED BY <1>0, <2>1 DEF Types
  <1>2. Counted = {} /\ Sent = {}
    BY DEF Counted, Sent
  <1>3. WaitGroupOK
    BY <1>2, FS_EmptySet DEF WaitGroupOK
  <1>4. ResultsOK
    BY <1>2, FS_EmptySet DEF ResultsOK
  <1>5. HealthyOK /\ ChecksOK /\ CallerOK
    BY DEF HealthyOK, ChecksOK, CallerOK
  <1> QED BY <1>1, <1>3, <1>4, <1>5 DEF IInv

\* A goroutine more is counted: wg.Add(1).
LEMMA SpawnLemma == ASSUME IInv, NEW c \in Checkers, Spawn(c) PROVE IInv'
  <1> USE DEF Spawn, Step
  <1>1. Types' /\ HealthyOK' /\ CallerOK'
    BY DEF IInv, Types, HealthyOK, CallerOK
  <1>2. Sent' = Sent /\ Counted' = Counted \cup {c} /\ c \notin Counted
    BY DEF IInv, Types, Sent, Counted
  <1>3. WaitGroupOK'
    BY <1>2, Finite, FS_AddElement DEF IInv, WaitGroupOK
  <1>4. ResultsOK' /\ ChecksOK'
    BY <1>2 DEF IInv, ResultsOK, ChecksOK
  <1> QED BY <1>1, <1>3, <1>4 DEF IInv

\* The end of a ping concerns no result that is sent already.
LEMMA PingLemma ==
    ASSUME IInv, NEW c \in Checkers,
           (\E answered \in BOOLEAN : PingAnswers(c, answered)) \/ PingTimesOut(c)
    PROVE  IInv'
  <1> USE DEF PingAnswers, PingTimesOut, Step
  <1>1. Types' /\ HealthyOK'
    BY DEF IInv, Types, HealthyOK
  <1>2. Sent' = Sent /\ Counted' = Counted /\ c \notin Sent
    BY DEF IInv, Types, Sent, Counted
  <1>3. WaitGroupOK' /\ CallerOK'
    BY <1>2 DEF IInv, Types, WaitGroupOK, CallerOK
  <1>4. ResultsOK'
    BY <1>2 DEF IInv, ResultsOK
  <1>5. ChecksOK'
    BY <1>2 DEF IInv, ResultsOK, ChecksOK
  <1> QED BY <1>1, <1>3, <1>4, <1>5 DEF IInv

\* A goroutine's one result is put last.
LEMMA SendLemma == ASSUME IInv, NEW c \in Checkers, Send(c) PROVE IInv'
  <1> USE DEF Send, Step
  <1>1. Types'
    BY DEF IInv, Types
  <1>2. /\ Sent' = Sent \cup {c} /\ c \notin Sent
        /\ Counted' = Counted
    BY DEF IInv, Types, Sent, Counted
  <1>3. Cardinality(Sent') = Cardinality(Sent) + 1 /\ Cardinality(Sent) \in Nat
    BY <1>2, Finite, FS_AddElement, FS_CardinalityType DEF IInv
  <1>4. /\ Len(results') = Len(results) + 1
        /\ DOMAIN results' = DOMAIN results \cup {Len(results) + 1}
        /\ Len(results) \in Nat /\ DOMAIN results = 1..Len(results)
        /\ \A i \in DOMAIN results : results'[i] = results[i]
        /\ results'[Len(results) + 1].name = c
        /\ results'[Len(results) + 1].ok = (c \in healthy)
    BY DEF IInv, Types
  <1>5. ResultsOK'
    <2>1. Len(results') <= Cardinality(Sent')
      BY <1>3, <1>4 DEF IInv, ResultsOK
    <2>2. \A i \in DOMAIN results : results[i].name \in Sent \ DOMAIN checks
      BY DEF IInv, ResultsOK
    <2>3. \A i, j \in DOMAIN results' : results'[i].name = results'[j].name => i = j
      <3>1. \A i, j \in DOMAIN results : results[i].name = results[j].name => i = j
        BY DEF IInv, ResultsOK
      <3>2. \A i \in DOMAIN results : results'[i] = results[i] /\ results[i].name # c
        BY <1>2, <1>4, <2>2
      <3> QED BY <1>4, <3>1, <3>2
    <2>4. \A i \in DOMAIN results' :
             /\ results'[i].name \in Sent' \ DOMAIN checks'
             /\ results'[i].ok <=> results'[i].name \in healthy'
      <3>1. \A i \in DOMAIN results : results[i].ok <=> results[i].name \in healthy
        BY DEF IInv, ResultsOK
      <3>2. c \notin DOMAIN checks /\ checks' = checks /\ healthy' = healthy
        BY <1>2 DEF IInv, ResultsOK
      <3>3. \A i \in DOMAIN results :
               results'[i].name \in Sent /\ results'[i].name \notin DOMAIN checks
        BY <1>4, <2>2
      <3> SUFFICES ASSUME NEW i \in DOMAIN results'
                   PROVE  /\ results'[i].name \in Sent' \ DOMAIN checks'
                          /\ results'[i].ok <=> results'[i].name \in healthy'
        OBVIOUS
      <3>4. CASE i \in DOMAIN results
        BY <1>2, <1>4, <3>1, <3>2, <3>3, <3>4
      <3>5. CASE i = Len(results) + 1
        <4>1. results'[i].name = c /\ results'[i].ok = (c \in healthy)
          BY <1>4, <3>5, Zenon
        <4>2. results'[i].name \in Sent' \ DOMAIN checks'
          BY <1>2, <3>2, <4>1
        <4>3. results'[i].ok <=> results'[i].name \in healthy'
          BY <3>2, <4>1
        <4> QED BY <4>2, <4>3
      <3> QED BY <1>4, <3>4, <3>5
    <2>5. DOMAIN checks' \subseteq Sent'
      BY <1>2 DEF IInv, ResultsOK
    <2>6. \A d \in Sent' :
             d \in DOMAIN checks' \/ \E i \in DOMAIN results' : results'[i].name = d
      BY <1>2, <1>4 DEF IInv, ResultsOK
    <2> QED BY <2>1, <2>3, <2>4, <2>5, <2>6 DEF ResultsOK
  <1>6. HealthyOK' /\ CallerOK' /\ WaitGroupOK' /\ ChecksOK'
    BY <1>2 DEF IInv, Types, HealthyOK, CallerOK, WaitGroupOK, ChecksOK
  <1> QED BY <1>1, <1>5, <1>6 DEF IInv

\* A goroutine less is counted: wg.Done().
LEMMA DoneLemma == ASSUME IInv, NEW c \in Checkers, Done(c) PROVE IInv'
  <1> USE DEF Done, Step
  <1>1. Types' /\ HealthyOK' /\ CallerOK'
    BY DEF IInv, Types, HealthyOK, CallerOK
  <1>2. Sent' = Sent /\ Counted' = Counted \ {c} /\ c \in Counted
    BY DEF IInv, Types, Sent, Counted
  <1>3. WaitGroupOK'
    BY <1>2, Finite, FS_RemoveElement DEF IInv, WaitGroupOK
  <1>4. ResultsOK' /\ ChecksOK'
    BY <1>2 DEF IInv, ResultsOK, ChecksOK
  <1> QED BY <1>1, <1>3, <1>4 DEF IInv

\* wg.Wait() returns when nobody is counted, and all were started.
LEMMA CloseLemma == ASSUME IInv, Close PROVE IInv'
  <1> USE DEF Close
  <1>1. Counted = {}
    BY Finite, FS_EmptySet DEF IInv, WaitGroupOK
  <1>2. \A c \in Checkers : worker[c] = "ended"
    BY <1>1 DEF IInv, Types, Counted
  <1>3. Types' /\ CallerOK' /\ HealthyOK'
    BY <1>2 DEF IInv, Types, CallerOK, HealthyOK
  <1>4. Sent' = Sent /\ Counted' = Counted
    BY DEF Sent, Counted
  <1>5. WaitGroupOK' /\ ResultsOK' /\ ChecksOK'
    BY <1>4 DEF IInv, WaitGroupOK, ResultsOK, ChecksOK
  <1> QED BY <1>3, <1>5 DEF IInv

\* The first result goes from the channel into the report.
LEMMA ReceiveLemma == ASSUME IInv, Receive PROVE IInv'
  <1> DEFINE r == results[1]
  <1> DEFINE n == Len(results)
  <1>1. /\ n \in Nat /\ n >= 1 /\ DOMAIN results = 1..n
        /\ Head(results) = r /\ r \in [name: Checkers, ok: BOOLEAN]
    <2>1. results \in Seq([name: Checkers, ok: BOOLEAN]) /\ results # <<>>
      BY DEF IInv, Types, Receive
    <2>2. n \in Nat \ {0} /\ DOMAIN results = 1..n
      BY <2>1, EmptySeq, LenProperties
    <2>3. 1 \in 1..n
      BY <2>2
    <2>4. r \in [name: Checkers, ok: BOOLEAN]
      BY <2>1, <2>2, <2>3, ElementOfSeq
    <2>5. Head(results) = r
      BY <2>1
    <2> QED BY <2>2, <2>4, <2>5
  <1>2. /\ results' \in Seq([name: Checkers, ok: BOOLEAN])
        /\ Len(results') = n - 1
        /\ DOMAIN results' = 1..(n - 1)
        /\ \A i \in 1..(n - 1) : results'[i] = results[i + 1]
    BY <1>1 DEF IInv, Types, Receive
  <1>3. /\ checks' = [c \in DOMAIN checks \cup {r.name} |->
                         IF c # r.name THEN checks[c] ELSE IF r.ok THEN "ok" ELSE "down"]
        /\ allOK' = (allOK /\ r.ok)
        /\ caller = "read"
        /\ UNCHANGED <<caller, wg, worker, healthy, closed>>
    BY <1>1 DEF Receive
  <1>4. Types'
    BY <1>1, <1>2, <1>3 DEF IInv, Types
  <1>5. Sent' = Sent /\ Counted' = Counted
    BY <1>3 DEF Sent, Counted
  <1>6. r.name \in Sent \ DOMAIN checks /\ (r.ok <=> r.name \in healthy)
    BY <1>1 DEF IInv, ResultsOK
  <1>7. ChecksOK'
    BY <1>3, <1>6 DEF IInv, Types, ChecksOK
  <1>8. ResultsOK'
    <2> DEFINE m == n - 1
    <2>1. DOMAIN checks' = DOMAIN checks \cup {r.name}
      BY <1>3
    <2>2. Len(results') <= Cardinality(Sent')
      BY <1>1, <1>2, <1>5, Finite, FS_CardinalityType DEF IInv, ResultsOK
    <2>3. \A i, j \in DOMAIN results' : results'[i].name = results'[j].name => i = j
      <3> SUFFICES ASSUME NEW i \in 1..m, NEW j \in 1..m, results'[i].name = results'[j].name
                   PROVE  i = j
        BY <1>2
      <3>1. results[i + 1].name = results[j + 1].name /\ {i + 1, j + 1} \subseteq DOMAIN results
        BY <1>1, <1>2
      <3>2. i + 1 = j + 1
        BY <3>1 DEF IInv, ResultsOK
      <3> QED BY <1>1, <3>2
    <2>4. \A i \in DOMAIN results' :
             /\ results'[i].name \in Sent \ DOMAIN checks
             /\ results'[i].name # r.name
             /\ results'[i].ok <=> results'[i].name \in healthy
      BY <1>1, <1>2, SMTT(30) DEF IInv, ResultsOK
    <2>5. \A i \in DOMAIN results' :
             /\ results'[i].name \in Sent' \ DOMAIN checks'
             /\ results'[i].ok <=> results'[i].name \in healthy'
      BY <1>3, <1>5, <2>1, <2>4
    <2>6. DOMAIN checks' \subseteq Sent'
      BY <1>5, <1>6, <2>1 DEF IInv, ResultsOK
    <2>7. ASSUME NEW c \in Sent'
          PROVE  c \in DOMAIN checks' \/ \E i \in DOMAIN results' : results'[i].name = c
      <3>1. CASE c \in DOMAIN checks
        BY <3>1, <2>1
      <3>2. CASE c \notin DOMAIN checks
        <4>1. PICK i \in 1..n : results[i].name = c
          BY <1>1, <1>5, <3>2 DEF IInv, ResultsOK
        <4>2. CASE i = 1
          BY <4>1, <4>2, <2>1
        <4>3. CASE i # 1
          <5>1. i - 1 \in 1..(n - 1) /\ results'[i - 1] = results[(i - 1) + 1] /\ (i - 1) + 1 = i
            BY <1>1, <1>2, <4>3
          <5> QED BY <5>1, <4>1, <1>2
        <4> QED BY <4>2, <4>3
      <3> QED BY <3>1, <3>2
    <2> HIDE DEF r
    <2> QED BY <2>2, <2>3, <2>5, <2>6, <2>7 DEF ResultsOK
  <1>9. WaitGroupOK' /\ HealthyOK' /\ CallerOK'
    BY <1>3, <1>5 DEF IInv, WaitGroupOK, HealthyOK, CallerOK
  <1> QED BY <1>4, <1>7, <1>8, <1>9 DEF IInv

\* Nothing changes but where Check is.
LEMMA ReportLemma == ASSUME IInv, Report PROVE IInv'
  <1> USE DEF Report
  <1>1. Sent' = Sent /\ Counted' = Counted
    BY DEF Sent, Counted
  <1>2. Types' /\ CallerOK' /\ HealthyOK'
    BY DEF IInv, Types, CallerOK, HealthyOK
  <1>3. WaitGroupOK' /\ ResultsOK' /\ ChecksOK'
    BY <1>1 DEF IInv, WaitGroupOK, ResultsOK, ChecksOK
  <1> QED BY <1>2, <1>3 DEF IInv

\* Every step of Check and of its goroutines keeps the invariant.
LEMMA NextLemma == IInv /\ [Next]_vars => IInv'
  <1> SUFFICES ASSUME IInv, [Next]_vars PROVE IInv'
    OBVIOUS
  <1>1. ASSUME NEW c \in Checkers,
               (\E answered \in BOOLEAN : PingAnswers(c, answered)) \/ Worker(c)
        PROVE  IInv'
    BY <1>1, PingLemma, SendLemma, DoneLemma DEF Worker
  <1>2. CASE Caller
    BY <1>2, SpawnLemma, CloseLemma, ReceiveLemma, ReportLemma DEF Caller
  <1>3. CASE UNCHANGED vars
    BY <1>3 DEF vars, IInv, Types, WaitGroupOK, HealthyOK, ResultsOK, ChecksOK, CallerOK,
                Counted, Sent
  <1> QED BY <1>1, <1>2, <1>3 DEF Next

\* The invariant holds in every reachable state.
LEMMA Invariance == Spec => []IInv
  BY InitLemma, NextLemma, PTL DEF Spec

-----------------------------------------------------------------------------

\* A goroutine that has its result always finds room for it in the channel,
\* for make(chan result, len(s.checkers)) is as large as can be needed: no send
\* of Check ever blocks, though nobody receives before wg.Wait returns.
THEOREM SendNeverWaits ==
    Spec => [](\A c \in Checkers : worker[c] = "send" => Len(results) < Cardinality(Checkers))
  <1>1. ASSUME IInv, NEW c \in Checkers, worker[c] = "send"
        PROVE  Len(results) < Cardinality(Checkers)
    <2>1. Sent \subseteq Checkers /\ Sent # Checkers
      BY <1>1 DEF Sent
    <2>2. /\ Cardinality(Sent) <= Cardinality(Checkers)
          /\ Cardinality(Sent) # Cardinality(Checkers)
      BY <2>1, CheckersAssumption, FS_Subset
    <2>3. Cardinality(Sent) \in Nat /\ Cardinality(Checkers) \in Nat /\ Len(results) \in Nat
      BY <1>1, Finite, CheckersAssumption, FS_CardinalityType DEF IInv, Types
    <2>4. Len(results) <= Cardinality(Sent)
      BY <1>1 DEF IInv, ResultsOK
    <2> DEFINE k == Len(results)
    <2> DEFINE s == Cardinality(Sent)
    <2> DEFINE m == Cardinality(Checkers)
    <2> HIDE DEF k, s, m
    <2>5. k \in Nat /\ s \in Nat /\ m \in Nat /\ k <= s /\ s <= m /\ s # m
      BY <2>2, <2>3, <2>4 DEF k, s, m
    <2>6. k < m
      BY <2>5
    <2> QED BY <2>6 DEF k, m
  <1>2. IInv => \A c \in Checkers : worker[c] = "send" => Len(results) < Cardinality(Checkers)
    BY <1>1
  <1> QED BY <1>2, Invariance, PTL

\* Every variable of Check has its type, and the channel never holds more than
\* it was made for.
THEOREM Typing == Spec => []TypeOK
  <1>1. IInv => TypeOK
    <2> SUFFICES ASSUME IInv PROVE TypeOK
      OBVIOUS
    <2>1. wg \in Nat /\ Cardinality(Sent) \in Nat /\ Cardinality(Checkers) \in Nat
      BY Finite, CheckersAssumption, FS_CardinalityType DEF IInv, WaitGroupOK
    <2>2. Cardinality(Sent) <= Cardinality(Checkers)
      BY CheckersAssumption, FS_Subset DEF Sent
    <2>3. Len(results) <= Cardinality(Checkers)
      BY <2>1, <2>2 DEF IInv, Types, ResultsOK
    <2>4. DOMAIN checks \subseteq Checkers
      BY DEF IInv, ResultsOK, Sent
    <2> QED BY <2>1, <2>3, <2>4 DEF IInv, Types, TypeOK
  <1> QED BY <1>1, Invariance, PTL

\* When the channel is closed no goroutine has a send before it: Check cannot
\* bring the process down.
THEOREM CloseIsSafe == Spec => []NoSendAfterClose
  <1>1. IInv => NoSendAfterClose
    BY DEF IInv, CallerOK, Types, NoSendAfterClose
  <1> QED BY <1>1, Invariance, PTL

\* The report of /healthz names every checker once, with the answer of its own
\* ping, and is degraded exactly when one of them is down.
THEOREM ReportIsExact == Spec => []ReportExact
  <1>1. IInv => ReportExact
    <2> SUFFICES ASSUME IInv, caller = "reported"
                 PROVE  /\ checks = [c \in Checkers |-> IF c \in healthy THEN "ok" ELSE "down"]
                        /\ allOK <=> healthy = Checkers
      BY DEF ReportExact
    <2>1. Sent = Checkers /\ results = <<>>
      BY DEF IInv, CallerOK, Sent
    <2>2. DOMAIN checks = Checkers
      <3>1. DOMAIN results = {}
        BY <2>1
      <3> QED BY <2>1, <3>1 DEF IInv, ResultsOK
    <2>3. checks = [c \in DOMAIN checks |-> checks[c]]
      BY DEF IInv, Types
    <2> QED BY <2>2, <2>3 DEF IInv, Types, ChecksOK
  <1> QED BY <1>1, Invariance, PTL
==============================================================================
