----------------------------- MODULE HealthCheck -----------------------------
(***************************************************************************)
(* Service.Check of the health component: one goroutine per checker sends  *)
(* its result to a channel with room for all of them; the caller waits for *)
(* a WaitGroup, closes the channel and only then reads it.                 *)
(***************************************************************************)
EXTENDS Integers, Sequences, FiniteSets

CONSTANT Checkers     \* the names of the checkers; no two are the same

ASSUME CheckersAssumption == IsFiniteSet(Checkers)

VARIABLES
    caller,    \* where Check is
    wg,        \* the WaitGroup's counter
    worker,    \* where the goroutine of each checker is
    healthy,   \* the checkers whose dependency answered their ping
    results,   \* the channel
    closed,    \* it is closed
    checks,    \* the report so far: a function from names
    allOK      \* no result read so far is bad

vars == <<caller, wg, worker, healthy, results, closed, checks, allOK>>

Init ==
    /\ caller = "loop"
    /\ wg = 0
    /\ worker = [c \in Checkers |-> "unborn"]
    /\ healthy = {}
    /\ results = <<>>
    /\ closed = FALSE
    /\ checks = [c \in {} |-> "ok"]
    /\ allOK = TRUE

Step(c, from, to) ==
    /\ worker[c] = from
    /\ worker' = [worker EXCEPT ![c] = to]

\* Mutant: the goroutine is not counted.
SpawnUncounted(c) ==
    /\ caller = "loop"
    /\ Step(c, "unborn", "ping")
    /\ UNCHANGED <<caller, wg, healthy, results, closed, checks, allOK>>

\* wg.Add(1) and the go statement, in the caller's loop.
Spawn(c) ==
    /\ caller = "loop"
    /\ wg' = wg + 1
    /\ Step(c, "unborn", "ping")
    /\ UNCHANGED <<caller, healthy, results, closed, checks, allOK>>

\* The dependency answers the ping, or refuses it.  It need not do either: it
\* may be cut off, or all connections may be in use.
PingAnswers(c, answered) ==
    /\ Step(c, "ping", "send")
    /\ healthy' = IF answered THEN healthy \cup {c} ELSE healthy
    /\ UNCHANGED <<caller, wg, results, closed, checks, allOK>>

\* Mutant: the context of the ping has no timeout.
PingTimesOutNever(c) ==
    /\ FALSE
    /\ UNCHANGED vars

\* checkTimeout is over.
PingTimesOut(c) ==
    /\ Step(c, "ping", "send")
    /\ UNCHANGED <<caller, wg, healthy, results, closed, checks, allOK>>

\* Mutant: the channel has no room, and nobody receives before wg.Wait.
SendUnbuffered(c) ==
    /\ caller = "read"
    /\ Step(c, "send", "done")
    /\ results' = Append(results, [name |-> c, ok |-> c \in healthy])
    /\ UNCHANGED <<caller, wg, healthy, closed, checks, allOK>>

\* Mutant: a failed ping is reported twice.
SendTwice(c) ==
    /\ Step(c, "send", "done")
    /\ results' = results \o (IF c \in healthy THEN <<[name |-> c, ok |-> TRUE]>>
                              ELSE <<[name |-> c, ok |-> FALSE], [name |-> c, ok |-> FALSE]>>)
    /\ UNCHANGED <<caller, wg, healthy, closed, checks, allOK>>

\* A send waits while the channel is full.
Send(c) ==
    /\ Len(results) < Cardinality(Checkers)
    /\ Step(c, "send", "done")
    /\ results' = Append(results, [name |-> c, ok |-> c \in healthy])
    /\ UNCHANGED <<caller, wg, healthy, closed, checks, allOK>>

\* The deferred wg.Done()
Done(c) ==
    /\ Step(c, "done", "ended")
    /\ wg' = wg - 1
    /\ UNCHANGED <<caller, healthy, results, closed, checks, allOK>>

\* Every goroutine is started, wg.Wait() returns, close(results).
Close ==
    /\ caller = "loop"
    /\ \A c \in Checkers : worker[c] # "unborn"
    /\ wg = 0
    /\ closed' = TRUE
    /\ caller' = "read"
    /\ UNCHANGED <<wg, worker, healthy, results, checks, allOK>>

\* Mutant: the last result read decides.
ReceiveLast ==
    /\ caller = "read"
    /\ results # <<>>
    /\ LET r == Head(results) IN
          /\ checks' = [c \in DOMAIN checks \cup {r.name} |->
                           IF c # r.name THEN checks[c] ELSE IF r.ok THEN "ok" ELSE "down"]
          /\ allOK' = r.ok
    /\ results' = Tail(results)
    /\ UNCHANGED <<caller, wg, worker, healthy, closed>>

\* One turn of the range loop
Receive ==
    /\ caller = "read"
    /\ results # <<>>
    /\ LET r == Head(results) IN
          /\ checks' = [c \in DOMAIN checks \cup {r.name} |->
                           IF c # r.name THEN checks[c] ELSE IF r.ok THEN "ok" ELSE "down"]
          /\ allOK' = (allOK /\ r.ok)
    /\ results' = Tail(results)
    /\ UNCHANGED <<caller, wg, worker, healthy, closed>>

\* The range over a closed channel ends when it is empty.  GetHealthz answers
\* 200 when all is ok, else 503.
Report ==
    /\ caller = "read"
    /\ results = <<>>
    /\ closed
    /\ caller' = "reported"
    /\ UNCHANGED <<wg, worker, healthy, results, closed, checks, allOK>>

\* What a goroutine does without its dependency.
Worker(c) == PingTimesOut(c) \/ Send(c) \/ Done(c)

Caller == (\E c \in Checkers : Spawn(c)) \/ Close \/ Receive \/ Report

Next ==
    \/ Caller
    \/ \E c \in Checkers :
          \/ \E answered \in BOOLEAN : PingAnswers(c, answered)
          \/ Worker(c)

Spec == Init /\ [][Next]_vars

\* Goroutines are scheduled and timers go off.  No dependency has to answer.
FairSpec == Spec /\ WF_vars(Caller) /\ \A c \in Checkers : WF_vars(Worker(c))

-----------------------------------------------------------------------------
(* Properties                                                              *)

\* Every variable has its type, and the channel never needs more room than it
\* was made with.
TypeOK ==
    /\ caller \in {"loop", "read", "reported"}
    /\ wg \in Int
    /\ worker \in [Checkers -> {"unborn", "ping", "send", "done", "ended"}]
    /\ healthy \subseteq Checkers
    /\ results \in Seq([name: Checkers, ok: BOOLEAN])
    /\ Len(results) <= Cardinality(Checkers)
    /\ closed \in BOOLEAN
    /\ DOMAIN checks \subseteq Checkers
    /\ \A c \in DOMAIN checks : checks[c] \in {"ok", "down"}
    /\ allOK \in BOOLEAN

\* No goroutine is left that could send to the closed channel, which would be
\* a panic outside every Recoverer and the end of the process.
NoSendAfterClose == closed => \A c \in Checkers : worker[c] \in {"done", "ended"}

\* The report has every checker with the result of its own ping, in whatever
\* order the results came, and is degraded when any of them is down.
ReportExact ==
    caller = "reported" =>
        /\ checks = [c \in Checkers |-> IF c \in healthy THEN "ok" ELSE "down"]
        /\ allOK <=> healthy = Checkers

\* /healthz always gets its report, also when no dependency ever answers: every
\* ping ends, and no goroutine blocks on the channel while the caller waits.
ReportComes == <>(caller = "reported")
==============================================================================
