------------------------------ MODULE LineWebhook ------------------------------
(***************************************************************************)
(* The LINE component: webhook handler, Service.Handle and the Upsert of   *)
(* the Postgres repository.  LINE sends batches of events and sends a      *)
(* batch again until it sees a 200; redeliveries of one batch and          *)
(* deliveries of different batches run concurrently, in any order.  Each   *)
(* handler applies the events of its batch one statement at a time, with   *)
(* no transaction around them, and stops at the first error.               *)
(***************************************************************************)
EXTENDS Integers, Sequences

CONSTANTS
    Users,        \* LINE user ids
    Batches,      \* the webhook requests LINE has to get through
    Content,      \* the events of each batch, as LINE sends them
    Workers,      \* concurrent request handlers
    MaxFailures,  \* bound on failed statements, lost answers and crashes
    MaxClock      \* bound on the clock

\* The source of an event that is not a user's (a group or a room).
NoUser == "no user"

RawEvent == [type: {"follow", "unfollow", "other"}, user: Users \cup {NoUser}, at: Nat]

ASSUME ContentAssumption == Content \in [Batches -> Seq(RawEvent)]
ASSUME UsersAssumption == NoUser \notin Users
ASSUME BoundsAssumption == MaxFailures \in Nat /\ MaxClock \in Nat

VARIABLES
    users,      \* the line_users table: a function from user ids to rows
    clock,      \* what time.Now() returns
    pc,         \* next step of each handler
    job,        \* the batch each handler works on
    pos,        \* the position in it of the event it handles next
    now,        \* the time.Now() it took for that event
    reply,      \* the last status code it answered
    acked,      \* the batches LINE has seen a 200 for
    failures    \* the failures so far

vars == <<users, clock, pc, job, pos, now, reply, acked, failures>>

Row == [status: {"FOLLOWING", "BLOCKED"}, lastEventAt: Nat, createdAt: Nat, updatedAt: Nat]

NoBatch == "no batch"

\* Mutant: events whose source is no user are kept.
RelevantFromAnyone(e) == e.type \in {"follow", "unfollow"}

\* toDomainEvents keeps the follow and unfollow events of users.
Relevant(e) == e.type \in {"follow", "unfollow"} /\ e.user # NoUser

\* Event.Status
StatusOf(e) == IF e.type = "follow" THEN "FOLLOWING" ELSE "BLOCKED"

-----------------------------------------------------------------------------
(* The upsert: one SQL statement.                                          *)

Put(t, u, r) == [v \in DOMAIN t \cup {u} |-> IF v = u THEN r ELSE t[v]]

NewUser(e, t) ==
    [status |-> StatusOf(e), lastEventAt |-> e.at, createdAt |-> t, updatedAt |-> t]

\* Mutant: created_at is in the SET list of DO UPDATE.
OverwrittenAnew(r, e, t) == NewUser(e, t)

\* Mutant: status is not in the SET list of DO UPDATE.
OverwrittenTimeOnly(r, e, t) == [r EXCEPT !.lastEventAt = e.at, !.updatedAt = t]

\* DO UPDATE SET
Overwritten(r, e, t) ==
    [r EXCEPT !.status = StatusOf(e), !.lastEventAt = e.at, !.updatedAt = t]

\* Mutant: no WHERE clause on DO UPDATE.
AllowsAlways(r, e) == TRUE

\* The WHERE clause of DO UPDATE
Allows(r, e) == r.lastEventAt <= e.at

Upserted(e, t) ==
    IF e.user \notin DOMAIN users THEN Put(users, e.user, NewUser(e, t))
    ELSE IF Allows(users[e.user], e)
         THEN [users EXCEPT ![e.user] = Overwritten(users[e.user], e, t)]
         ELSE users

-----------------------------------------------------------------------------
Init ==
    /\ users = [u \in {} |-> {}]
    /\ clock = 0
    /\ pc = [w \in Workers |-> "idle"]
    /\ job = [w \in Workers |-> NoBatch]
    /\ pos = [w \in Workers |-> 1]
    /\ now = [w \in Workers |-> 0]
    /\ reply = [w \in Workers |-> 0]
    /\ acked = {}
    /\ failures = 0

Event(w) == Content[job[w]][pos[w]]

\* The handler answers and is done.
Finish(w, code) ==
    /\ pc' = [pc EXCEPT ![w] = "idle"]
    /\ job' = [job EXCEPT ![w] = NoBatch]
    /\ pos' = [pos EXCEPT ![w] = 1]
    /\ now' = [now EXCEPT ![w] = 0]
    /\ reply' = [reply EXCEPT ![w] = code]

\* A request with a wrong signature (401) or a body that is not JSON (400).
Refuse(w) ==
    /\ pc[w] = "idle"
    /\ \E code \in {400, 401} : Finish(w, code)
    /\ UNCHANGED <<users, clock, acked, failures>>

\* LINE sends batch b, for the first time or again.
Deliver(w, b) ==
    /\ pc[w] = "idle"
    /\ pc' = [pc EXCEPT ![w] = "next"]
    /\ job' = [job EXCEPT ![w] = b]
    /\ reply' = [reply EXCEPT ![w] = 0]
    /\ UNCHANGED <<users, clock, pos, now, acked, failures>>

\* toDomainEvents leaves the event out.
Skip(w) ==
    /\ pc[w] = "next"
    /\ pos[w] <= Len(Content[job[w]])
    /\ ~Relevant(Event(w))
    /\ pos' = [pos EXCEPT ![w] = @ + 1]
    /\ UNCHANGED <<users, clock, pc, job, now, reply, acked, failures>>

\* Handle builds the User with the current time.
Stamp(w) ==
    /\ pc[w] = "next"
    /\ pos[w] <= Len(Content[job[w]])
    /\ Relevant(Event(w))
    /\ now' = [now EXCEPT ![w] = clock]
    /\ pc' = [pc EXCEPT ![w] = "upsert"]
    /\ UNCHANGED <<users, clock, job, pos, reply, acked, failures>>

\* Mutant: a row the WHERE clause keeps is taken for an error.
UpsertRowOrError(w) ==
    /\ pc[w] = "upsert"
    /\ users' = Upserted(Event(w), now[w])
    /\ IF \/ Event(w).user \notin DOMAIN users
          \/ Allows(users[Event(w).user], Event(w))
         THEN /\ pos' = [pos EXCEPT ![w] = @ + 1]
              /\ now' = [now EXCEPT ![w] = 0]
              /\ pc' = [pc EXCEPT ![w] = "next"]
              /\ UNCHANGED <<job, reply>>
         ELSE Finish(w, 500)
    /\ UNCHANGED <<clock, acked, failures>>

Upsert(w) ==
    /\ pc[w] = "upsert"
    /\ users' = Upserted(Event(w), now[w])
    /\ pos' = [pos EXCEPT ![w] = @ + 1]
    /\ now' = [now EXCEPT ![w] = 0]
    /\ pc' = [pc EXCEPT ![w] = "next"]
    /\ UNCHANGED <<clock, job, reply, acked, failures>>

\* Mutant: Handle goes on with the next event after an error.
UpsertFailsOnward(w, stored) ==
    /\ pc[w] = "upsert"
    /\ failures < MaxFailures
    /\ failures' = failures + 1
    /\ users' = IF stored THEN Upserted(Event(w), now[w]) ELSE users
    /\ pos' = [pos EXCEPT ![w] = @ + 1]
    /\ now' = [now EXCEPT ![w] = 0]
    /\ pc' = [pc EXCEPT ![w] = "next"]
    /\ UNCHANGED <<clock, job, reply, acked>>

\* The statement fails, or (stored) it took effect and its answer is lost.
UpsertFails(w, stored) ==
    /\ pc[w] = "upsert"
    /\ failures < MaxFailures
    /\ failures' = failures + 1
    /\ users' = IF stored THEN Upserted(Event(w), now[w]) ELSE users
    /\ Finish(w, 500)
    /\ UNCHANGED <<clock, acked>>

\* Every event is handled: 200.
Answer(w) ==
    /\ pc[w] = "next"
    /\ pos[w] > Len(Content[job[w]])
    /\ Finish(w, 200)
    /\ acked' = acked \cup {job[w]}
    /\ UNCHANGED <<users, clock, failures>>

\* LINE does not see the 200.
AnswerLost(w) ==
    /\ pc[w] = "next"
    /\ pos[w] > Len(Content[job[w]])
    /\ failures < MaxFailures
    /\ failures' = failures + 1
    /\ Finish(w, 200)
    /\ UNCHANGED <<users, clock, acked>>

\* The process stops: every handler is gone, the table stays.
Crash ==
    /\ \E w \in Workers : pc[w] # "idle"
    /\ failures < MaxFailures
    /\ failures' = failures + 1
    /\ pc' = [w \in Workers |-> "idle"]
    /\ job' = [w \in Workers |-> NoBatch]
    /\ pos' = [w \in Workers |-> 1]
    /\ now' = [w \in Workers |-> 0]
    /\ reply' = [w \in Workers |-> 0]
    /\ UNCHANGED <<users, clock, acked>>

Tick ==
    /\ clock < MaxClock
    /\ clock' = clock + 1
    /\ UNCHANGED <<users, pc, job, pos, now, reply, acked, failures>>

\* What a handler does on its own once a batch has been delivered to it.
Proceed(w) == Skip(w) \/ Stamp(w) \/ Upsert(w) \/ Answer(w)

Next ==
    \/ Crash
    \/ Tick
    \/ \E w \in Workers :
          \/ Refuse(w)
          \/ \E b \in Batches : Deliver(w, b)
          \/ Proceed(w)
          \/ AnswerLost(w)
          \/ \E stored \in BOOLEAN : UpsertFails(w, stored)

Spec == Init /\ [][Next]_vars

\* Handlers are goroutines that the runtime keeps scheduling, and LINE sends a
\* batch again for as long as it has not seen a 200 for it.
Fairness ==
    /\ \A w \in Workers : WF_vars(Proceed(w))
    /\ \A b \in Batches :
          SF_vars(b \notin acked /\ \E w \in Workers : Deliver(w, b))

FairSpec == Spec /\ Fairness

-----------------------------------------------------------------------------
(* Properties                                                              *)

\* Every variable has its type; in particular no row is ever stored for an
\* event that has no user.
TypeOK ==
    /\ DOMAIN users \subseteq Users
    /\ users \in [DOMAIN users -> Row]
    /\ clock \in Nat
    /\ pc \in [Workers -> {"idle", "next", "upsert"}]
    /\ job \in [Workers -> Batches \cup {NoBatch}]
    /\ pos \in [Workers -> Nat \ {0}]
    /\ now \in [Workers -> Nat]
    /\ reply \in [Workers -> {0, 200, 400, 401, 500}]
    /\ acked \subseteq Batches
    /\ failures \in Nat

\* The relevant events LINE sends.
Sent == UNION {{e \in {Content[b][i] : i \in DOMAIN Content[b]} : Relevant(e)} : b \in Batches}

\* The table is at least as new as event e.
Reflected(e) ==
    e.user \in DOMAIN users /\ users[e.user].lastEventAt >= e.at

\* A 200 is a promise: once LINE has seen it, and will not send the batch
\* again, every event of the batch is in the table or superseded by a newer
\* one, whatever failed, was redelivered or came out of order on the way.
AckedReflected ==
    \A b \in acked : \A i \in DOMAIN Content[b] :
        Relevant(Content[b][i]) => Reflected(Content[b][i])

\* The status and the time of a row always come from one and the same event
\* of its user: concurrent handlers never mix two events in a row.
RowsComeFromEvents ==
    \A u \in DOMAIN users :
        \E e \in Sent :
            /\ e.user = u
            /\ e.at = users[u].lastEventAt
            /\ StatusOf(e) = users[u].status

\* An event of u than which LINE has sent none newer.
Newest(u) == {e \in Sent : e.user = u /\ \A f \in Sent : f.user = u => f.at <= e.at}

\* The table shows every user as its newest event left it.
Converged ==
    \A u \in {e.user : e \in Sent} :
        /\ u \in DOMAIN users
        /\ \E e \in Newest(u) : users[u].status = StatusOf(e)

\* When LINE has nothing left to send, the table is right.
AllAckedConverged == acked = Batches => Converged

\* A row's event time never decreases, its creation time never changes and
\* it never goes away (created_at is not in the SET list of the upsert).
RowsOnlyMoveOn ==
    [][\A u \in DOMAIN users :
          /\ u \in DOMAIN users'
          /\ users'[u].lastEventAt >= users[u].lastEventAt
          /\ users'[u].createdAt = users[u].createdAt]_users

\* Two events of a user never have the same time, unless they are of the same
\* type (one event sent twice).
DistinctTimes ==
    \A e, f \in Sent : e.user = f.user /\ e.at = f.at => e.type = f.type

\* However batches fail and are redelivered, the table ends up showing the
\* newest event of every user.
EventuallyConverged == <>[]Converged

\* What users knows, for the abstract specification.
Known == [u \in DOMAIN users |-> [status |-> users[u].status, at |-> users[u].lastEventAt]]

Abstract == INSTANCE LineStatus WITH known <- Known

\* Given DistinctTimes, every change of the table is a move to a newer event:
\* redelivered and late events are not seen at all.
StatusSpec == Abstract!Spec
===============================================================================
