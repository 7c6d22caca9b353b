--------------------------- MODULE LineWebhookProofs ---------------------------
(***************************************************************************)
(* Proofs about LineWebhook, for any users, batches, handlers and bounds.  *)
(* The inductive invariant IInv adds to the invariants the runs check what *)
(* a handler has achieved so far: every event of its batch before its      *)
(* position is in the table (HandlerOK).                                   *)
(***************************************************************************)
EXTENDS LineWebhook, TLAPS

\* A handler at work has got everything before its position into the table.
HandlerOK(w) ==
    /\ pc[w] = "idle" => pos[w] = 1
    /\ pc[w] # "idle" =>
         /\ job[w] \in Batches
         /\ \A b \in Batches : \A i \in DOMAIN Content[b] :
              job[w] = b /\ i < pos[w] /\ Relevant(Content[b][i]) => Reflected(Content[b][i])
    /\ pc[w] = "upsert" =>
         /\ pos[w] \in DOMAIN Content[job[w]]
         /\ Relevant(Event(w))

IInv ==
    /\ TypeOK
    /\ RowsComeFromEvents
    /\ AckedReflected
    /\ \A w \in Workers : HandlerOK(w)

-----------------------------------------------------------------------------
(* Lemmas about the events and the upsert.                                 *)

\* What is sent is exactly the relevant events of the batches.
LEMMA SentFacts ==
    /\ \A b \in Batches : \A i \in DOMAIN Content[b] :
         Relevant(Content[b][i]) => Content[b][i] \in Sent
    /\ \A e \in Sent :
         /\ Relevant(e)
         /\ e \in RawEvent
         /\ e.user \in Users
         /\ e.at \in Nat
         /\ \E b \in Batches : \E i \in DOMAIN Content[b] : e = Content[b][i]
<1>1. ASSUME NEW b \in Batches, NEW i \in DOMAIN Content[b]
      PROVE  Content[b][i] \in RawEvent
  <2>1. Content[b] \in Seq(RawEvent)
    BY ContentAssumption
  <2> QED BY <2>1
<1>2. ASSUME NEW b \in Batches, NEW i \in DOMAIN Content[b], Relevant(Content[b][i])
      PROVE  Content[b][i] \in Sent
  <2> DEFINE S == {e \in {Content[b][j] : j \in DOMAIN Content[b]} : Relevant(e)}
  <2>1. Content[b][i] \in S
    BY <1>2
  <2> QED BY <2>1 DEF Sent
<1>3. ASSUME NEW e \in Sent
      PROVE  /\ Relevant(e)
             /\ \E b \in Batches : \E i \in DOMAIN Content[b] : e = Content[b][i]
  BY DEF Sent
<1>4. ASSUME NEW e \in RawEvent, Relevant(e)
      PROVE  e.user \in Users /\ e.at \in Nat
  BY <1>4 DEF RawEvent, Relevant
<1> QED BY <1>1, <1>2, <1>3, <1>4

\* One upsert: every row stays, keeps its creation time and gets no older;
\* the user of the event has a row that is not older than the event, and that
\* is either untouched or shows exactly this event.
LEMMA UpsertFacts ==
    ASSUME TypeOK, NEW e \in Sent, NEW t \in Nat, NEW new, new = Upserted(e, t)
    PROVE  /\ DOMAIN new = DOMAIN users \cup {e.user}
           /\ new \in [DOMAIN new -> Row]
           /\ \A u \in DOMAIN users :
                /\ new[u].lastEventAt >= users[u].lastEventAt
                /\ new[u].createdAt = users[u].createdAt
                /\ u # e.user => new[u] = users[u]
           /\ new[e.user].lastEventAt >= e.at
           /\ \/ e.user \in DOMAIN users /\ new[e.user] = users[e.user]
              \/ /\ new[e.user].lastEventAt = e.at
                 /\ new[e.user].status = StatusOf(e)
<1>1. /\ users \in [DOMAIN users -> Row]
      /\ \A u \in DOMAIN users : /\ users[u] \in Row
                                 /\ users[u].lastEventAt \in Nat
      /\ e.at \in Nat
      /\ StatusOf(e) \in {"FOLLOWING", "BLOCKED"}
  BY SentFacts DEF TypeOK, Row, StatusOf
<1>2. CASE e.user \notin DOMAIN users
  <2>1. new = [v \in DOMAIN users \cup {e.user} |->
                 IF v = e.user THEN NewUser(e, t) ELSE users[v]]
    BY <1>2 DEF Upserted, Put
  <2>2. /\ NewUser(e, t) \in Row
        /\ NewUser(e, t).lastEventAt = e.at
        /\ NewUser(e, t).status = StatusOf(e)
    BY <1>1 DEF NewUser, Row
  <2> QED BY <1>1, <1>2, <2>1, <2>2
<1>3. CASE e.user \in DOMAIN users /\ Allows(users[e.user], e)
  <2> DEFINE r == Overwritten(users[e.user], e, t)
  <2>1. new = [users EXCEPT ![e.user] = r]
    BY <1>3 DEF Upserted
  <2>2. users[e.user] \in Row /\ users[e.user].lastEventAt <= e.at
    BY <1>1, <1>3 DEF Allows
  <2>3. /\ r \in Row
        /\ r.lastEventAt = e.at
        /\ r.status = StatusOf(e)
        /\ r.createdAt = users[e.user].createdAt
    BY <1>1, <2>2 DEF Overwritten, Row
  <2> HIDE DEF r
  <2>4. DOMAIN users \cup {e.user} = DOMAIN users
    BY <1>3
  <2>5. DOMAIN new = DOMAIN users /\ new \in [DOMAIN users -> Row]
    BY <1>1, <1>3, <2>1, <2>3
  <2>6. /\ new[e.user] = r
        /\ \A u \in DOMAIN users : u # e.user => new[u] = users[u]
    BY <1>3, <2>1
  <2> QED BY <1>1, <1>3, <2>2, <2>3, <2>4, <2>5, <2>6
<1>4. CASE e.user \in DOMAIN users /\ ~Allows(users[e.user], e)
  <2>1. new = users
    BY <1>4 DEF Upserted
  <2>2. users[e.user].lastEventAt >= e.at
    BY <1>1, <1>4 DEF Allows
  <2>3. DOMAIN users \cup {e.user} = DOMAIN users
    BY <1>4
  <2>4. /\ users[e.user].lastEventAt >= e.at
        /\ \A u \in DOMAIN users : users[u].lastEventAt >= users[u].lastEventAt
    BY <1>1, <2>2
  <2> QED BY <1>1, <1>4, <2>1, <2>3, <2>4
<1> QED BY <1>2, <1>3, <1>4

-----------------------------------------------------------------------------
(* Lemmas about steps.                                                     *)

\* A step of another handler leaves w's work alone.
Untouched(w) == pc'[w] = pc[w] /\ job'[w] = job[w] /\ pos'[w] = pos[w]

\* No row disappears or gets an older event time.
NoneOlder ==
    \A u \in DOMAIN users :
        u \in DOMAIN users' /\ users'[u].lastEventAt >= users[u].lastEventAt

\* What is reflected stays reflected.
LEMMA ReflectedStays ==
    ASSUME TypeOK, TypeOK', NoneOlder, NEW e, e.at \in Nat, Reflected(e)
    PROVE  Reflected(e)'
<1>1. /\ e.user \in DOMAIN users'
      /\ users[e.user].lastEventAt \in Nat
      /\ users'[e.user].lastEventAt \in Nat
  BY DEF TypeOK, Row, Reflected, NoneOlder
<1> QED BY <1>1 DEF Reflected, NoneOlder

\* So are the events of acknowledged batches and those an untouched handler
\* has behind it.
LEMMA FrameLemma ==
    ASSUME TypeOK, TypeOK', NoneOlder
    PROVE  /\ \A b \in Batches : \A i \in DOMAIN Content[b] :
                Relevant(Content[b][i]) /\ Reflected(Content[b][i])
                    => Reflected(Content[b][i])'
           /\ \A w \in Workers : HandlerOK(w) /\ Untouched(w) => HandlerOK(w)'
<1>1. ASSUME NEW b \in Batches, NEW i \in DOMAIN Content[b],
             Relevant(Content[b][i]), Reflected(Content[b][i])
      PROVE  Reflected(Content[b][i])'
  BY <1>1, SentFacts, ReflectedStays
<1>2. ASSUME NEW w \in Workers, HandlerOK(w), Untouched(w)
      PROVE  HandlerOK(w)'
  <2>1. ASSUME pc'[w] # "idle", NEW b \in Batches, NEW i \in DOMAIN Content[b],
               job'[w] = b, i < pos'[w], Relevant(Content[b][i])
        PROVE  Reflected(Content[b][i])'
    <3>1. Reflected(Content[b][i])
      BY <1>2, <2>1 DEF HandlerOK, Untouched
    <3> QED BY <1>1, <2>1, <3>1
  <2>2. pc'[w] # "idle" => job'[w] \in Batches
    BY <1>2 DEF HandlerOK, Untouched
  <2>3. pc'[w] = "upsert" =>
          pos'[w] \in DOMAIN Content[job'[w]] /\ Relevant(Content[job'[w]][pos'[w]])
    BY <1>2 DEF HandlerOK, Untouched, Event
  <2>4. pc'[w] = "idle" => pos'[w] = 1
    BY <1>2 DEF HandlerOK, Untouched
  <2> QED BY <2>1, <2>2, <2>3, <2>4 DEF HandlerOK, Event
<1> QED BY <1>1, <1>2

\* A handler that has answered has disturbed nobody.
LEMMA FinishLemma ==
    ASSUME TypeOK, NEW w \in Workers, NEW code \in {200, 400, 401, 500}, Finish(w, code)
    PROVE  /\ pc' \in [Workers -> {"idle", "next", "upsert"}]
           /\ job' \in [Workers -> Batches \cup {NoBatch}]
           /\ pos' \in [Workers -> Nat \ {0}]
           /\ now' \in [Workers -> Nat]
           /\ reply' \in [Workers -> {0, 200, 400, 401, 500}]
           /\ \A v \in Workers \ {w} : Untouched(v)
           /\ pc'[w] = "idle"
           /\ HandlerOK(w)'
<1>1. pc'[w] = "idle" /\ pos'[w] = 1
  BY DEF TypeOK, Finish
<1>2. HandlerOK(w)'
  BY <1>1 DEF HandlerOK
<1> QED BY <1>1, <1>2 DEF TypeOK, Finish, Untouched

\* A step of w that leaves the table and the acknowledgements alone.
LEMMA QuietLemma ==
    ASSUME IInv, TypeOK', NEW w \in Workers, UNCHANGED <<users, acked>>,
           \A v \in Workers \ {w} : Untouched(v), HandlerOK(w)'
    PROVE  IInv'
<1>1. RowsComeFromEvents' /\ AckedReflected'
  BY DEF IInv, RowsComeFromEvents, AckedReflected, Reflected
<1>2. NoneOlder
  BY DEF NoneOlder, IInv, TypeOK, Row
<1>3. \A v \in Workers : HandlerOK(v)'
  BY <1>2, FrameLemma DEF IInv
<1> QED BY <1>1, <1>3 DEF IInv

\* The statement of w takes effect, with whatever w does next.
LEMMA StoreLemma ==
    ASSUME IInv, TypeOK', NEW w \in Workers, pc[w] = "upsert",
           NEW e, e = Event(w),
           users' = Upserted(e, now[w]), UNCHANGED acked,
           \A v \in Workers \ {w} : Untouched(v),
           Reflected(e)' => HandlerOK(w)'
    PROVE  IInv'
<1>1. e \in Sent /\ now[w] \in Nat /\ TypeOK
  BY SentFacts DEF IInv, HandlerOK, Event, TypeOK
<1>2. /\ DOMAIN users' = DOMAIN users \cup {e.user}
      /\ \A u \in DOMAIN users :
           /\ users'[u].lastEventAt >= users[u].lastEventAt
           /\ u # e.user => users'[u] = users[u]
      /\ users'[e.user].lastEventAt >= e.at
      /\ \/ e.user \in DOMAIN users /\ users'[e.user] = users[e.user]
         \/ /\ users'[e.user].lastEventAt = e.at
            /\ users'[e.user].status = StatusOf(e)
  BY <1>1, UpsertFacts, ZenonT(60)
<1>3. Reflected(e)'
  BY <1>2 DEF Reflected
<1>4. NoneOlder
  BY <1>2 DEF NoneOlder
<1>5. RowsComeFromEvents'
  BY <1>1, <1>2 DEF IInv, RowsComeFromEvents
<1>6. AckedReflected'
  BY <1>4, FrameLemma DEF IInv, AckedReflected, TypeOK
<1>7. \A v \in Workers : HandlerOK(v)'
  BY <1>3, <1>4, FrameLemma DEF IInv
<1> QED BY <1>5, <1>6, <1>7 DEF IInv

-----------------------------------------------------------------------------
(* The invariant holds initially and every step preserves it.              *)

LEMMA InitLemma == Init => IInv
  BY DEF Init, IInv, TypeOK, RowsComeFromEvents, AckedReflected, HandlerOK

\* Every step keeps the types.
LEMMA TypeLemma == IInv /\ [Next]_vars => TypeOK'
<1> SUFFICES ASSUME IInv, [Next]_vars
             PROVE  TypeOK'
  OBVIOUS
<1> USE DEF IInv
<1>1. CASE Crash
  BY <1>1 DEF TypeOK, Crash
<1>2. CASE Tick
  BY <1>2 DEF TypeOK, Tick
<1>3. ASSUME NEW w \in Workers, Refuse(w) \/ Answer(w) \/ AnswerLost(w)
      PROVE  TypeOK'
  <2>1. \E code \in {200, 400, 401, 500} : Finish(w, code)
    BY <1>3 DEF Refuse, Answer, AnswerLost
  <2>2. /\ users' = users /\ clock' = clock
        /\ failures' \in Nat
    BY <1>3 DEF TypeOK, Refuse, Answer, AnswerLost
  <2>3. acked' \subseteq Batches
    BY <1>3 DEF TypeOK, HandlerOK, Refuse, Answer, AnswerLost
  <2> QED BY <2>1, <2>2, <2>3, FinishLemma DEF TypeOK
<1>4. ASSUME NEW w \in Workers, NEW b \in Batches, Deliver(w, b)
      PROVE  TypeOK'
  BY <1>4 DEF TypeOK, Deliver
<1>5. ASSUME NEW w \in Workers, Skip(w) \/ Stamp(w)
      PROVE  TypeOK'
  <2>1. CASE Skip(w)
    <3>1. pos[w] + 1 \in Nat \ {0}
      BY DEF TypeOK
    <3>2. pos' \in [Workers -> Nat \ {0}]
      BY <2>1, <3>1 DEF TypeOK, Skip
    <3> QED BY <2>1, <3>2 DEF TypeOK, Skip
  <2>2. CASE Stamp(w)
    BY <2>2 DEF TypeOK, Stamp
  <2> QED BY <1>5, <2>1, <2>2
<1>6. ASSUME NEW w \in Workers, pc[w] = "upsert", NEW t, t = Upserted(Event(w), now[w])
      PROVE  DOMAIN t \subseteq Users /\ t \in [DOMAIN t -> Row]
  <2>1. PICK e : e = Event(w)
    OBVIOUS
  <2>2. e \in Sent /\ e.user \in Users /\ now[w] \in Nat
    BY <1>6, <2>1, SentFacts DEF HandlerOK, Event, TypeOK
  <2>3. t = Upserted(e, now[w])
    BY <1>6, <2>1
  <2>4. DOMAIN t = DOMAIN users \cup {e.user} /\ t \in [DOMAIN t -> Row]
    BY <2>2, <2>3, UpsertFacts
  <2> QED BY <2>2, <2>4 DEF TypeOK
<1>7. ASSUME NEW w \in Workers, Upsert(w)
      PROVE  TypeOK'
  <2>1. DOMAIN users' \subseteq Users /\ users' \in [DOMAIN users' -> Row]
    BY <1>6, <1>7 DEF Upsert
  <2> QED BY <1>7, <2>1 DEF TypeOK, Upsert
<1>8. ASSUME NEW w \in Workers, NEW stored \in BOOLEAN, UpsertFails(w, stored)
      PROVE  TypeOK'
  <2>1. Finish(w, 500) /\ clock' = clock /\ acked' = acked /\ failures' \in Nat
    BY <1>8 DEF TypeOK, UpsertFails
  <2>2. DOMAIN users' \subseteq Users /\ users' \in [DOMAIN users' -> Row]
    <3>1. /\ pc[w] = "upsert"
          /\ users' = IF stored THEN Upserted(Event(w), now[w]) ELSE users
      BY <1>8 DEF UpsertFails
    <3>2. CASE stored
      BY <1>6, <3>1, <3>2
    <3>3. CASE ~stored
      BY <3>1, <3>3 DEF TypeOK
    <3> QED BY <3>2, <3>3
  <2> QED BY <2>1, <2>2, FinishLemma DEF TypeOK
<1>9. CASE UNCHANGED vars
  BY <1>9 DEF TypeOK, vars
<1> QED BY <1>1, <1>2, <1>3, <1>4, <1>5, <1>7, <1>8, <1>9 DEF Next, Proceed

LEMMA AnswerLemma ==
    ASSUME IInv, TypeOK', NEW w \in Workers, Answer(w)
    PROVE  IInv'
<1>1. /\ Finish(w, 200)
      /\ pc[w] = "next"
      /\ pos[w] > Len(Content[job[w]])
      /\ acked' = acked \cup {job[w]}
      /\ users' = users
      /\ TypeOK
  BY DEF Answer, IInv
<1>2. RowsComeFromEvents'
  BY <1>1 DEF IInv, RowsComeFromEvents
<1>3. ASSUME NEW b \in acked', NEW i \in DOMAIN Content[b], Relevant(Content[b][i])
      PROVE  Reflected(Content[b][i])'
  <2>1. CASE b \in acked
    BY <1>1, <1>3, <2>1 DEF IInv, AckedReflected, Reflected
  <2>2. CASE b = job[w]
    <3>1. job[w] \in Batches /\ pos[w] \in Nat
      BY <1>1 DEF IInv, HandlerOK, TypeOK
    <3>2. Content[b] \in Seq(RawEvent)
      BY <2>2, <3>1, ContentAssumption
    <3>3. i < pos[w]
      BY <1>1, <2>2, <3>1, <3>2
    <3>4. Reflected(Content[b][i])
      BY <1>1, <1>3, <2>2, <3>1, <3>3 DEF IInv, HandlerOK
    <3> QED BY <1>1, <3>4 DEF Reflected
  <2> QED BY <1>1, <2>1, <2>2
<1>4. AckedReflected'
  BY <1>3 DEF AckedReflected
<1>5. /\ \A v \in Workers \ {w} : Untouched(v)
      /\ HandlerOK(w)'
  BY <1>1, FinishLemma
<1>6. NoneOlder
  BY <1>1 DEF NoneOlder, TypeOK, Row
<1>7. \A v \in Workers : HandlerOK(v)'
  BY <1>1, <1>5, <1>6, FrameLemma DEF IInv
<1> QED BY <1>2, <1>4, <1>7 DEF IInv

\* Skipping an irrelevant event, or preparing a relevant one.
LEMMA AdvanceLemma ==
    ASSUME IInv, TypeOK', NEW w \in Workers, Skip(w) \/ Stamp(w)
    PROVE  IInv'
<1>1. /\ pc[w] = "next"
      /\ pos[w] <= Len(Content[job[w]])
      /\ UNCHANGED <<users, acked, job>>
      /\ TypeOK
  BY DEF Skip, Stamp, IInv
<1>2. job[w] \in Batches /\ pos[w] \in Nat \ {0}
  BY <1>1 DEF IInv, HandlerOK, TypeOK
<1>3. \A v \in Workers \ {w} : Untouched(v)
  BY <1>1 DEF Skip, Stamp, Untouched, TypeOK
<1>4. CASE Skip(w)
  <2>1. pos'[w] = pos[w] + 1 /\ pc'[w] = "next" /\ ~Relevant(Content[job[w]][pos[w]])
    BY <1>1, <1>4 DEF Skip, Event, TypeOK
  <2>2. ASSUME NEW b \in Batches, NEW i \in DOMAIN Content[b],
               job'[w] = b, i < pos'[w], Relevant(Content[b][i])
        PROVE  Reflected(Content[b][i])'
    <3>1. Content[b] \in Seq(RawEvent)
      BY ContentAssumption
    <3>2. i < pos[w]
      BY <1>1, <1>2, <2>1, <2>2, <3>1
    <3> QED BY <1>1, <2>2, <3>2 DEF IInv, HandlerOK, Reflected
  <2>3. HandlerOK(w)'
    BY <1>1, <1>2, <2>1, <2>2 DEF HandlerOK
  <2> QED BY <1>1, <1>3, <2>3, QuietLemma
<1>5. CASE Stamp(w)
  <2>1. /\ pos' = pos
        /\ pc'[w] = "upsert"
        /\ Relevant(Content[job[w]][pos[w]])
    BY <1>1, <1>5 DEF Stamp, Event, TypeOK
  <2>2. pos[w] \in DOMAIN Content[job[w]]
    <3>1. Content[job[w]] \in Seq(RawEvent)
      BY <1>2, ContentAssumption
    <3> QED BY <1>1, <1>2, <3>1
  <2>3. HandlerOK(w)'
    BY <1>1, <1>2, <2>1, <2>2 DEF IInv, HandlerOK, Reflected, Event
  <2> QED BY <1>1, <1>3, <2>3, QuietLemma
<1> QED BY <1>4, <1>5

LEMMA UpsertLemma ==
    ASSUME IInv, TypeOK', NEW w \in Workers, Upsert(w)
    PROVE  IInv'
<1>1. /\ pc[w] = "upsert"
      /\ users' = Upserted(Event(w), now[w])
      /\ UNCHANGED <<acked, job>>
      /\ TypeOK
      /\ pos'[w] = pos[w] + 1
      /\ pc'[w] = "next"
  BY DEF Upsert, IInv, TypeOK
<1>2. PICK e : e = Event(w)
  OBVIOUS
<1>3. \A v \in Workers \ {w} : Untouched(v)
  BY DEF Upsert, Untouched, IInv, TypeOK
<1>4. /\ job[w] \in Batches
      /\ pos[w] \in Nat
      /\ pos[w] \in DOMAIN Content[job[w]]
      /\ Relevant(e)
  BY <1>1, <1>2 DEF IInv, HandlerOK, TypeOK
<1>5. e \in Sent /\ now[w] \in Nat
  BY <1>1, <1>2, <1>4, SentFacts DEF Event, TypeOK
<1>6. NoneOlder
  <2>1. users' = Upserted(e, now[w])
    BY <1>1, <1>2
  <2>2. /\ DOMAIN users' = DOMAIN users \cup {e.user}
        /\ \A u \in DOMAIN users : users'[u].lastEventAt >= users[u].lastEventAt
    BY <1>1, <1>5, <2>1, UpsertFacts
  <2> QED BY <2>2 DEF NoneOlder
<1>7. ASSUME Reflected(e)'
      PROVE  HandlerOK(w)'
  <2>1. ASSUME NEW b \in Batches, NEW i \in DOMAIN Content[b],
               job'[w] = b, i < pos'[w], Relevant(Content[b][i])
        PROVE  Reflected(Content[b][i])'
    <3>1. CASE i = pos[w]
      BY <1>1, <1>2, <1>7, <2>1, <3>1 DEF Event
    <3>2. CASE i < pos[w]
      <4>1. Reflected(Content[b][i])
        BY <1>1, <2>1, <3>2 DEF IInv, HandlerOK
      <4> QED BY <1>1, <1>6, <2>1, <4>1, FrameLemma
    <3>3. i \in Nat
      <4>1. Content[b] \in Seq(RawEvent)
        BY ContentAssumption
      <4> QED BY <4>1
    <3> QED BY <1>1, <1>4, <2>1, <3>1, <3>2, <3>3
  <2> QED BY <1>1, <1>4, <2>1 DEF HandlerOK
<1> QED BY <1>1, <1>2, <1>3, <1>7, StoreLemma

LEMMA UpsertFailsLemma ==
    ASSUME IInv, TypeOK', NEW w \in Workers, NEW stored \in BOOLEAN, UpsertFails(w, stored)
    PROVE  IInv'
<1>1. /\ pc[w] = "upsert"
      /\ users' = IF stored THEN Upserted(Event(w), now[w]) ELSE users
      /\ acked' = acked
      /\ \A v \in Workers \ {w} : Untouched(v)
      /\ HandlerOK(w)'
  BY FinishLemma DEF UpsertFails, IInv
<1>2. PICK e : e = Event(w)
  OBVIOUS
<1>3. CASE stored
  BY <1>1, <1>2, <1>3, StoreLemma
<1>4. CASE ~stored
  BY <1>1, <1>4, QuietLemma
<1> QED BY <1>3, <1>4

LEMMA NextLemma == IInv /\ [Next]_vars => IInv'
<1> SUFFICES ASSUME IInv, [Next]_vars
             PROVE  IInv'
  OBVIOUS
<1>1. TypeOK' /\ TypeOK
  BY TypeLemma DEF IInv
<1>2. CASE Crash
  <2>1. RowsComeFromEvents' /\ AckedReflected'
    BY <1>2 DEF Crash, IInv, RowsComeFromEvents, AckedReflected, Reflected
  <2>2. \A w \in Workers : HandlerOK(w)'
    BY <1>2 DEF Crash, HandlerOK
  <2> QED BY <1>1, <2>1, <2>2 DEF IInv
<1>3. CASE Tick \/ UNCHANGED vars
  <2>1. UNCHANGED <<users, acked, pc, job, pos>>
    BY <1>3 DEF Tick, vars
  <2> QED BY <1>1, <2>1 DEF IInv, RowsComeFromEvents, AckedReflected, Reflected,
                            HandlerOK, Event
<1>4. ASSUME NEW w \in Workers, Refuse(w) \/ AnswerLost(w)
      PROVE  IInv'
  <2>1. UNCHANGED <<users, acked>> /\ \E code \in {200, 400, 401, 500} : Finish(w, code)
    BY <1>4 DEF Refuse, AnswerLost
  <2> QED BY <1>1, <2>1, FinishLemma, QuietLemma
<1>5. ASSUME NEW w \in Workers, NEW b \in Batches, Deliver(w, b)
      PROVE  IInv'
  <2>1. UNCHANGED <<users, acked>> /\ \A v \in Workers \ {w} : Untouched(v)
    BY <1>1, <1>5 DEF Deliver, Untouched, TypeOK
  <2>2. pc'[w] = "next" /\ job'[w] = b /\ pos'[w] = pos[w]
    BY <1>1, <1>5 DEF Deliver, TypeOK
  <2>3. pos[w] = 1
    BY <1>5 DEF Deliver, IInv, HandlerOK
  <2>4. ASSUME NEW i \in DOMAIN Content[b], i < pos[w]
        PROVE  FALSE
    <3>1. Content[b] \in Seq(RawEvent)
      BY ContentAssumption
    <3> QED BY <2>3, <2>4, <3>1
  <2>5. HandlerOK(w)'
    BY <2>2, <2>4 DEF HandlerOK
  <2> QED BY <1>1, <2>1, <2>5, QuietLemma
<1>6. ASSUME NEW w \in Workers, Proceed(w)
      PROVE  IInv'
  BY <1>1, <1>6, AdvanceLemma, UpsertLemma, AnswerLemma DEF Proceed
<1>7. ASSUME NEW w \in Workers, NEW stored \in BOOLEAN, UpsertFails(w, stored)
      PROVE  IInv'
  BY <1>1, <1>7, UpsertFailsLemma
<1> QED BY <1>2, <1>3, <1>4, <1>5, <1>6, <1>7 DEF Next

LEMMA Invariance == Spec => []IInv
  BY InitLemma, NextLemma, PTL DEF Spec

-----------------------------------------------------------------------------
(* The theorems.                                                           *)

\* Every variable always has its type, however requests, failures and crashes
\* interleave; in particular only users' events reach the table.
THEOREM TypeCorrect == Spec => []TypeOK
<1>1. IInv => TypeOK
  BY DEF IInv
<1> QED BY <1>1, Invariance, PTL

\* What LINE has seen a 200 for is in the table or superseded there.
THEOREM AckedKept == Spec => []AckedReflected
<1>1. IInv => AckedReflected
  BY DEF IInv
<1> QED BY <1>1, Invariance, PTL

\* A row never mixes the status of one event with the time of another.
THEOREM RowsAreEvents == Spec => []RowsComeFromEvents
<1>1. IInv => RowsComeFromEvents
  BY DEF IInv
<1> QED BY <1>1, Invariance, PTL

\* Once LINE has seen a 200 for every batch, the table shows every user as the
\* user's newest event left it: the event a row comes from is a newest one.
THEOREM AckedConverged == Spec => []AllAckedConverged
<1> SUFFICES ASSUME IInv, acked = Batches, NEW g \in Sent
             PROVE  /\ g.user \in DOMAIN users
                    /\ \E e \in Newest(g.user) : users[g.user].status = StatusOf(e)
  <2>1. ASSUME IInv
        PROVE  AllAckedConverged
    BY <2>1 DEF AllAckedConverged, Converged
  <2> QED BY <2>1, Invariance, PTL
<1>1. ASSUME NEW e \in Sent
      PROVE  Reflected(e)
  <2>1. \E b \in Batches : \E i \in DOMAIN Content[b] : e = Content[b][i]
    BY SentFacts
  <2>2. PICK b \in Batches : \E i \in DOMAIN Content[b] : e = Content[b][i]
    BY <2>1
  <2>3. PICK i \in DOMAIN Content[b] : e = Content[b][i]
    BY <2>2
  <2> QED BY <2>2, <2>3, SentFacts DEF IInv, AckedReflected
<1>2. g.user \in DOMAIN users
  BY <1>1 DEF Reflected
<1>3. PICK e \in Sent : /\ e.user = g.user
                       /\ e.at = users[g.user].lastEventAt
                       /\ StatusOf(e) = users[g.user].status
  BY <1>2 DEF IInv, RowsComeFromEvents
<1>4. ASSUME NEW f \in Sent, f.user = g.user
      PROVE  f.at <= e.at
  BY <1>1, <1>3, <1>4, SentFacts DEF Reflected
<1>5. e \in Newest(g.user)
  BY <1>3, <1>4 DEF Newest
<1> QED BY <1>2, <1>3, <1>5

-----------------------------------------------------------------------------
(* What steps do to the table.                                             *)

\* A step either leaves the table alone or applies one sent event to it.
LEMMA TableStep ==
    ASSUME IInv, [Next]_vars
    PROVE  \/ users' = users
           \/ \E e \in Sent : \E t \in Nat : users' = Upserted(e, t)
<1>1. ASSUME NEW w \in Workers, pc[w] = "upsert"
      PROVE  Event(w) \in Sent /\ now[w] \in Nat
  BY <1>1, SentFacts DEF IInv, HandlerOK, Event, TypeOK
<1>2. ASSUME NEW w \in Workers, Upsert(w)
      PROVE  \E e \in Sent : \E t \in Nat : users' = Upserted(e, t)
  BY <1>1, <1>2 DEF Upsert
<1>3. ASSUME NEW w \in Workers, NEW stored \in BOOLEAN, UpsertFails(w, stored)
      PROVE  \/ users' = users
             \/ \E e \in Sent : \E t \in Nat : users' = Upserted(e, t)
  BY <1>1, <1>3 DEF UpsertFails
<1>4. ASSUME NEW w \in Workers, NEW b \in Batches, Deliver(w, b)
      PROVE  users' = users
  BY <1>4 DEF Deliver
<1>5. ASSUME NEW w \in Workers,
             Refuse(w) \/ Skip(w) \/ Stamp(w) \/ Answer(w) \/ AnswerLost(w)
      PROVE  users' = users
  BY <1>5 DEF Refuse, Skip, Stamp, Answer, AnswerLost
<1>6. CASE Crash \/ Tick \/ UNCHANGED vars
  BY <1>6 DEF Crash, Tick, vars
<1> QED BY <1>2, <1>3, <1>4, <1>5, <1>6 DEF Next, Proceed

\* No step removes a row, moves its event time back or changes its creation
\* time.
THEOREM RowsMoveOn == Spec => RowsOnlyMoveOn
<1> DEFINE MovesOn == \A u \in DOMAIN users :
                         /\ u \in DOMAIN users'
                         /\ users'[u].lastEventAt >= users[u].lastEventAt
                         /\ users'[u].createdAt = users[u].createdAt
<1>1. ASSUME IInv, [Next]_vars
      PROVE  MovesOn
  <2>1. CASE users' = users
    BY <1>1, <2>1 DEF IInv, TypeOK, Row
  <2>2. ASSUME NEW e \in Sent, NEW t \in Nat, users' = Upserted(e, t)
        PROVE  MovesOn
    <3>1. /\ DOMAIN users' = DOMAIN users \cup {e.user}
          /\ \A u \in DOMAIN users :
               /\ users'[u].lastEventAt >= users[u].lastEventAt
               /\ users'[u].createdAt = users[u].createdAt
      <4>1. TypeOK
        BY <1>1 DEF IInv
      <4> HIDE DEF MovesOn
      <4> QED BY <2>2, <4>1, UpsertFacts
    <3> QED BY <3>1
  <2> QED BY <1>1, <2>1, <2>2, TableStep
<1>2. IInv /\ [Next]_vars => [MovesOn]_users
  BY <1>1
<1> QED BY <1>2, Invariance, PTL DEF Spec, RowsOnlyMoveOn

\* When no two events of a user are at the same time (an event sent twice
\* aside), LineWebhook implements LineStatus: the table only ever changes by
\* taking a newer event in, whatever is redelivered or late.
THEOREM ImplementsStatus == DistinctTimes => (Spec => StatusSpec)
<1> SUFFICES ASSUME DistinctTimes
             PROVE  Spec => StatusSpec
  OBVIOUS
<1>1. Init => Abstract!Init
  BY DEF Init, Abstract!Init, Known
<1>2. ASSUME IInv, NEW e \in Sent, NEW t \in Nat, users' = Upserted(e, t)
      PROVE  Abstract!Advance(e) \/ Known' = Known
  <2>1. /\ users \in [DOMAIN users -> Row]
        /\ \A u \in DOMAIN users : users[u].lastEventAt \in Nat
        /\ e.at \in Nat
    BY <1>2, SentFacts DEF IInv, TypeOK, Row
  <2>2. CASE e.user \notin DOMAIN users
    <3>1. users' = [v \in DOMAIN users \cup {e.user} |->
                      IF v = e.user THEN NewUser(e, t) ELSE users[v]]
      BY <1>2, <2>2 DEF Upserted, Put
    <3>2. Known' = [v \in DOMAIN Known \cup {e.user} |->
                      IF v = e.user THEN [status |-> StatusOf(e), at |-> e.at] ELSE Known[v]]
      BY <2>2, <3>1 DEF Known, NewUser
    <3> QED BY <2>2, <3>2 DEF Abstract!Advance, Known, StatusOf, Abstract!StatusOf
  <2>3. CASE e.user \in DOMAIN users /\ users[e.user].lastEventAt > e.at
    BY <1>2, <2>1, <2>3 DEF Upserted, Allows, Known
  <2>4. CASE e.user \in DOMAIN users /\ users[e.user].lastEventAt <= e.at
    <3>1. users' = [users EXCEPT ![e.user] = Overwritten(users[e.user], e, t)]
      BY <1>2, <2>4 DEF Upserted, Allows
    <3>2. DOMAIN users \cup {e.user} = DOMAIN users /\ DOMAIN users' = DOMAIN users
      BY <2>1, <2>4, <3>1
    <3>3. /\ users'[e.user].status = StatusOf(e)
          /\ users'[e.user].lastEventAt = e.at
          /\ \A u \in DOMAIN users : u # e.user => users'[u] = users[u]
      BY <2>1, <2>4, <3>1 DEF Overwritten, Row
    <3>4. CASE users[e.user].lastEventAt = e.at
      <4>1. PICK f \in Sent : /\ f.user = e.user
                             /\ f.at = users[e.user].lastEventAt
                             /\ StatusOf(f) = users[e.user].status
        BY <1>2, <2>4 DEF IInv, RowsComeFromEvents
      <4>2. users[e.user].status = StatusOf(e)
        BY <3>4, <4>1 DEF DistinctTimes, StatusOf
      <4>3. \A u \in DOMAIN users : /\ users'[u].status = users[u].status
                                    /\ users'[u].lastEventAt = users[u].lastEventAt
        BY <3>3, <3>4, <4>2
      <4> QED BY <3>2, <4>3 DEF Known
    <3>5. CASE users[e.user].lastEventAt < e.at
      <4>1. Known' = [v \in DOMAIN Known \cup {e.user} |->
                      IF v = e.user THEN [status |-> StatusOf(e), at |-> e.at] ELSE Known[v]]
        BY <3>2, <3>3 DEF Known
      <4> QED BY <2>4, <3>5, <4>1 DEF Abstract!Advance, Known, StatusOf, Abstract!StatusOf
    <3> QED BY <2>1, <2>4, <3>4, <3>5
  <2> QED BY <2>1, <2>2, <2>3, <2>4
<1>3. IInv /\ [Next]_vars => [Abstract!Next]_Known
  <2> SUFFICES ASSUME IInv, [Next]_vars
               PROVE  Abstract!Next \/ Known' = Known
    OBVIOUS
  <2>1. CASE users' = users
    BY <2>1 DEF Known
  <2> QED BY <1>2, <2>1, TableStep DEF Abstract!Next
<1> QED BY <1>1, <1>3, Invariance, PTL DEF Spec, StatusSpec, Abstract!Spec
===============================================================================
