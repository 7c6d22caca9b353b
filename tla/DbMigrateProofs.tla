---------------------------- MODULE DbMigrateProofs ----------------------------
(***************************************************************************)
(* Proofs about DbMigrate, for any processes and bounds; but for the types *)
(* all of them suppose that unlock is only run while no command is         *)
(* running.  The lock row does not say whose it is; the inductive          *)
(* invariant says that it is nevertheless the row of the one process that  *)
(* is past its Lock (HoldsLock), which is why what that process has done   *)
(* to the tables stays done (Built), and why the plan it has made from the *)
(* records stays true to them (PlanFor) while it changes both.             *)
(***************************************************************************)
EXTENDS DbMigrate, FiniteSetTheorems, TLAPS

\* The least-number principle.
LEMMA LeastExists ==
    ASSUME NEW S \in SUBSET Nat, S # {}
    PROVE  \E x \in S : \A y \in S : x <= y
<1>1. PICK x \in S : \A y \in S : ~(<<y, x>> \in OpToRel(<, Nat))
  BY NatLessThanWellFounded, WFMin
<1>2. \A y \in S : ~(y < x)
  BY <1>1, Zenon DEF OpToRel
<1> QED BY <1>2

\* The minimum of a set of numbers is one of them and below all of them.
LEMMA MinLemma ==
    ASSUME NEW S \in SUBSET Nat, S # {}
    PROVE  Min(S) \in S /\ \A y \in S : Min(S) <= y
  BY LeastExists DEF Min

\* So is the maximum of a bounded set, from above.
LEMMA MaxLemma ==
    ASSUME NEW S \in SUBSET Nat, S # {}, NEW b \in Nat, \A x \in S : x <= b
    PROVE  Max(S) \in S /\ \A y \in S : y <= Max(S)
<1> DEFINE T == {b - x : x \in S}
<1>1. T \in SUBSET Nat /\ T # {}
  <2>1. \A x \in S : x \in Nat /\ b - x \in Nat
    OBVIOUS
  <2> QED BY <2>1
<1>2. PICK t \in T : \A u \in T : t <= u
  BY <1>1, LeastExists
<1>3. PICK x \in S : t = b - x
  OBVIOUS
<1>4. \A y \in S : y <= x
  BY <1>2, <1>3
<1> HIDE DEF T
<1>5. \E m \in S : \A y \in S : m >= y
  BY <1>4
<1> QED BY <1>5 DEF Max
-----------------------------------------------------------------------------
(* Types.                                                                  *)

\* Group numbers are bounded: there is a last group.
Bounded == \E b \in Nat : \A r \in records : r.group <= b

\* The last group is a number, and none is above it.
LEMMA LastGroupLemma ==
    ASSUME records \subseteq Record, Bounded
    PROVE  LastGroup \in Nat /\ \A r \in records : r.group <= LastGroup
<1> DEFINE G == {r.group : r \in records} \cup {0}
<1>1. G \in SUBSET Nat /\ G # {}
  BY DEF Record
<1>2. PICK b \in Nat : \A x \in G : x <= b
  BY DEF Bounded, Record
<1>3. Max(G) \in G /\ \A x \in G : x <= Max(G)
  <2> HIDE DEF G
  <2> QED BY <1>1, <1>2, MaxLemma
<1> QED BY <1>1, <1>3 DEF LastGroup

\* The current migration is the first one a Migrate has to do, the last one a
\* Rollback has.
LEMMA CurrentLemma ==
    ASSUME TypeOK, NEW p \in Procs, todo[p] # {}
    PROVE  /\ Current(p) \in todo[p]
           /\ Current(p) \in Migrations
           /\ cmd[p] = "migrate" => \A m \in todo[p] : Current(p) <= m
           /\ cmd[p] # "migrate" => \A m \in todo[p] : m <= Current(p)
<1>1. todo[p] \in SUBSET Migrations /\ todo[p] \in SUBSET Nat /\ MaxFiles \in Nat
      /\ \A m \in todo[p] : m <= MaxFiles
  BY BoundsAssumption DEF TypeOK, Migrations
<1>2. Min(todo[p]) \in todo[p] /\ \A m \in todo[p] : Min(todo[p]) <= m
  BY <1>1, MinLemma
<1>3. Max(todo[p]) \in todo[p] /\ \A m \in todo[p] : m <= Max(todo[p])
  BY <1>1, MaxLemma
<1> QED BY <1>1, <1>2, <1>3 DEF Current

AtWork(p) == pc[p] \in {"up", "mark", "down", "unmark"}

\* No statement leaves a value in the database that does not belong there.
LEMMA EffectTypeLemma ==
    ASSUME TypeOK, Bounded, NEW p \in Procs, Effect(p)
    PROVE  /\ inited' \in BOOLEAN
           /\ schema' \subseteq Migrations
           /\ records' \subseteq Record
           /\ lock' \in Procs \cup {Free}
           /\ Bounded'
<1>0. pc[p] \in {"up", "mark", "down", "unmark"} => Current(p) \in Migrations
  BY CurrentLemma DEF TypeOK
<1>1. CASE pc[p] = "lock" /\ InsertLock(p)
  BY <1>1 DEF InsertLock, TypeOK, Bounded
<1>2. CASE pc[p] = "up" /\ CreateTables(Current(p))
  BY <1>0, <1>2 DEF CreateTables, TypeOK, Bounded
<1>3. CASE pc[p] = "mark" /\ MarkApplied(Current(p), group[p])
  <2> DEFINE r == [name |-> Current(p), group |-> group[p]]
  <2>1. r \in Record /\ r.group = group[p] /\ group[p] \in Nat
    BY <1>0, <1>3 DEF Record, TypeOK
  <2>2. records' = records \cup {r} /\ UNCHANGED <<inited, schema, lock>>
    BY <1>3 DEF MarkApplied
  <2> HIDE DEF r
  <2>3. PICK b \in Nat : \A s \in records : s.group <= b
    BY DEF Bounded
  <2>4. \A s \in records' : s.group \in Nat /\ s.group <= b + group[p]
    BY <2>1, <2>2, <2>3 DEF TypeOK, Record
  <2>5. Bounded'
    BY <2>1, <2>4 DEF Bounded
  <2> QED BY <2>1, <2>2, <2>5 DEF TypeOK
<1>4. CASE pc[p] = "down" /\ DropTables(Current(p))
  BY <1>4 DEF DropTables, TypeOK, Bounded
<1>5. CASE pc[p] = "unmark" /\ MarkUnapplied(Current(p), group[p])
  BY <1>5 DEF MarkUnapplied, TypeOK, Bounded
<1>6. CASE pc[p] = "unlock" /\ DeleteLock
  BY <1>6 DEF DeleteLock, TypeOK, Bounded
<1> QED BY <1>1, <1>2, <1>3, <1>4, <1>5, <1>6 DEF Effect

\* What a process knows of itself.
ProcessTypes ==
    /\ pc \in [Procs -> Critical \cup {"idle", "lock"}]
    /\ cmd \in [Procs -> {"none", "migrate", "rollback"}]
    /\ todo \in [Procs -> SUBSET Migrations]
    /\ group \in [Procs -> Nat]
    /\ cancelled \in [Procs -> BOOLEAN]
    /\ code \in [Procs -> {0, 1, 137}]
    /\ \A p \in Procs : AtWork(p) => todo[p] # {}

\* A command that ends, is decided or fails leaves its variables in their types.
LEMMA ControlLemma ==
    ASSUME TypeOK, NEW p \in Procs, NEW c \in {0, 1, 137},
           Exit(p, c) \/ Return(p, c) \/ Exit(p, code[p]) \/ Fail(p)
    PROVE  ProcessTypes'
<1>0. TypeOK /\ code[p] \in {0, 1, 137}
  BY DEF TypeOK
<1>1. ASSUME NEW d \in {0, 1, 137}, Exit(p, d) PROVE ProcessTypes'
  BY <1>0, <1>1 DEF TypeOK, ProcessTypes, AtWork, Exit, Critical
<1>2. ASSUME NEW d \in {0, 1, 137}, Return(p, d) PROVE ProcessTypes'
  BY <1>0, <1>2 DEF TypeOK, ProcessTypes, AtWork, Return, Critical
<1> QED BY <1>0, <1>1, <1>2 DEF Fail

\* Every step keeps the types.
LEMMA TypeLemma == TypeOK /\ Bounded /\ [Next]_vars => TypeOK' /\ Bounded'
<1> SUFFICES ASSUME TypeOK, Bounded, [Next]_vars PROVE TypeOK' /\ Bounded'
  OBVIOUS
<1>0. /\ files \in 0..MaxFiles /\ inited \in BOOLEAN /\ schema \subseteq Migrations
      /\ records \subseteq Record /\ lock \in Procs \cup {Free}
      /\ failures \in Nat /\ signals \in Nat /\ MaxFiles \in Nat
      /\ ProcessTypes
  BY BoundsAssumption DEF TypeOK, ProcessTypes, AtWork
<1>1. ASSUME /\ files' \in 0..MaxFiles /\ inited' \in BOOLEAN /\ schema' \subseteq Migrations
             /\ records' \subseteq Record /\ lock' \in Procs \cup {Free}
             /\ failures' \in Nat /\ signals' \in Nat
             /\ ProcessTypes' /\ Bounded'
      PROVE  TypeOK' /\ Bounded'
  BY <1>1 DEF TypeOK, ProcessTypes, AtWork
<1>2. UNCHANGED records => Bounded'
  BY DEF Bounded
<1>3. CASE RunInit \/ RunCreateSQL \/ RunUnlock \/ UNCHANGED vars
  <2>1. /\ files' \in 0..MaxFiles /\ inited' \in BOOLEAN /\ lock' \in Procs \cup {Free}
        /\ UNCHANGED <<schema, records, pc, cmd, todo, group, cancelled, code, bounds>>
    <3>1. CASE RunInit
      BY <1>0, <3>1 DEF RunInit
    <3>2. CASE RunCreateSQL
      BY <1>0, <3>2 DEF RunCreateSQL, database
    <3>3. CASE RunUnlock
      BY <1>0, <3>3 DEF RunUnlock, DeleteLock
    <3>4. CASE UNCHANGED vars
      BY <1>0, <3>4 DEF vars, database
    <3> QED BY <1>3, <3>1, <3>2, <3>3, <3>4
  <2>2. ProcessTypes'
    BY <1>0, <2>1 DEF ProcessTypes, AtWork
  <2> QED BY <1>0, <1>1, <1>2, <2>1, <2>2 DEF bounds
<1>4. ASSUME NEW p \in Procs, NEW c \in {"migrate", "rollback"}, Start(p, c)
      PROVE  TypeOK' /\ Bounded'
  <2>1. ProcessTypes'
    BY <1>0, <1>4 DEF Start, ProcessTypes, AtWork
  <2> QED BY <1>0, <1>1, <1>2, <1>4, <2>1 DEF Start, database, bounds
<1>5. ASSUME NEW p \in Procs, NEW stored \in BOOLEAN, StatementFails(p, stored)
      PROVE  TypeOK' /\ Bounded'
  <2>1. ProcessTypes'
    BY <1>5, ControlLemma DEF StatementFails
  <2>2. Effect(p) \/ UNCHANGED database
    BY <1>5 DEF StatementFails
  <2>3. UNCHANGED <<files, signals>> /\ failures' \in Nat
    BY <1>0, <1>5 DEF StatementFails
  <2>4. CASE Effect(p)
    BY <1>0, <1>1, <2>1, <2>3, <2>4, EffectTypeLemma
  <2>5. CASE UNCHANGED database
    BY <1>0, <1>1, <1>2, <2>1, <2>3, <2>5 DEF database
  <2> QED BY <2>2, <2>4, <2>5
<1>6. ASSUME NEW p \in Procs, Signal(p) \/ Kill(p)
      PROVE  TypeOK' /\ Bounded'
  <2>1. CASE Signal(p)
    <3>1. ProcessTypes'
      BY <1>0, <2>1 DEF Signal, ProcessTypes, AtWork
    <3> QED BY <1>0, <1>1, <1>2, <2>1, <3>1 DEF Signal, database
  <2>2. CASE Kill(p)
    <3>1. ProcessTypes'
      BY <2>2, ControlLemma DEF Kill
    <3> QED BY <1>0, <1>1, <1>2, <2>2, <3>1 DEF Kill, database
  <2> QED BY <1>6, <2>1, <2>2
<1>7. ASSUME NEW p \in Procs, Proceed(p)
      PROVE  TypeOK' /\ Bounded'
  <2>1. CASE LockRefused(p) \/ ReadNothingToDo(p) \/ UpRefused(p) \/ ContextDone(p)
    <3>1. ProcessTypes'
      BY <2>1, ControlLemma DEF LockRefused, ReadNothingToDo, UpRefused, ContextDone
    <3>2. UNCHANGED <<files, database, bounds>>
      BY <2>1 DEF LockRefused, ReadNothingToDo, UpRefused, ContextDone
    <3> QED BY <1>0, <1>1, <1>2, <3>1, <3>2 DEF database, bounds
  <2>2. CASE ReadMigrations(p)
    <3>1. /\ Unapplied \subseteq Migrations /\ LastApplied \subseteq Migrations
          /\ LastGroup \in Nat /\ LastGroup + 1 \in Nat
      BY <1>0, LastGroupLemma DEF Unapplied, LastApplied, Migrations
    <3>2. ProcessTypes'
      BY <1>0, <2>2, <3>1 DEF ReadMigrations, ProcessTypes, AtWork, Critical
    <3> QED BY <1>0, <1>1, <1>2, <2>2, <3>2 DEF ReadMigrations, database, bounds
  <2>3. CASE Lock(p) \/ Up(p) \/ Mark(p) \/ Down(p) \/ Unmark(p) \/ Unlock(p)
    <3>1. Effect(p) /\ UNCHANGED <<files, bounds>>
      BY <2>3 DEF Lock, Up, Mark, Down, Unmark, Unlock, Advance, At, Effect
    <3>2. ASSUME Lock(p) \/ Up(p) \/ Down(p) PROVE ProcessTypes'
      BY <1>0, <3>2 DEF Lock, Up, Down, At, ProcessTypes, AtWork, Critical
    <3>3. ASSUME Mark(p) \/ Unmark(p) PROVE ProcessTypes'
      BY <1>0, <3>3 DEF Mark, Unmark, Advance, ProcessTypes, AtWork, Critical
    <3>4. ASSUME Unlock(p) PROVE ProcessTypes'
      BY <3>4, ControlLemma DEF Unlock
    <3>5. ProcessTypes'
      BY <2>3, <3>2, <3>3, <3>4
    <3> QED BY <1>0, <1>1, <3>1, <3>5, EffectTypeLemma DEF bounds
  <2> QED BY <1>7, <2>1, <2>2, <2>3 DEF Proceed
<1> QED BY <1>3, <1>4, <1>5, <1>6, <1>7 DEF Next

\* Every variable has its type, and a process at work has a migration to work
\* on, whatever the operator does.
THEOREM Typing == Spec => []TypeOK
<1>1. Init => TypeOK
  <2> SUFFICES ASSUME Init PROVE TypeOK
    OBVIOUS
  <2>1. files \in 0..MaxFiles /\ failures \in Nat /\ signals \in Nat
    BY BoundsAssumption DEF Init
  <2>2. group \in [Procs -> Nat] /\ code \in [Procs -> {0, 1, 137}]
    BY DEF Init
  <2> QED BY <2>1, <2>2 DEF Init, TypeOK, Critical
<1>2. Init => Bounded
  BY DEF Init, Bounded
<1> QED BY <1>1, <1>2, TypeLemma, PTL DEF Spec

-----------------------------------------------------------------------------
(* The lock.                                                               *)

ControlOK ==
    /\ lock \in Procs \cup {Free}
    /\ pc \in [Procs -> Critical \cup {"idle", "lock"}]
    /\ cmd \in [Procs -> {"none", "migrate", "rollback"}]
    /\ todo \in [Procs -> SUBSET Int]

HoldsLock == \A p \in Procs : pc[p] \in Critical => lock = p

\* What a process is about to record is there.
Built == \A p \in Procs : pc[p] = "mark" => Current(p) \in schema

IInv == ControlOK /\ HoldsLock /\ Built

-----------------------------------------------------------------------------
\* A step of p disturbs nobody else.
Alone(p) ==
    \A q \in Procs \ {p} : pc'[q] = pc[q] /\ cmd'[q] = cmd[q] /\ todo'[q] = todo[q]

\* Nobody is between Lock and Unlock at first.
LEMMA InitLemma == Init => IInv
  BY DEF Init, IInv, ControlOK, HoldsLock, Built, Critical

\* A step of p keeps the invariant if it keeps p's part of it, takes the lock
\* from nobody else and drops nobody else's tables.
LEMMA StepLemma ==
    ASSUME IInv, NEW p \in Procs, ControlOK', Alone(p),
           lock' = lock \/ lock = Free \/ lock = p,
           schema \subseteq schema' \/ pc[p] \in Critical,
           pc'[p] \in Critical => lock' = p,
           pc'[p] = "mark" => Current(p)' \in schema'
    PROVE  IInv'
<1>1. HoldsLock'
  <2> SUFFICES ASSUME NEW q \in Procs, pc'[q] \in Critical
               PROVE  lock' = q
    BY DEF HoldsLock
  <2>1. CASE q = p
    BY <2>1
  <2>2. CASE q # p
    <3>1. pc[q] \in Critical
      BY <2>2 DEF Alone
    <3>2. lock = q
      BY <3>1 DEF IInv, HoldsLock
    <3> QED BY <2>2, <3>2, FreeAssumption
  <2> QED BY <2>1, <2>2
<1>2. Built'
  <2> SUFFICES ASSUME NEW q \in Procs, pc'[q] = "mark"
               PROVE  Current(q)' \in schema'
    BY DEF Built
  <2>1. CASE q = p
    BY <2>1
  <2>2. CASE q # p
    <3>1. pc[q] = "mark" /\ cmd'[q] = cmd[q] /\ todo'[q] = todo[q]
      BY <2>2 DEF Alone
    <3>2. Current(q)' = Current(q) /\ Current(q) \in schema
      BY <3>1 DEF Current, IInv, Built
    <3>3. pc[p] \notin Critical
      BY <2>2, <3>1 DEF IInv, HoldsLock, Critical
    <3> QED BY <3>2, <3>3
  <2> QED BY <2>1, <2>2
<1> QED BY <1>1, <1>2 DEF IInv

\* What ends a command or decides it.
LEMMA FailLemma ==
    ASSUME IInv, NEW p \in Procs, pc[p] # "idle", Fail(p)
    PROVE  /\ pc' \in [Procs -> Critical \cup {"idle", "lock"}]
           /\ cmd' \in [Procs -> {"none", "migrate", "rollback"}]
           /\ todo' \in [Procs -> SUBSET Int]
           /\ Alone(p)
           /\ pc'[p] # "mark"
           /\ pc'[p] \in Critical => pc[p] \in Critical
<1> USE DEF IInv, ControlOK, Alone, Critical
<1>1. CASE pc[p] = "lock"
  BY <1>1 DEF Fail, Exit
<1>2. CASE pc[p] = "unlock"
  BY <1>2 DEF Fail, Exit
<1>3. CASE pc[p] \notin {"lock", "unlock"}
  BY <1>3 DEF Fail, Return
<1> QED BY <1>1, <1>2, <1>3

\* A statement takes the lock only when it is free or its own, and drops tables
\* only with the lock.
LEMMA EffectLemma ==
    ASSUME IInv, NEW p \in Procs, Effect(p)
    PROVE  /\ lock' \in Procs \cup {Free}
           /\ lock' = lock \/ lock = Free \/ lock = p
           /\ schema \subseteq schema' \/ pc[p] \in Critical
           /\ pc[p] \in Critical \ {"unlock"} => lock' = lock
           /\ pc[p] = "lock" => lock' = p
<1> USE DEF IInv, ControlOK, HoldsLock, Critical
<1>1. CASE pc[p] = "lock" /\ InsertLock(p)
  BY <1>1 DEF InsertLock
<1>2. CASE pc[p] = "up" /\ CreateTables(Current(p))
  BY <1>2 DEF CreateTables
<1>3. CASE pc[p] = "mark" /\ MarkApplied(Current(p), group[p])
  BY <1>3 DEF MarkApplied
<1>4. CASE pc[p] = "down" /\ DropTables(Current(p))
  BY <1>4 DEF DropTables
<1>5. CASE pc[p] = "unmark" /\ MarkUnapplied(Current(p), group[p])
  BY <1>5 DEF MarkUnapplied
<1>6. CASE pc[p] = "unlock" /\ DeleteLock
  BY <1>6 DEF DeleteLock
<1> QED BY <1>1, <1>2, <1>3, <1>4, <1>5, <1>6 DEF Effect

\* What a process does on its own keeps the invariant.
LEMMA ProceedLemma ==
    ASSUME IInv, NEW p \in Procs, Proceed(p)
    PROVE  IInv'
<1> USE DEF At
<1>0. /\ ControlOK
      /\ pc[p] \in Critical => lock = p
  BY DEF IInv, HoldsLock
<1>1. CASE Lock(p)
  <2>1. Effect(p)
    BY <1>1 DEF Lock, Effect
  <2>2. ControlOK' /\ Alone(p) /\ pc'[p] = "read" /\ lock' = p
    BY <1>0, <1>1, <2>1, EffectLemma DEF Lock, ControlOK, Alone, Critical
  <2> QED BY <1>1, <2>1, <2>2, EffectLemma, StepLemma DEF Lock, InsertLock
<1>2. CASE LockRefused(p)
  <2>1. /\ ControlOK' /\ Alone(p) /\ pc'[p] = "idle"
        /\ lock' = lock /\ schema' = schema
    BY <1>0, <1>2 DEF LockRefused, Exit, database, ControlOK, Alone, Critical
  <2> QED BY <2>1, StepLemma DEF Critical
<1>3. CASE ReadNothingToDo(p)
  <2>1. /\ ControlOK' /\ Alone(p) /\ pc'[p] = "unlock"
        /\ lock' = lock /\ schema' = schema /\ lock = p
    BY <1>0, <1>3 DEF ReadNothingToDo, Return, database, ControlOK, Alone, Critical
  <2> QED BY <2>1, StepLemma DEF Critical
<1>4. CASE ReadMigrations(p)
  <2>1. Unapplied \subseteq Int /\ LastApplied \subseteq Int
    BY DEF Unapplied, LastApplied
  <2>2. /\ ControlOK' /\ Alone(p) /\ pc'[p] \in {"up", "down"}
        /\ lock' = lock /\ schema' = schema /\ lock = p
    BY <1>0, <1>4, <2>1 DEF ReadMigrations, database, ControlOK, Alone, Critical
  <2> QED BY <2>2, StepLemma DEF Critical
<1>5. CASE Up(p)
  <2>1. /\ ControlOK' /\ Alone(p) /\ pc'[p] = "mark"
        /\ lock' = lock /\ lock = p
        /\ schema' = schema \cup {Current(p)}
    BY <1>0, <1>5 DEF Up, CreateTables, ControlOK, Alone, Critical
  <2>2. Current(p)' = Current(p)
    BY <1>5 DEF Up, Current
  <2> QED BY <2>1, <2>2, StepLemma DEF Critical
<1>6. CASE UpRefused(p)
  <2>1. /\ ControlOK' /\ Alone(p) /\ pc'[p] = "unlock"
        /\ lock' = lock /\ schema' = schema /\ lock = p
    BY <1>0, <1>6 DEF UpRefused, Return, database, ControlOK, Alone, Critical
  <2> QED BY <2>1, StepLemma DEF Critical
<1>7. CASE Mark(p) \/ Unmark(p)
  <2>1. todo[p] \ {Current(p)} \subseteq Int
    BY <1>0 DEF ControlOK
  <2>2. /\ ControlOK' /\ Alone(p) /\ pc'[p] \in {"up", "down", "unlock"}
        /\ lock' = lock /\ schema' = schema /\ lock = p
    BY <1>0, <1>7, <2>1 DEF Mark, Unmark, MarkApplied, MarkUnapplied, Advance, ControlOK,
                            Alone, Critical
  <2> QED BY <2>2, StepLemma DEF Critical
<1>8. CASE Down(p)
  <2>1. /\ ControlOK' /\ Alone(p) /\ pc'[p] = "unmark"
        /\ lock' = lock /\ lock = p /\ pc[p] \in Critical
    BY <1>0, <1>8 DEF Down, DropTables, ControlOK, Alone, Critical
  <2> QED BY <2>1, StepLemma
<1>9. CASE Unlock(p)
  <2>1. /\ ControlOK' /\ Alone(p) /\ pc'[p] = "idle"
        /\ lock = p /\ schema' = schema
    BY <1>0, <1>9 DEF Unlock, DeleteLock, Exit, ControlOK, Alone, Critical
  <2> QED BY <2>1, StepLemma DEF Critical
<1>10. CASE ContextDone(p)
  <2>1. lock' = lock /\ schema' = schema /\ pc[p] # "idle" /\ Fail(p)
    BY <1>10 DEF ContextDone, database
  <2> QED BY <1>0, <2>1, FailLemma, StepLemma DEF ControlOK
<1> QED BY <1>1, <1>2, <1>3, <1>4, <1>5, <1>6, <1>7, <1>8, <1>9, <1>10 DEF Proceed

\* Failures, signals and kills keep it too.
LEMMA DisturbanceLemma ==
    ASSUME IInv, NEW p \in Procs,
           \/ \E c \in {"migrate", "rollback"} : Start(p, c)
           \/ \E stored \in BOOLEAN : StatementFails(p, stored)
           \/ Signal(p)
           \/ Kill(p)
    PROVE  IInv'
<1>0. /\ ControlOK
      /\ pc[p] \in Critical => lock = p
  BY DEF IInv, HoldsLock
<1>1. ASSUME NEW c \in {"migrate", "rollback"}, Start(p, c)
      PROVE  IInv'
  <2>1. /\ ControlOK' /\ Alone(p) /\ pc'[p] = "lock"
        /\ lock' = lock /\ schema' = schema
    BY <1>0, <1>1 DEF Start, database, ControlOK, Alone
  <2> QED BY <2>1, StepLemma DEF Critical
<1>2. ASSUME NEW stored \in BOOLEAN, StatementFails(p, stored)
      PROVE  IInv'
  <2>1. pc[p] # "idle" /\ Fail(p)
    BY <1>2 DEF StatementFails
  <2>2. CASE stored
    <3>1. Effect(p)
      BY <1>2, <2>2 DEF StatementFails
    <3>2. pc'[p] \in Critical => pc[p] \in Critical \ {"unlock"}
      BY <1>0, <2>1 DEF Fail, Exit, Return, ControlOK, Critical
    <3>3. pc'[p] \in Critical => lock' = p
      BY <1>0, <3>1, <3>2, EffectLemma
    <3>4. ControlOK'
      BY <2>1, <3>1, EffectLemma, FailLemma DEF ControlOK
    <3> QED BY <2>1, <3>1, <3>3, <3>4, EffectLemma, FailLemma, StepLemma
  <2>3. CASE ~stored
    <3>1. lock' = lock /\ schema' = schema
      BY <1>2, <2>3 DEF StatementFails, database
    <3> QED BY <1>0, <2>1, <3>1, FailLemma, StepLemma DEF ControlOK
  <2> QED BY <2>2, <2>3
<1>3. CASE Signal(p)
  BY <1>3 DEF Signal, database, IInv, ControlOK, HoldsLock, Built, Current
<1>4. CASE Kill(p)
  <2>1. /\ ControlOK' /\ Alone(p) /\ pc'[p] = "idle"
        /\ lock' = lock /\ schema' = schema
    BY <1>0, <1>4 DEF Kill, Exit, database, ControlOK, Alone
  <2> QED BY <2>1, StepLemma DEF Critical
<1> QED BY <1>1, <1>2, <1>3, <1>4

\* Every step keeps the invariant, when unlock is only run between commands.
LEMMA NextLemma ==
    ASSUME CarefulOperator, IInv, [Next]_vars
    PROVE  IInv'
<1>1. CASE RunInit \/ RunCreateSQL \/ UNCHANGED vars
  BY <1>1 DEF RunInit, RunCreateSQL, vars, database, IInv, ControlOK, HoldsLock, Built, Current
<1>2. CASE RunUnlock
  <2>1. /\ \A p \in Procs : pc[p] = "idle"
        /\ lock' = Free
        /\ UNCHANGED <<schema, pc, cmd, todo>>
    BY <1>2 DEF RunUnlock, DeleteLock, Idle
  <2> QED BY <2>1 DEF IInv, ControlOK, HoldsLock, Built, Critical
<1>3. ASSUME NEW p \in Procs,
             \/ \E c \in {"migrate", "rollback"} : Start(p, c)
             \/ \E stored \in BOOLEAN : StatementFails(p, stored)
             \/ Signal(p)
             \/ Kill(p)
      PROVE  IInv'
  BY <1>3, DisturbanceLemma
<1>4. ASSUME NEW p \in Procs, Proceed(p)
      PROVE  IInv'
  BY <1>4, ProceedLemma
<1> QED BY <1>1, <1>2, <1>3, <1>4 DEF Next

\* So it holds in every reachable state.
LEMMA Invariance == CarefulOperator => (Spec => []IInv)
<1> SUFFICES ASSUME CarefulOperator
             PROVE  Spec => []IInv
  OBVIOUS
<1>1. IInv /\ [Next]_vars => IInv'
  BY NextLemma
<1> QED BY <1>1, InitLemma, PTL DEF Spec

-----------------------------------------------------------------------------
(* The theorems.                                                           *)

\* With a careful operator, no two commands are ever between Lock and Unlock,
\* whatever fails, is signalled or is killed.
THEOREM Exclusion == CarefulOperator => (Spec => []MutualExclusion)
<1> SUFFICES ASSUME CarefulOperator
             PROVE  Spec => []MutualExclusion
  OBVIOUS
<1>1. IInv => MutualExclusion
  BY DEF IInv, HoldsLock, MutualExclusion
<1> QED BY <1>1, Invariance, PTL

\* With a careful operator, the deferred Unlock never deletes another command's
\* lock.
THEOREM UnlocksOwn == CarefulOperator => (Spec => ReleasesOwnLock)
<1> SUFFICES ASSUME CarefulOperator
             PROVE  Spec => ReleasesOwnLock
  OBVIOUS
<1>1. ASSUME IInv, NEW p \in Procs, pc[p] = "unlock"
      PROVE  lock = p
  BY <1>1 DEF IInv, HoldsLock, Critical
<1>2. IInv /\ [Next]_vars =>
        [\A p \in Procs :
            pc[p] = "unlock" /\ pc'[p] = "idle" /\ lock' # lock => lock = p]_vars
  BY <1>1
<1> QED BY <1>2, Invariance, PTL DEF Spec, ReleasesOwnLock

\* With a careful operator, no migration is recorded before its tables exist.
THEOREM NoFalseRecord == CarefulOperator => (Spec => RecordedOnlyWhenBuilt)
<1> SUFFICES ASSUME CarefulOperator
             PROVE  Spec => RecordedOnlyWhenBuilt
  OBVIOUS
<1> DEFINE P == \A r \in records' \ records : r.name \in schema'
<1>1. ASSUME IInv, NEW p \in Procs, Effect(p)
      PROVE  P
  <2>1. CASE pc[p] = "mark" /\ MarkApplied(Current(p), group[p])
    <3>1. Current(p) \in schema'
      BY <1>1, <2>1 DEF IInv, Built, MarkApplied
    <3> QED BY <2>1, <3>1 DEF MarkApplied
  <2>2. CASE pc[p] # "mark"
    BY <1>1, <2>2 DEF Effect, InsertLock, CreateTables, DropTables, MarkUnapplied, DeleteLock
  <2> QED BY <1>1, <2>1, <2>2 DEF Effect
<1>2. ASSUME IInv, NEW p \in Procs, Proceed(p)
      PROVE  P
  <2>1. CASE Lock(p) \/ Up(p) \/ Mark(p) \/ Down(p) \/ Unmark(p) \/ Unlock(p)
    BY <1>1, <1>2, <2>1 DEF Lock, Up, Mark, Down, Unmark, Unlock, Effect, At
  <2>2. CASE \/ LockRefused(p) \/ ReadNothingToDo(p) \/ ReadMigrations(p) \/ UpRefused(p)
             \/ ContextDone(p)
    BY <2>2 DEF LockRefused, ReadNothingToDo, ReadMigrations, UpRefused, ContextDone, database
  <2> QED BY <1>2, <2>1, <2>2 DEF Proceed
<1>3. ASSUME IInv, NEW p \in Procs, NEW stored \in BOOLEAN, StatementFails(p, stored)
      PROVE  P
  BY <1>1, <1>3 DEF StatementFails, database
<1>4. ASSUME NEW p \in Procs,
             (\E c \in {"migrate", "rollback"} : Start(p, c)) \/ Signal(p) \/ Kill(p)
      PROVE  P
  BY <1>4 DEF Start, Signal, Kill, database
<1>5. ASSUME RunInit \/ RunCreateSQL \/ RunUnlock
      PROVE  P
  BY <1>5 DEF RunInit, RunCreateSQL, RunUnlock, DeleteLock, database
<1>6. IInv /\ [Next]_vars => [P]_vars
  BY <1>2, <1>3, <1>4, <1>5 DEF Next
<1> QED BY <1>6, Invariance, PTL DEF Spec, RecordedOnlyWhenBuilt
-----------------------------------------------------------------------------
(* What is recorded.  The invariant relates the plan of the one process    *)
(* that has the lock to the records it read it from.                       *)

\* No more than what is in db/ is built or recorded.
FilesOK ==
    /\ schema \subseteq 1..files
    /\ \A r \in records : r.name \in 1..files

\* What a Migrate has to do is what is not recorded, in a group that is the last.
MigratesOn(p) ==
    /\ cmd[p] = "migrate"
    /\ todo[p] = Unapplied
    /\ \A r \in records : r.group <= group[p]

\* What a Rollback has to do is the rest of its group, and that is the last.
RollsBackOn(p) ==
    /\ cmd[p] = "rollback"
    /\ todo[p] = {m \in 1..files : [name |-> m, group |-> group[p]] \in records}
    /\ \A r \in records : r.group <= group[p]

PlanFor(p) ==
    /\ todo[p] \subseteq 1..files
    /\ pc[p] # "idle" => cmd[p] # "none"
    /\ pc[p] \in {"up", "mark"} => MigratesOn(p)
    /\ pc[p] \in {"down", "unmark"} => RollsBackOn(p)
    /\ pc[p] = "unmark" => Current(p) \notin schema
    /\ pc[p] = "unlock" /\ cmd[p] = "migrate" /\ code[p] = 0 => Unapplied = {}

\* The processes whose next statement makes up for a drift.
Exposed == {p \in Procs : pc[p] \in {"mark", "unmark"} /\ ~cancelled[p]}

Interruptions == failures + signals

\* Only an interruption leaves a drift behind; for a process that a signal has
\* cancelled the signal itself is counted.
DriftOK == Cardinality(Drift) <= Interruptions + Cardinality(Exposed)

RInv ==
    /\ FilesOK
    /\ RecordsInOrder
    /\ \A p \in Procs : PlanFor(p)
    /\ DriftOK

\* What is known of every state already.
Known == TypeOK /\ Bounded /\ IInv

-----------------------------------------------------------------------------
\* Nothing of another process is touched.
Others(p) ==
    /\ Alone(p)
    /\ \A q \in Procs \ {p} :
          group'[q] = group[q] /\ code'[q] = code[q] /\ cancelled'[q] = cancelled[q]

\* Who has the lock is the only one to change tables and records, so the plans
\* of all others stay as they are.
LEMMA FrameLemma ==
    ASSUME Known, RInv, NEW p \in Procs, Others(p), files' = files,
           pc[p] \in Critical \/ UNCHANGED <<schema, records>>,
           FilesOK', RecordsInOrder', PlanFor(p)', DriftOK'
    PROVE  RInv'
<1> SUFFICES ASSUME NEW q \in Procs, q # p
             PROVE  PlanFor(q)'
  BY DEF RInv
<1>1. /\ pc'[q] = pc[q] /\ cmd'[q] = cmd[q] /\ todo'[q] = todo[q]
      /\ group'[q] = group[q] /\ code'[q] = code[q]
  BY DEF Others, Alone
<1>2. PlanFor(q)
  BY DEF RInv
<1>3. CASE pc[q] \in Critical
  <2>1. UNCHANGED <<schema, records>>
    BY <1>3 DEF Known, IInv, HoldsLock
  <2>2. Unapplied' = Unapplied /\ Current(q)' = Current(q)
    BY <1>1, <2>1 DEF Unapplied, Recorded, Current
  <2> QED BY <1>1, <1>2, <2>1, <2>2 DEF PlanFor, MigratesOn, RollsBackOn
<1>4. CASE pc[q] \notin Critical
  BY <1>1, <1>2, <1>4 DEF PlanFor, Critical
<1> QED BY <1>3, <1>4

\* Exposed changes by the process that steps.
LEMMA ExposedLemma ==
    ASSUME Known, NEW p \in Procs, Others(p)
    PROVE  /\ Cardinality(Exposed) \in Nat /\ Cardinality(Exposed') \in Nat
           /\ Cardinality(Exposed') + 1 >= Cardinality(Exposed)
           /\ p \notin Exposed \/ p \in Exposed' =>
                 Cardinality(Exposed') >= Cardinality(Exposed)
           /\ p \notin Exposed /\ p \in Exposed' =>
                 Cardinality(Exposed') = Cardinality(Exposed) + 1
<1> DEFINE S == Exposed \ {p}
<1>1. Exposed \subseteq {lock}
  BY DEF Exposed, Known, IInv, HoldsLock, Critical
<1>2. IsFiniteSet(S)
  BY <1>1, FS_Singleton, FS_Subset
<1>3. S = Exposed' \ {p}
  BY DEF Exposed, Others, Alone
<1>4. /\ Exposed = IF p \in Exposed THEN S \cup {p} ELSE S
      /\ Exposed' = IF p \in Exposed' THEN S \cup {p} ELSE S
      /\ p \notin S
  BY <1>3
<1>5. Cardinality(S) \in Nat /\ Cardinality(S \cup {p}) = Cardinality(S) + 1
  BY <1>2, <1>4, FS_CardinalityType, FS_AddElement
<1> HIDE DEF S
<1>6. /\ Cardinality(Exposed) = IF p \in Exposed THEN Cardinality(S) + 1 ELSE Cardinality(S)
      /\ Cardinality(Exposed') = IF p \in Exposed' THEN Cardinality(S) + 1 ELSE Cardinality(S)
  BY <1>4, <1>5
<1> QED BY <1>5, <1>6

\* Interruptions are counted.
LEMMA InterruptionsLemma ==
    ASSUME TypeOK
    PROVE  /\ UNCHANGED bounds => Interruptions' = Interruptions
           /\ failures' = failures + 1 /\ signals' = signals =>
                 Interruptions' = Interruptions + 1
           /\ failures' = failures /\ signals' = signals + 1 =>
                 Interruptions' = Interruptions + 1
  BY DEF TypeOK, Interruptions, bounds

Numbers == Interruptions \in Nat /\ IsFiniteSet(Drift) /\ Cardinality(Drift) \in Nat

\* Both are numbers: there is no more to drift than there are migrations.
LEMMA NumbersLemma == TypeOK => Numbers
<1> SUFFICES ASSUME TypeOK
             PROVE  Numbers
  OBVIOUS
<1>0. Interruptions \in Nat
  BY DEF TypeOK, Interruptions
<1>1. MaxFiles \in Nat /\ IsFiniteSet(1..MaxFiles)
  BY BoundsAssumption, FS_Interval
<1>2. schema \subseteq 1..MaxFiles /\ \A r \in records : r.name \in 1..MaxFiles
  BY DEF TypeOK, Record, Migrations
<1>3. Drift \subseteq 1..MaxFiles
  BY <1>2 DEF Drift, Recorded
<1>4. IsFiniteSet(Drift)
  BY <1>1, <1>3, FS_Subset
<1> QED BY <1>0, <1>4, FS_CardinalityType DEF Numbers

\* And so they are after a step.
LEMMA NumbersNextLemma == TypeOK' => Numbers'
  BY NumbersLemma, PTL

\* A statement adds a migration to the drift, takes one out or leaves it.
LEMMA DriftLemma ==
    ASSUME Known, TypeOK', RInv, NEW p \in Procs, Others(p),
           Interruptions' >= Interruptions,
           \/ /\ Drift' = Drift
              /\ \/ p \notin Exposed \/ p \in Exposed'
                 \/ Interruptions' = Interruptions + 1
           \/ /\ \E m \in Migrations : Drift' = Drift \cup {m}
              /\ p \notin Exposed
              /\ p \in Exposed' \/ Interruptions' = Interruptions + 1
           \/ \E m \in Drift : Drift' = Drift \ {m}
    PROVE  DriftOK'
<1>1. /\ Interruptions \in Nat /\ Interruptions' \in Nat
      /\ Cardinality(Exposed) \in Nat /\ Cardinality(Exposed') \in Nat
      /\ Cardinality(Drift) \in Nat /\ Cardinality(Drift') \in Nat
      /\ IsFiniteSet(Drift)
  BY NumbersLemma, NumbersNextLemma, ExposedLemma DEF Known, Numbers
<1>2. PICK f \in Nat, e \in Nat, d \in Nat :
         f = Interruptions' /\ e = Cardinality(Exposed') /\ d = Cardinality(Drift')
  BY <1>1
<1>3. PICK f0 \in Nat, e0 \in Nat, d0 \in Nat :
         f0 = Interruptions /\ e0 = Cardinality(Exposed) /\ d0 = Cardinality(Drift)
  BY <1>1
<1>4. f >= f0 /\ d0 <= f0 + e0
  BY <1>2, <1>3 DEF RInv, DriftOK
<1>5. /\ e + 1 >= e0
      /\ p \notin Exposed \/ p \in Exposed' => e >= e0
      /\ p \notin Exposed /\ p \in Exposed' => e = e0 + 1
  BY <1>2, <1>3, ExposedLemma
<1>6. ASSUME /\ Drift' = Drift
             /\ \/ p \notin Exposed \/ p \in Exposed'
                \/ Interruptions' = Interruptions + 1
      PROVE  d = d0 /\ (e >= e0 \/ f = f0 + 1)
  BY <1>2, <1>3, <1>5, <1>6
<1>7. ASSUME /\ \E m \in Migrations : Drift' = Drift \cup {m}
             /\ p \notin Exposed
             /\ p \in Exposed' \/ Interruptions' = Interruptions + 1
      PROVE  (d = d0 \/ d = d0 + 1) /\ (e = e0 + 1 \/ (e >= e0 /\ f = f0 + 1))
  <2>1. PICK m \in Migrations : Drift' = Drift \cup {m}
    BY <1>7
  <2>2. Cardinality(Drift \cup {m}) = IF m \in Drift THEN d0 ELSE d0 + 1
    BY <1>1, <1>3, FS_AddElement
  <2>3. d = d0 \/ d = d0 + 1
    BY <1>2, <2>1, <2>2
  <2> QED BY <1>2, <1>3, <1>5, <1>7, <2>3
<1>8. ASSUME \E m \in Drift : Drift' = Drift \ {m}
      PROVE  d = d0 - 1
  <2>1. PICK m \in Drift : Drift' = Drift \ {m}
    BY <1>8
  <2>2. Cardinality(Drift \ {m}) = d0 - 1
    BY <1>1, <1>3, FS_RemoveElement
  <2> QED BY <1>2, <2>1, <2>2
<1>9. \/ d = d0 /\ (e >= e0 \/ f = f0 + 1)
      \/ (d = d0 \/ d = d0 + 1) /\ (e = e0 + 1 \/ (e >= e0 /\ f = f0 + 1))
      \/ d = d0 - 1
  BY <1>6, <1>7, <1>8
<1>10. d <= f + e
  BY <1>4, <1>5, <1>9
<1> QED BY <1>2, <1>10 DEF DriftOK

\* A step that leaves tables and records alone keeps the invariant when it keeps
\* the plan and loses sight of no drift.
LEMMA QuietLemma ==
    ASSUME Known, TypeOK', RInv, NEW p \in Procs, Others(p),
           UNCHANGED <<files, schema, records>>, PlanFor(p)',
           Interruptions' >= Interruptions,
           \/ p \notin Exposed \/ p \in Exposed'
           \/ Interruptions' = Interruptions + 1
    PROVE  RInv'
<1>1. FilesOK' /\ RecordsInOrder' /\ Drift' = Drift
  BY DEF RInv, FilesOK, RecordsInOrder, Recorded, Drift
<1> QED BY <1>1, DriftLemma, FrameLemma

-----------------------------------------------------------------------------
(* The statements on the records.                                          *)

\* A migration about to be recorded is the first that is not.
LEMMA FirstLemma ==
    ASSUME Known, RInv, NEW p \in Procs, pc[p] \in {"up", "mark"}
    PROVE  /\ Current(p) \in Unapplied
           /\ \A m \in Unapplied : Current(p) <= m
           /\ \A r \in records : r.group <= group[p] /\ r.name < Current(p)
           /\ \A m \in 1..files : m < Current(p) => m \in Recorded
<1>1. /\ MigratesOn(p) /\ todo[p] # {} /\ files \in Nat
      /\ \A r \in records : r.name \in 1..files
  BY DEF Known, TypeOK, RInv, PlanFor, FilesOK
<1>2. Current(p) \in Unapplied /\ \A m \in Unapplied : Current(p) <= m
  BY <1>1, CurrentLemma DEF Known, MigratesOn
<1>3. ASSUME NEW r \in records, Current(p) <= r.name PROVE FALSE
  <2>1. r.name \in Recorded
    BY DEF Recorded
  <2>2. Current(p) \in 1..files /\ Current(p) \notin Recorded
    BY <1>2 DEF Unapplied
  <2>3. Current(p) # r.name
    BY <2>1, <2>2
  <2>4. Current(p) < r.name
    BY <1>1, <1>3, <2>2, <2>3
  <2> QED BY <1>1, <2>1, <2>2, <2>4 DEF RInv, RecordsInOrder
<1>4. \A r \in records : r.name < Current(p)
  <2>1. Current(p) \in Int /\ \A r \in records : r.name \in Int
    BY <1>1, <1>2 DEF Unapplied
  <2> QED BY <1>3, <2>1
<1>5. \A m \in 1..files : m < Current(p) => m \in Recorded
  BY <1>2 DEF Unapplied
<1> QED BY <1>1, <1>2, <1>4, <1>5 DEF MigratesOn

\* A migration about to be rolled back is the last one recorded, and recorded in
\* the last group.
LEMMA LastLemma ==
    ASSUME Known, RInv, NEW p \in Procs, pc[p] \in {"down", "unmark"}
    PROVE  /\ [name |-> Current(p), group |-> group[p]] \in records
           /\ \A r \in records : r.group <= group[p] /\ r.name <= Current(p)
<1>1. /\ RollsBackOn(p) /\ todo[p] # {} /\ files \in Nat
      /\ \A r \in records : r.name \in 1..files
      /\ records \subseteq Record /\ group[p] \in Nat
  BY DEF Known, TypeOK, RInv, PlanFor, FilesOK
<1>2. /\ Current(p) \in todo[p] /\ \A m \in todo[p] : m <= Current(p)
      /\ Current(p) \in Migrations
  BY <1>1, CurrentLemma DEF Known, RollsBackOn
<1> DEFINE l == [name |-> Current(p), group |-> group[p]]
<1>3. l \in records /\ l.name = Current(p) /\ l.group = group[p]
  BY <1>1, <1>2 DEF RollsBackOn
<1> HIDE DEF l
<1>4. ASSUME NEW r \in records, ~(r.name <= Current(p)) PROVE FALSE
  <2>1. l.name <= r.name /\ r.group \in Nat /\ r.name \in 1..files
    BY <1>1, <1>2, <1>3, <1>4 DEF Record, Migrations
  <2>2. l.group <= r.group
    BY <1>3, <2>1 DEF RInv, RecordsInOrder
  <2>3. r.group <= group[p]
    BY <1>1 DEF RollsBackOn
  <2>4. r.group = group[p]
    BY <1>1, <1>3, <2>1, <2>2, <2>3
  <2>5. r = [name |-> r.name, group |-> r.group]
    BY <1>1 DEF Record
  <2>6. r.name \in todo[p]
    BY <1>1, <2>1, <2>4, <2>5 DEF RollsBackOn
  <2> QED BY <1>2, <1>4, <2>6
<1>5. \A r \in records : r.group <= group[p]
  BY <1>1 DEF RollsBackOn
<1> QED BY <1>3, <1>4, <1>5 DEF l

\* The next migration is recorded: the records are the first migrations still,
\* and the drift of having built it is made up for.
LEMMA MarkLemma ==
    ASSUME Known, RInv, NEW p \in Procs, pc[p] = "mark", files' = files,
           MarkApplied(Current(p), group[p])
    PROVE  /\ FilesOK' /\ RecordsInOrder'
           /\ Unapplied' = Unapplied \ {Current(p)}
           /\ \A r \in records' : r.group <= group[p]
           /\ Current(p) \in Drift /\ Drift' = Drift \ {Current(p)}
<1> DEFINE c == Current(p)
<1> DEFINE l == [name |-> c, group |-> group[p]]
<1>1. /\ c \in Unapplied /\ c \in 1..files /\ c \in Int /\ group[p] \in Nat
      /\ \A r \in records : r.group <= group[p] /\ r.name < c
      /\ \A m \in 1..files : m < c => m \in Recorded
  BY FirstLemma DEF Unapplied, Known, TypeOK
<1>2. /\ records' = records \cup {l} /\ l.name = c /\ l.group = group[p]
      /\ schema' = schema
  BY DEF MarkApplied
<1>3. c \in schema /\ c \notin Recorded
  BY <1>1 DEF Known, IInv, Built, Unapplied
<1> HIDE DEF c, l
<1>4. Recorded' = Recorded \cup {c}
  BY <1>2 DEF Recorded
<1>5. Unapplied' = Unapplied \ {c}
  BY <1>4 DEF Unapplied
<1>6. FilesOK'
  BY <1>1, <1>2 DEF RInv, FilesOK
<1>7. \A r \in records' : r.group <= group[p]
  BY <1>1, <1>2
<1>8. Drift' = Drift \ {c} /\ c \in Drift
  BY <1>2, <1>3, <1>4 DEF Drift
<1>9. \A m, n \in 1..files : n \in Recorded' /\ m < n => m \in Recorded'
  BY <1>1, <1>4 DEF RInv, RecordsInOrder
<1>10. ASSUME NEW r \in records', NEW s \in records'
       PROVE  (r.name <= s.name => r.group <= s.group) /\ (r.name = s.name => r = s)
  <2>0. \A t \in records : t.name \in Int
    BY <1>1 DEF RInv, FilesOK
  <2>1. CASE r \in records /\ s \in records
    BY <2>1 DEF RInv, RecordsInOrder
  <2>2. CASE r \in records /\ s = l
    BY <1>1, <1>2, <2>0, <2>2
  <2>3. CASE r = l /\ s \in records
    BY <1>1, <1>2, <2>0, <2>3
  <2>4. CASE r = l /\ s = l
    BY <1>1, <1>2, <2>4
  <2> QED BY <1>2, <2>1, <2>2, <2>3, <2>4
<1>11. RecordsInOrder'
  BY <1>9, <1>10 DEF RecordsInOrder
<1> QED BY <1>5, <1>6, <1>7, <1>8, <1>11 DEF c

\* The last record is taken out: what is left is in order, and the drift of
\* having dropped its tables is made up for.
LEMMA UnmarkLemma ==
    ASSUME Known, RInv, NEW p \in Procs, pc[p] = "unmark", files' = files,
           MarkUnapplied(Current(p), group[p])
    PROVE  /\ FilesOK' /\ RecordsInOrder'
           /\ \A r \in records' : r.group <= group[p]
           /\ \A m \in 1..files : [name |-> m, group |-> group[p]] \in records' <=>
                 [name |-> m, group |-> group[p]] \in records /\ m # Current(p)
           /\ Current(p) \in Drift /\ Drift' = Drift \ {Current(p)}
<1> DEFINE c == Current(p)
<1> DEFINE l == [name |-> c, group |-> group[p]]
<1>1. /\ l \in records /\ l.name = c
      /\ \A r \in records : r.group <= group[p] /\ r.name <= c
  BY LastLemma
<1>2. records' = records \ {l} /\ schema' = schema
  BY DEF MarkUnapplied
<1>3. c \in Recorded /\ c \notin schema
  BY <1>1 DEF Recorded, RInv, PlanFor
<1>4. \A m \in 1..files : [name |-> m, group |-> group[p]] \in records' <=>
         [name |-> m, group |-> group[p]] \in records /\ m # c
  BY <1>2
<1> HIDE DEF c, l
<1>5. \A r \in records : r.name = c => r = l
  BY <1>1 DEF RInv, RecordsInOrder
<1>6. Recorded' = Recorded \ {c}
  BY <1>1, <1>2, <1>5 DEF Recorded
<1>7. FilesOK' /\ \A r \in records' : r.group <= group[p]
  BY <1>1, <1>2 DEF RInv, FilesOK
<1>8. Drift' = Drift \ {c} /\ c \in Drift
  BY <1>2, <1>3, <1>6 DEF Drift
<1>9. ASSUME NEW m \in 1..files, NEW n \in 1..files, n \in Recorded', m < n
      PROVE  m \in Recorded'
  <2>1. m \in Recorded /\ n \in Recorded
    BY <1>6, <1>9 DEF RInv, RecordsInOrder
  <2>2. n <= c /\ c \in Int
    BY <1>1, <2>1 DEF Recorded, RInv, FilesOK
  <2> QED BY <1>6, <1>9, <2>1, <2>2
<1>10. RecordsInOrder'
  BY <1>2, <1>9 DEF RInv, RecordsInOrder
<1> QED BY <1>4, <1>7, <1>8, <1>10 DEF c

\* No statement breaks the order of the records, or makes a drift without leaving
\* its process exposed.
LEMMA EffectRecordsLemma ==
    ASSUME Known, RInv, NEW p \in Procs, Effect(p), files' = files
    PROVE  /\ FilesOK' /\ RecordsInOrder'
           /\ pc[p] \in Critical \/ UNCHANGED <<schema, records>>
           /\ \/ Drift' = Drift /\ p \notin Exposed
              \/ p \notin Exposed /\ \E m \in Migrations : Drift' = Drift \cup {m}
              \/ \E m \in Drift : Drift' = Drift \ {m}
<1>1. CASE (pc[p] = "lock" /\ InsertLock(p)) \/ (pc[p] = "unlock" /\ DeleteLock)
  BY <1>1 DEF InsertLock, DeleteLock, RInv, FilesOK, RecordsInOrder, Recorded, Drift, Exposed
<1>2. CASE pc[p] = "up" /\ CreateTables(Current(p))
  <2>1. Current(p) \in 1..files /\ Current(p) \notin Recorded /\ Current(p) \in Migrations
    BY <1>2, FirstLemma, CurrentLemma DEF Unapplied, Known, TypeOK
  <2>2. schema' = schema \cup {Current(p)} /\ records' = records
    BY <1>2 DEF CreateTables
  <2>3. Drift' = Drift \cup {Current(p)}
    BY <2>1, <2>2 DEF Drift, Recorded
  <2>4. FilesOK' /\ RecordsInOrder'
    BY <2>1, <2>2 DEF RInv, FilesOK, RecordsInOrder, Recorded
  <2> QED BY <1>2, <2>1, <2>3, <2>4 DEF Exposed, Critical
<1>3. CASE pc[p] = "mark" /\ MarkApplied(Current(p), group[p])
  BY <1>3, MarkLemma DEF Critical
<1>4. CASE pc[p] = "down" /\ DropTables(Current(p))
  <2>1. Current(p) \in Recorded /\ Current(p) \in Migrations
    <3>1. [name |-> Current(p), group |-> group[p]] \in records
      BY <1>4, LastLemma
    <3> QED BY <1>4, <3>1, CurrentLemma DEF Recorded, Known, TypeOK
  <2>2. schema' = schema \ {Current(p)} /\ records' = records
    BY <1>4 DEF DropTables
  <2>3. Drift' = Drift \cup {Current(p)}
    BY <2>1, <2>2 DEF Drift, Recorded
  <2>4. FilesOK' /\ RecordsInOrder'
    BY <2>2 DEF RInv, FilesOK, RecordsInOrder, Recorded
  <2> QED BY <1>4, <2>1, <2>3, <2>4 DEF Exposed, Critical
<1>5. CASE pc[p] = "unmark" /\ MarkUnapplied(Current(p), group[p])
  BY <1>5, UnmarkLemma DEF Critical
<1> QED BY <1>1, <1>2, <1>3, <1>4, <1>5 DEF Effect

-----------------------------------------------------------------------------
(* The steps.                                                              *)

\* A command that ends, or has failed, has no plan left to keep.
LEMMA EndLemma ==
    ASSUME Known, RInv, NEW p \in Procs, files' = files,
           \/ \E c \in {0, 1, 137} : Exit(p, c)
           \/ pc[p] # "idle" /\ (Return(p, 1) \/ Fail(p))
    PROVE  Others(p) /\ PlanFor(p)'
<1>0. TypeOK /\ todo[p] \subseteq 1..files /\ (pc[p] # "idle" => cmd[p] # "none")
  BY DEF Known, RInv, PlanFor
<1>1. ASSUME NEW c \in {0, 1, 137}, Exit(p, c) PROVE Others(p) /\ PlanFor(p)'
  BY <1>0, <1>1 DEF Exit, Others, Alone, PlanFor, TypeOK
<1>2. ASSUME pc[p] # "idle", Return(p, 1) PROVE Others(p) /\ PlanFor(p)'
  BY <1>0, <1>2 DEF Return, Others, Alone, PlanFor, TypeOK
<1>3. code[p] \in {0, 1, 137}
  BY <1>0 DEF TypeOK
<1> QED BY <1>1, <1>2, <1>3 DEF Fail

\* Steps that touch neither tables nor records.
LEMMA QuietStepsLemma ==
    ASSUME Known, TypeOK', RInv, NEW p \in Procs,
           \/ \E c \in {"migrate", "rollback"} : Start(p, c)
           \/ Lock(p) \/ LockRefused(p) \/ ReadNothingToDo(p) \/ ReadMigrations(p)
           \/ UpRefused(p) \/ Unlock(p) \/ ContextDone(p) \/ Signal(p) \/ Kill(p)
    PROVE  RInv'
<1>0. TypeOK /\ PlanFor(p)
  BY DEF Known, RInv
<1>1. ASSUME NEW c \in {"migrate", "rollback"}, Start(p, c)
      PROVE  RInv'
  <2>1. Others(p) /\ PlanFor(p)' /\ p \notin Exposed
    BY <1>0, <1>1 DEF Start, Others, Alone, PlanFor, Exposed, TypeOK
  <2>2. UNCHANGED <<files, schema, records, bounds>>
    BY <1>1 DEF Start, database
  <2> QED BY <1>0, <2>1, <2>2, InterruptionsLemma, NumbersLemma, QuietLemma DEF Numbers
<1>2. CASE Lock(p)
  <2>1. Others(p) /\ PlanFor(p)' /\ p \notin Exposed
    BY <1>0, <1>2 DEF Lock, At, Others, Alone, PlanFor, Exposed, TypeOK
  <2>2. UNCHANGED <<files, schema, records, bounds>>
    BY <1>2 DEF Lock, InsertLock
  <2> QED BY <1>0, <2>1, <2>2, InterruptionsLemma, NumbersLemma, QuietLemma DEF Numbers
<1>3. CASE LockRefused(p) \/ UpRefused(p) \/ Unlock(p) \/ ContextDone(p)
  <2>1. UNCHANGED <<files, schema, records, bounds>>
    BY <1>3 DEF LockRefused, UpRefused, Unlock, ContextDone, DeleteLock, database
  <2>2. p \notin Exposed
    BY <1>3 DEF LockRefused, UpRefused, Unlock, ContextDone, At, Exposed
  <2>3. code[p] \in {0, 1, 137}
    BY <1>0 DEF TypeOK
  <2>4. Others(p) /\ PlanFor(p)'
    BY <1>3, <2>1, <2>3, EndLemma DEF LockRefused, UpRefused, Unlock, ContextDone, At
  <2> QED BY <1>0, <2>1, <2>2, <2>4, InterruptionsLemma, NumbersLemma, QuietLemma DEF Numbers
<1>4. CASE ReadNothingToDo(p)
  <2>1. UNCHANGED <<files, schema, records, bounds>> /\ Unapplied' = Unapplied
    BY <1>4 DEF ReadNothingToDo, database, Unapplied, Recorded
  <2>2. Others(p) /\ PlanFor(p)' /\ p \notin Exposed
    BY <1>0, <1>4, <2>1 DEF ReadNothingToDo, Return, At, Others, Alone, PlanFor, Exposed, TypeOK
  <2> QED BY <1>0, <2>1, <2>2, InterruptionsLemma, NumbersLemma, QuietLemma DEF Numbers
<1>5. CASE ReadMigrations(p)
  <2>1. UNCHANGED <<files, schema, records, bounds>> /\ Unapplied' = Unapplied
    BY <1>5 DEF ReadMigrations, database, Unapplied, Recorded
  <2>2. Others(p) /\ p \notin Exposed
    BY <1>0, <1>5 DEF ReadMigrations, At, Others, Alone, Exposed, TypeOK
  <2>3. LastGroup \in Nat /\ \A r \in records : r.group \in Nat /\ r.group <= LastGroup
    BY <1>0, LastGroupLemma DEF Known, TypeOK, Record
  <2>4. PlanFor(p)'
    <3>1. CASE cmd[p] = "migrate"
      <4>1. /\ todo'[p] = Unapplied' /\ group'[p] = LastGroup + 1 /\ pc'[p] = "up"
            /\ cmd'[p] = "migrate"
        BY <1>0, <1>5, <2>1, <3>1 DEF ReadMigrations, TypeOK
      <4>2. \A r \in records' : r.group <= group'[p]
        BY <2>1, <2>3, <4>1
      <4>3. todo'[p] \subseteq 1..files'
        BY <4>1 DEF Unapplied
      <4> QED BY <4>1, <4>2, <4>3 DEF PlanFor, MigratesOn
    <3>2. CASE cmd[p] # "migrate"
      <4>1. /\ todo'[p] = LastApplied /\ group'[p] = LastGroup /\ pc'[p] = "down"
            /\ cmd'[p] = "rollback"
        BY <1>0, <1>5, <3>2 DEF ReadMigrations, At, TypeOK, PlanFor
      <4>2. \A r \in records' : r.group <= group'[p]
        BY <2>1, <2>3, <4>1
      <4>3. todo'[p] = {m \in 1..files' : [name |-> m, group |-> group'[p]] \in records'}
        BY <2>1, <4>1 DEF LastApplied
      <4> QED BY <4>1, <4>2, <4>3 DEF PlanFor, RollsBackOn
    <3> QED BY <3>1, <3>2
  <2> QED BY <1>0, <2>1, <2>2, <2>4, InterruptionsLemma, NumbersLemma, QuietLemma DEF Numbers
<1>6. CASE Signal(p)
  <2>1. /\ UNCHANGED <<files, schema, records, pc, cmd, todo, group, code, failures>>
        /\ signals' = signals + 1
        /\ \A q \in Procs \ {p} : cancelled'[q] = cancelled[q]
    BY <1>0, <1>6 DEF Signal, database, TypeOK
  <2>2. Others(p)
    BY <2>1 DEF Others, Alone
  <2>3. PlanFor(p)'
    BY <1>0, <2>1 DEF PlanFor, MigratesOn, RollsBackOn, Unapplied, Recorded, Current
  <2>4. Interruptions' = Interruptions + 1 /\ Interruptions' >= Interruptions
    BY <1>0, <2>1, InterruptionsLemma, NumbersLemma DEF Numbers
  <2> QED BY <2>1, <2>2, <2>3, <2>4, QuietLemma
<1>7. CASE Kill(p)
  <2>1. UNCHANGED <<files, schema, records, signals>> /\ failures' = failures + 1
    BY <1>7 DEF Kill, database
  <2>2. Interruptions' = Interruptions + 1 /\ Interruptions' >= Interruptions
    BY <1>0, <2>1, InterruptionsLemma, NumbersLemma DEF Numbers
  <2> QED BY <1>7, <2>1, <2>2, EndLemma, QuietLemma DEF Kill
<1> QED BY <1>1, <1>2, <1>3, <1>4, <1>5, <1>6, <1>7

\* Steps that do.
LEMMA EffectStepsLemma ==
    ASSUME Known, TypeOK', RInv, NEW p \in Procs,
           \/ Up(p) \/ Mark(p) \/ Down(p) \/ Unmark(p)
           \/ \E stored \in BOOLEAN : StatementFails(p, stored)
    PROVE  RInv'
<1>0. TypeOK /\ PlanFor(p) /\ files' = files
  BY DEF Known, RInv, Up, Mark, Down, Unmark, Advance, StatementFails
<1>1. CASE Up(p)
  <2>1. Effect(p) /\ UNCHANGED bounds /\ pc[p] = "up" /\ ~cancelled[p]
    BY <1>1 DEF Up, At, Effect
  <2>2. Others(p) /\ p \in Exposed'
    BY <1>0, <1>1 DEF Up, At, Others, Alone, Exposed, TypeOK
  <2>3. /\ Current(p)' = Current(p) /\ Unapplied' = Unapplied
        /\ MigratesOn(p)' /\ pc'[p] = "mark"
        /\ todo' = todo /\ cmd' = cmd
    BY <1>0, <1>1 DEF Up, At, CreateTables, Current, Unapplied, Recorded, PlanFor, MigratesOn,
                      TypeOK
  <2>4. PlanFor(p)'
    BY <1>0, <2>1, <2>3 DEF PlanFor
  <2>5. Interruptions' >= Interruptions
    BY <1>0, <2>1, InterruptionsLemma, NumbersLemma DEF Numbers
  <2>6. DriftOK'
    BY <1>0, <2>1, <2>2, <2>5, EffectRecordsLemma, DriftLemma
  <2> QED BY <1>0, <2>1, <2>2, <2>4, <2>6, EffectRecordsLemma, FrameLemma DEF Critical
<1>2. CASE Down(p)
  <2>1. Effect(p) /\ UNCHANGED bounds /\ pc[p] = "down" /\ ~cancelled[p]
    BY <1>2 DEF Down, At, Effect
  <2>2. Others(p) /\ p \in Exposed'
    BY <1>0, <1>2 DEF Down, At, Others, Alone, Exposed, TypeOK
  <2>3. /\ Current(p)' = Current(p) /\ Current(p) \notin schema'
        /\ RollsBackOn(p)' /\ pc'[p] = "unmark"
        /\ todo' = todo /\ cmd' = cmd
    BY <1>0, <1>2 DEF Down, At, DropTables, Current, PlanFor, RollsBackOn, TypeOK
  <2>4. PlanFor(p)'
    BY <1>0, <2>1, <2>3 DEF PlanFor
  <2>5. Interruptions' >= Interruptions
    BY <1>0, <2>1, InterruptionsLemma, NumbersLemma DEF Numbers
  <2>6. DriftOK'
    BY <1>0, <2>1, <2>2, <2>5, EffectRecordsLemma, DriftLemma
  <2> QED BY <1>0, <2>1, <2>2, <2>4, <2>6, EffectRecordsLemma, FrameLemma DEF Critical
<1>3. CASE Mark(p)
  <2>1. /\ Effect(p) /\ UNCHANGED bounds /\ pc[p] = "mark"
        /\ MarkApplied(Current(p), group[p])
    BY <1>3 DEF Mark, At, Advance, Effect
  <2>2. Others(p)
    BY <1>0, <1>3 DEF Mark, Advance, Others, Alone, TypeOK
  <2>3. /\ todo'[p] = todo[p] \ {Current(p)}
        /\ pc'[p] \in {"up", "unlock"} /\ (pc'[p] = "unlock" => todo'[p] = {})
        /\ cmd' = cmd /\ group' = group
    BY <1>0, <1>3 DEF Mark, Advance, TypeOK
  <2>4. todo[p] = Unapplied /\ cmd[p] = "migrate" /\ todo[p] \subseteq 1..files
    BY <1>0, <2>1 DEF PlanFor, MigratesOn
  <2>5. todo'[p] = Unapplied' /\ \A r \in records' : r.group <= group'[p]
    BY <1>0, <2>1, <2>3, <2>4, MarkLemma
  <2>6. PlanFor(p)'
    BY <1>0, <2>3, <2>4, <2>5 DEF PlanFor, MigratesOn
  <2>7. Interruptions' >= Interruptions
    BY <1>0, <2>1, InterruptionsLemma, NumbersLemma DEF Numbers
  <2>8. DriftOK'
    BY <1>0, <2>1, <2>2, <2>7, MarkLemma, DriftLemma
  <2> QED BY <1>0, <2>1, <2>2, <2>6, <2>8, MarkLemma, FrameLemma DEF Critical
<1>4. CASE Unmark(p)
  <2>1. /\ Effect(p) /\ UNCHANGED bounds /\ pc[p] = "unmark"
        /\ MarkUnapplied(Current(p), group[p])
    BY <1>4 DEF Unmark, At, Advance, Effect
  <2>2. Others(p)
    BY <1>0, <1>4 DEF Unmark, Advance, Others, Alone, TypeOK
  <2>3. /\ todo'[p] = todo[p] \ {Current(p)}
        /\ pc'[p] \in {"down", "unlock"}
        /\ cmd' = cmd /\ group' = group
    BY <1>0, <1>4 DEF Unmark, Advance, TypeOK
  <2>4. /\ todo[p] = {m \in 1..files : [name |-> m, group |-> group[p]] \in records}
        /\ cmd[p] = "rollback"
    BY <1>0, <2>1 DEF PlanFor, RollsBackOn
  <2>5. /\ todo'[p] = {m \in 1..files' : [name |-> m, group |-> group'[p]] \in records'}
        /\ \A r \in records' : r.group <= group'[p]
    BY <1>0, <2>1, <2>3, <2>4, UnmarkLemma
  <2>6. PlanFor(p)'
    BY <1>0, <2>3, <2>4, <2>5 DEF PlanFor, RollsBackOn
  <2>7. Interruptions' >= Interruptions
    BY <1>0, <2>1, InterruptionsLemma, NumbersLemma DEF Numbers
  <2>8. DriftOK'
    BY <1>0, <2>1, <2>2, <2>7, UnmarkLemma, DriftLemma
  <2> QED BY <1>0, <2>1, <2>2, <2>6, <2>8, UnmarkLemma, FrameLemma DEF Critical
<1>5. ASSUME NEW stored \in BOOLEAN, StatementFails(p, stored)
      PROVE  RInv'
  <2>1. /\ pc[p] # "idle" /\ Fail(p) /\ UNCHANGED <<files, signals>>
        /\ failures' = failures + 1
        /\ Effect(p) \/ UNCHANGED database
    BY <1>5 DEF StatementFails
  <2>2. Interruptions' = Interruptions + 1 /\ Interruptions' >= Interruptions
    BY <1>0, <2>1, InterruptionsLemma, NumbersLemma DEF Numbers
  <2>3. Others(p) /\ PlanFor(p)'
    BY <2>1, EndLemma
  <2>4. CASE Effect(p)
    <3>1. DriftOK'
      BY <1>0, <2>2, <2>3, <2>4, EffectRecordsLemma, DriftLemma
    <3> QED BY <1>0, <2>3, <2>4, <3>1, EffectRecordsLemma, FrameLemma
  <2>5. CASE UNCHANGED database
    BY <2>1, <2>2, <2>3, <2>5, QuietLemma DEF database
  <2> QED BY <2>1, <2>4, <2>5
<1> QED BY <1>1, <1>2, <1>3, <1>4, <1>5

\* Every step keeps the invariant, when unlock is only run between commands.
LEMMA RecordsLemma == CarefulOperator /\ Known /\ TypeOK' /\ RInv /\ [Next]_vars => RInv'
<1> SUFFICES ASSUME CarefulOperator, Known, TypeOK', RInv, [Next]_vars
             PROVE  RInv'
  OBVIOUS
<1>1. CASE RunInit \/ RunUnlock \/ UNCHANGED vars
  <2>1. UNCHANGED <<files, schema, records, pc, cmd, todo, group, cancelled, code, failures,
                    signals>>
    BY <1>1 DEF RunInit, RunUnlock, DeleteLock, vars, bounds, database
  <2>2. /\ Drift' = Drift /\ Exposed' = Exposed /\ Interruptions' = Interruptions
        /\ Unapplied' = Unapplied /\ \A p \in Procs : Current(p)' = Current(p)
    BY <2>1 DEF Drift, Recorded, Exposed, Interruptions, Unapplied, Current
  <2>3. FilesOK' /\ RecordsInOrder' /\ DriftOK'
    BY <2>1, <2>2 DEF RInv, FilesOK, RecordsInOrder, Recorded, DriftOK
  <2>4. \A p \in Procs : PlanFor(p)'
    BY <2>1, <2>2 DEF RInv, PlanFor, MigratesOn, RollsBackOn
  <2> QED BY <2>3, <2>4 DEF RInv
<1>2. CASE RunCreateSQL
  <2>1. /\ UNCHANGED <<schema, records, pc, cmd, todo, group, cancelled, code, failures, signals>>
        /\ files' = files + 1 /\ files \in Nat
        /\ \A p \in Procs : pc[p] = "idle"
    BY <1>2 DEF RunCreateSQL, Idle, database, bounds, Known, TypeOK
  <2>2. Drift' = Drift /\ Exposed' = Exposed /\ Interruptions' = Interruptions
    BY <2>1 DEF Drift, Recorded, Exposed, Interruptions
  <2>3. 1..files \subseteq 1..files'
    BY <2>1
  <2>4. Recorded \subseteq 1..files /\ Recorded' = Recorded
    BY <2>1 DEF RInv, FilesOK, Recorded
  <2>5. FilesOK' /\ DriftOK'
    BY <2>1, <2>2, <2>3 DEF RInv, FilesOK, DriftOK
  <2>6. \A m, n \in 1..files' : n \in Recorded' /\ m < n => m \in Recorded'
    BY <2>1, <2>4 DEF RInv, RecordsInOrder
  <2>7. RecordsInOrder'
    BY <2>1, <2>6 DEF RInv, RecordsInOrder
  <2>8. \A p \in Procs : PlanFor(p)'
    BY <2>1, <2>3 DEF RInv, PlanFor
  <2> QED BY <2>5, <2>7, <2>8 DEF RInv
<1>3. ASSUME NEW p \in Procs,
             \/ \E c \in {"migrate", "rollback"} : Start(p, c)
             \/ Proceed(p)
             \/ \E stored \in BOOLEAN : StatementFails(p, stored)
             \/ Signal(p)
             \/ Kill(p)
      PROVE  RInv'
  BY <1>3, QuietStepsLemma, EffectStepsLemma DEF Proceed
<1> QED BY <1>1, <1>2, <1>3 DEF Next

\* The invariants hold in every reachable state.
LEMMA RecordsInvariance == CarefulOperator => (Spec => [](Known /\ RInv))
<1> SUFFICES ASSUME CarefulOperator
             PROVE  Spec => [](Known /\ RInv)
  OBVIOUS
<1>1. Init => Bounded
  BY DEF Init, Bounded
<1>2. Init => RInv
  <2> SUFFICES ASSUME Init PROVE RInv
    OBVIOUS
  <2>1. FilesOK /\ RecordsInOrder /\ \A p \in Procs : PlanFor(p)
    BY DEF Init, FilesOK, RecordsInOrder, Recorded, PlanFor
  <2>2. Drift = {} /\ Exposed = {} /\ Interruptions = 0
    BY DEF Init, Drift, Recorded, Exposed, Interruptions
  <2>3. DriftOK
    BY <2>2, FS_EmptySet DEF DriftOK
  <2> QED BY <2>1, <2>3 DEF RInv
<1>3. Known /\ TypeOK' /\ RInv /\ [Next]_vars => RInv'
  BY RecordsLemma
<1>4. TypeOK /\ Bounded /\ IInv <=> Known
  BY DEF Known
<1> QED BY <1>1, <1>2, <1>3, <1>4, TypeLemma, Typing, Invariance, PTL DEF Spec

-----------------------------------------------------------------------------
(* The theorems about the records.                                         *)

\* With a careful operator, bun_migrations records the first migrations of db/,
\* each once, in groups that follow their order, whatever is interrupted where.
THEOREM RecordsFollowFiles == CarefulOperator => (Spec => []RecordsInOrder)
<1> SUFFICES ASSUME CarefulOperator
             PROVE  Spec => []RecordsInOrder
  OBVIOUS
<1>1. RInv => RecordsInOrder
  BY DEF RInv
<1> QED BY <1>1, RecordsInvariance, PTL

\* With a careful operator, tables and records differ by no more than what a
\* process is in the middle of and one migration per interruption.
THEOREM DriftIsBounded == CarefulOperator => (Spec => []DriftBounded)
<1> SUFFICES ASSUME CarefulOperator
             PROVE  Spec => []DriftBounded
  OBVIOUS
<1>1. ASSUME Known, RInv PROVE DriftBounded
  <2> DEFINE Between == {p \in Procs : pc[p] \in {"mark", "unmark"}}
  <2>1. Between \subseteq {lock} /\ Exposed \subseteq Between
    BY <1>1 DEF Known, IInv, HoldsLock, Critical, Exposed
  <2>2. IsFiniteSet(Between)
    BY <2>1, FS_Singleton, FS_Subset
  <2>3. /\ Cardinality(Exposed) <= Cardinality(Between)
        /\ Cardinality(Exposed) \in Nat /\ Cardinality(Between) \in Nat
    BY <2>1, <2>2, FS_Subset, FS_CardinalityType
  <2>4. Interruptions \in Nat /\ Cardinality(Drift) \in Nat
    BY <1>1, NumbersLemma DEF Known, Numbers
  <2>5. Cardinality(Drift) <= Interruptions + Cardinality(Exposed)
    BY <1>1 DEF RInv, DriftOK
  <2>6. Cardinality(Drift) <= Interruptions + Cardinality(Between)
    BY <2>3, <2>4, <2>5
  <2> QED BY <2>6 DEF DriftBounded, Interruptions
<1>2. Known /\ RInv => DriftBounded
  BY <1>1
<1> QED BY <1>2, RecordsInvariance, PTL

\* With a careful operator, a rollback takes nothing out of the records but the
\* last migration of the last group.
THEOREM RollbackTakesLast == CarefulOperator => (Spec => RollsBackLastGroup)
<1> SUFFICES ASSUME CarefulOperator
             PROVE  Spec => RollsBackLastGroup
  OBVIOUS
<1> DEFINE P == \A r \in records \ records' :
                   \A s \in records : s.group <= r.group /\ s.name <= r.name
<1>1. ASSUME Known, RInv, NEW p \in Procs, Effect(p)
      PROVE  P
  <2>1. CASE pc[p] = "unmark" /\ MarkUnapplied(Current(p), group[p])
    <3>1. records \ records' \subseteq {[name |-> Current(p), group |-> group[p]]}
      BY <2>1 DEF MarkUnapplied
    <3> QED BY <1>1, <2>1, <3>1, LastLemma
  <2>2. CASE pc[p] # "unmark"
    BY <1>1, <2>2 DEF Effect, InsertLock, CreateTables, DropTables, MarkApplied, DeleteLock
  <2> QED BY <1>1, <2>1, <2>2 DEF Effect
<1>2. ASSUME Known, RInv, NEW p \in Procs, Proceed(p)
      PROVE  P
  <2>1. CASE Lock(p) \/ Up(p) \/ Mark(p) \/ Down(p) \/ Unmark(p) \/ Unlock(p)
    BY <1>1, <1>2, <2>1 DEF Lock, Up, Mark, Down, Unmark, Unlock, Effect, At
  <2>2. CASE \/ LockRefused(p) \/ ReadNothingToDo(p) \/ ReadMigrations(p) \/ UpRefused(p)
             \/ ContextDone(p)
    BY <2>2 DEF LockRefused, ReadNothingToDo, ReadMigrations, UpRefused, ContextDone, database
  <2> QED BY <1>2, <2>1, <2>2 DEF Proceed
<1>3. ASSUME Known, RInv, NEW p \in Procs, NEW stored \in BOOLEAN, StatementFails(p, stored)
      PROVE  P
  BY <1>1, <1>3 DEF StatementFails, database
<1>4. ASSUME NEW p \in Procs,
             (\E c \in {"migrate", "rollback"} : Start(p, c)) \/ Signal(p) \/ Kill(p)
      PROVE  P
  BY <1>4 DEF Start, Signal, Kill, database
<1>5. ASSUME RunInit \/ RunCreateSQL \/ RunUnlock
      PROVE  P
  BY <1>5 DEF RunInit, RunCreateSQL, RunUnlock, DeleteLock, database
<1>6. Known /\ RInv /\ [Next]_vars => [P]_vars
  BY <1>2, <1>3, <1>4, <1>5 DEF Next
<1> QED BY <1>6, RecordsInvariance, PTL DEF Spec, RollsBackLastGroup

\* With a careful operator, a migrate that exits with 0 leaves nothing of db/
\* unrecorded.
THEOREM ExitZeroIsTrue == CarefulOperator => (Spec => ExitZeroMeansApplied)
<1> SUFFICES ASSUME CarefulOperator
             PROVE  Spec => ExitZeroMeansApplied
  OBVIOUS
<1> DEFINE P == \A p \in Procs :
                   cmd[p] = "migrate" /\ pc[p] = "unlock" /\ pc'[p] = "idle" /\ code'[p] = 0
                       => Unapplied = {}
<1>1. ASSUME Known, RInv, [Next]_vars, NEW p \in Procs,
             cmd[p] = "migrate", pc[p] = "unlock", pc'[p] = "idle", code'[p] = 0
      PROVE  Unapplied = {}
  <2>1. PlanFor(p) /\ TypeOK
    BY <1>1 DEF Known, RInv
  <2>2. code[p] = 0
    <3>1. CASE \/ RunInit \/ RunCreateSQL \/ RunUnlock \/ UNCHANGED vars
      BY <1>1, <3>1 DEF RunInit, RunCreateSQL, RunUnlock, vars
    <3>2. ASSUME NEW q \in Procs, NEW c \in {"migrate", "rollback"}, Start(q, c)
          PROVE  code[p] = 0
      BY <1>1, <2>1, <3>2 DEF Start, TypeOK
    <3>3. ASSUME NEW q \in Procs, NEW stored \in BOOLEAN, StatementFails(q, stored)
          PROVE  code[p] = 0
      BY <1>1, <2>1, <3>3 DEF StatementFails, Fail, Exit, Return, TypeOK
    <3>4. ASSUME NEW q \in Procs, Signal(q) \/ Kill(q)
          PROVE  code[p] = 0
      BY <1>1, <2>1, <3>4 DEF Signal, Kill, Exit, TypeOK
    <3>5. ASSUME NEW q \in Procs,
                 \/ Lock(q) \/ ReadMigrations(q) \/ Up(q) \/ Mark(q) \/ Down(q) \/ Unmark(q)
          PROVE  code[p] = 0
      BY <1>1, <3>5 DEF Lock, ReadMigrations, Up, Mark, Down, Unmark, Advance
    <3>6. ASSUME NEW q \in Procs,
                 LockRefused(q) \/ ReadNothingToDo(q) \/ UpRefused(q) \/ Unlock(q) \/ ContextDone(q)
          PROVE  code[p] = 0
      BY <1>1, <2>1, <3>6 DEF LockRefused, ReadNothingToDo, UpRefused, Unlock, ContextDone, At,
                              Fail, Exit, Return, TypeOK
    <3> QED BY <1>1, <3>1, <3>2, <3>3, <3>4, <3>5, <3>6 DEF Next, Proceed
  <2> QED BY <1>1, <2>1, <2>2 DEF PlanFor
<1>2. Known /\ RInv /\ [Next]_vars => [P]_vars
  BY <1>1
<1> QED BY <1>2, RecordsInvariance, PTL DEF Spec, ExitZeroMeansApplied
================================================================================
