------------------------------- MODULE DbMigrate -------------------------------
(***************************************************************************)
(* cmd/dbmigrate: processes that migrate or roll back one database.        *)
(* A process takes the lock (a row of bun_migration_locks), reads what is  *)
(* recorded in bun_migrations, and then works migration by migration: the  *)
(* SQL of the migration in one transaction, its record in another.  On its *)
(* way out, whatever the outcome, it deletes the lock row.  Statements may *)
(* fail, a signal cancels the context that all statements share, and a     *)
(* process may be killed.                                                  *)
(***************************************************************************)
EXTENDS Integers, FiniteSetsExt

CONSTANTS
    Procs,              \* dbmigrate processes, one command at a time each
    MaxFiles,           \* bound on the migrations in db/
    MaxFailures,        \* bound on failed statements and killed processes
    MaxSignals,         \* bound on SIGINT and SIGTERM
    CarefulOperator     \* unlock is only run when no command is running

Free == "free"

ASSUME FreeAssumption == Free \notin Procs
ASSUME BoundsAssumption ==
    MaxFiles \in Nat /\ MaxFailures \in Nat /\ MaxSignals \in Nat
ASSUME OperatorAssumption == CarefulOperator \in BOOLEAN

VARIABLES
    files,       \* db/ holds migrations 1..files, in the order of their names
    inited,      \* bun_migrations and bun_migration_locks exist
    schema,      \* the migrations whose tables exist
    records,     \* bun_migrations
    lock,        \* Free, or the process whose row is in bun_migration_locks;
                 \* the row itself does not say whose it is
    pc,          \* next statement of each process
    cmd,         \* the command it runs
    todo,        \* the migrations it still has to apply or roll back
    group,       \* the group it records or rolls back
    cancelled,   \* a signal has cancelled its context
    code,        \* its exit code, once decided
    failures,    \* failures so far
    signals      \* signals so far

database == <<inited, schema, records, lock>>
bounds == <<failures, signals>>
vars == <<files, database, pc, cmd, todo, group, cancelled, code, bounds>>

Migrations == 1..MaxFiles

Record == [name: Migrations, group: Nat]

Recorded == {r.name : r \in records}

\* Mutant: the first group is taken for the last.
LastGroupFirst == IF records = {} THEN 0 ELSE Min({r.group : r \in records})

LastGroup == Max({r.group : r \in records} \cup {0})

\* The migrations of db/ that are not recorded.
Unapplied == (1..files) \ Recorded

\* The migrations of the last group.
LastApplied == {m \in 1..files : [name |-> m, group |-> LastGroup] \in records}

\* Mutant: Rollback takes its migrations in the order of Migrate.
CurrentLowest(p) == Min(todo[p])

\* Migrate goes up through todo, Rollback down.
Current(p) == IF cmd[p] = "migrate" THEN Min(todo[p]) ELSE Max(todo[p])

-----------------------------------------------------------------------------
(* What the statements do to the database.                                 *)

\* Mutant: the lock table has no unique key.
InsertLockAnyway(p) ==
    /\ inited
    /\ lock' = p
    /\ UNCHANGED <<inited, schema, records>>

\* Lock: refused when the row is there already.
InsertLock(p) ==
    /\ inited
    /\ lock = Free
    /\ lock' = p
    /\ UNCHANGED <<inited, schema, records>>

\* Unlock deletes the row, whoever inserted it.
DeleteLock ==
    /\ inited
    /\ lock' = Free
    /\ UNCHANGED <<inited, schema, records>>

\* The .tx.up.sql file: CREATE TABLE without IF NOT EXISTS, in a transaction.
CreateTables(m) ==
    /\ m \notin schema
    /\ schema' = schema \cup {m}
    /\ UNCHANGED <<inited, records, lock>>

\* The .tx.down.sql file: DROP TABLE IF EXISTS.
DropTables(m) ==
    /\ schema' = schema \ {m}
    /\ UNCHANGED <<inited, records, lock>>

MarkApplied(m, g) ==
    /\ records' = records \cup {[name |-> m, group |-> g]}
    /\ UNCHANGED <<inited, schema, lock>>

\* Mutant: the record is looked for in the next group.
MarkUnappliedNext(m, g) ==
    /\ records' = records \ {[name |-> m, group |-> g + 1]}
    /\ UNCHANGED <<inited, schema, lock>>

MarkUnapplied(m, g) ==
    /\ records' = records \ {[name |-> m, group |-> g]}
    /\ UNCHANGED <<inited, schema, lock>>

\* The statement p is at takes effect.
Effect(p) ==
    \/ pc[p] = "lock" /\ InsertLock(p)
    \/ pc[p] = "up" /\ CreateTables(Current(p))
    \/ pc[p] = "mark" /\ MarkApplied(Current(p), group[p])
    \/ pc[p] = "down" /\ DropTables(Current(p))
    \/ pc[p] = "unmark" /\ MarkUnapplied(Current(p), group[p])
    \/ pc[p] = "unlock" /\ DeleteLock

-----------------------------------------------------------------------------
Init ==
    /\ files = 0
    /\ inited = FALSE
    /\ schema = {}
    /\ records = {}
    /\ lock = Free
    /\ pc = [p \in Procs |-> "idle"]
    /\ cmd = [p \in Procs |-> "none"]
    /\ todo = [p \in Procs |-> {}]
    /\ group = [p \in Procs |-> 0]
    /\ cancelled = [p \in Procs |-> FALSE]
    /\ code = [p \in Procs |-> 0]
    /\ failures = 0
    /\ signals = 0

Idle == \A p \in Procs : pc[p] = "idle"

\* dbmigrate init: CREATE TABLE IF NOT EXISTS, both tables.
RunInit ==
    /\ inited' = TRUE
    /\ UNCHANGED <<files, schema, records, lock, pc, cmd, todo, group, cancelled, code, bounds>>

\* dbmigrate create_sql, and what the developer writes into the files.  A
\* command runs the files it was built with: files change between commands.
RunCreateSQL ==
    /\ Idle
    /\ files < MaxFiles
    /\ files' = files + 1
    /\ UNCHANGED <<database, pc, cmd, todo, group, cancelled, code, bounds>>

\* dbmigrate unlock takes no lock itself.
RunUnlock ==
    /\ CarefulOperator => Idle
    /\ DeleteLock
    /\ UNCHANGED <<files, pc, cmd, todo, group, cancelled, code, bounds>>

Start(p, c) ==
    /\ pc[p] = "idle"
    /\ pc' = [pc EXCEPT ![p] = "lock"]
    /\ cmd' = [cmd EXCEPT ![p] = c]
    /\ code' = [code EXCEPT ![p] = 0]
    /\ UNCHANGED <<files, database, todo, group, cancelled, bounds>>

\* The process ends.
Exit(p, c) ==
    /\ pc' = [pc EXCEPT ![p] = "idle"]
    /\ cmd' = [cmd EXCEPT ![p] = "none"]
    /\ todo' = [todo EXCEPT ![p] = {}]
    /\ group' = [group EXCEPT ![p] = 0]
    /\ cancelled' = [cancelled EXCEPT ![p] = FALSE]
    /\ code' = [code EXCEPT ![p] = c]

\* The command is decided; the deferred Unlock is still to come.
Return(p, c) ==
    /\ pc' = [pc EXCEPT ![p] = "unlock"]
    /\ code' = [code EXCEPT ![p] = c]
    /\ UNCHANGED <<cmd, todo, group, cancelled>>

\* p is at this statement and its context is alive.
At(p, statement) == pc[p] = statement /\ ~cancelled[p]

Lock(p) ==
    /\ At(p, "lock")
    /\ InsertLock(p)
    /\ pc' = [pc EXCEPT ![p] = "read"]
    /\ UNCHANGED <<files, cmd, todo, group, cancelled, code, bounds>>

\* Mutant: a held lock is waited for.
LockRefusedUninited(p) ==
    /\ At(p, "lock")
    /\ ~inited
    /\ Exit(p, 1)
    /\ UNCHANGED <<files, database, bounds>>

\* Mutant: the Unlock is deferred before Lock is known to have succeeded.
LockRefusedDeferred(p) ==
    /\ At(p, "lock")
    /\ ~inited \/ lock # Free
    /\ Return(p, 1)
    /\ UNCHANGED <<files, database, bounds>>

\* No Unlock is deferred: the lock is somebody else's.
LockRefused(p) ==
    /\ At(p, "lock")
    /\ ~inited \/ lock # Free
    /\ Exit(p, 1)
    /\ UNCHANGED <<files, database, bounds>>

\* Migrate and Rollback read bun_migrations and make their plan.  bun takes an
\* empty db/ for an error.
ReadNothingToDo(p) ==
    /\ At(p, "read")
    /\ (IF cmd[p] = "migrate" THEN Unapplied ELSE LastApplied) = {}
    /\ Return(p, IF files = 0 THEN 1 ELSE 0)
    /\ UNCHANGED <<files, database, bounds>>

\* Mutant: migrations are recorded before their SQL has run (bun's default).
ReadMigrationsMarkFirst(p) ==
    /\ At(p, "read")
    /\ cmd[p] = "migrate"
    /\ Unapplied # {}
    /\ todo' = [todo EXCEPT ![p] = Unapplied]
    /\ group' = [group EXCEPT ![p] = LastGroup + 1]
    /\ pc' = [pc EXCEPT ![p] = "mark"]
    /\ UNCHANGED <<files, database, cmd, cancelled, code, bounds>>

ReadMigrations(p) ==
    /\ At(p, "read")
    /\ IF cmd[p] = "migrate"
         THEN /\ Unapplied # {}
              /\ todo' = [todo EXCEPT ![p] = Unapplied]
              /\ group' = [group EXCEPT ![p] = LastGroup + 1]
              /\ pc' = [pc EXCEPT ![p] = "up"]
         ELSE /\ LastApplied # {}
              /\ todo' = [todo EXCEPT ![p] = LastApplied]
              /\ group' = [group EXCEPT ![p] = LastGroup]
              /\ pc' = [pc EXCEPT ![p] = "down"]
    /\ UNCHANGED <<files, database, cmd, cancelled, code, bounds>>

\* Mutant: the loop does not end.
AdvanceOn(p, more) ==
    /\ todo' = [todo EXCEPT ![p] = @ \ {Current(p)}]
    /\ pc' = [pc EXCEPT ![p] = more]
    /\ UNCHANGED <<files, cmd, group, cancelled, code, bounds>>

\* The current migration is done.
Advance(p, more) ==
    /\ todo' = [todo EXCEPT ![p] = @ \ {Current(p)}]
    /\ pc' = [pc EXCEPT ![p] = IF todo'[p] = {} THEN "unlock" ELSE more]
    /\ UNCHANGED <<files, cmd, group, cancelled, code, bounds>>

Up(p) ==
    /\ At(p, "up")
    /\ CreateTables(Current(p))
    /\ pc' = [pc EXCEPT ![p] = "mark"]
    /\ UNCHANGED <<files, cmd, todo, group, cancelled, code, bounds>>

\* The tables are there already.
UpRefused(p) ==
    /\ At(p, "up")
    /\ Current(p) \in schema
    /\ Return(p, 1)
    /\ UNCHANGED <<files, database, bounds>>

Mark(p) ==
    /\ At(p, "mark")
    /\ MarkApplied(Current(p), group[p])
    /\ Advance(p, "up")

Down(p) ==
    /\ At(p, "down")
    /\ DropTables(Current(p))
    /\ pc' = [pc EXCEPT ![p] = "unmark"]
    /\ UNCHANGED <<files, cmd, todo, group, cancelled, code, bounds>>

Unmark(p) ==
    /\ At(p, "unmark")
    /\ MarkUnapplied(Current(p), group[p])
    /\ Advance(p, "down")

Unlock(p) ==
    /\ At(p, "unlock")
    /\ DeleteLock
    /\ Exit(p, code[p])
    /\ UNCHANGED <<files, bounds>>

\* Mutant: the error of a migration is not reported.
FailUnreported(p) ==
    CASE pc[p] = "lock"   -> Exit(p, 1)
      [] pc[p] = "unlock" -> Exit(p, code[p])
      [] OTHER            -> Return(p, 0)

\* What follows a failed statement: without the lock, the process ends; in the
\* deferred Unlock the error is only printed; else the command has failed.
Fail(p) ==
    CASE pc[p] = "lock"   -> Exit(p, 1)
      [] pc[p] = "unlock" -> Exit(p, code[p])
      [] OTHER            -> Return(p, 1)

\* Every statement on a cancelled context fails at once.
ContextDone(p) ==
    /\ pc[p] # "idle"
    /\ cancelled[p]
    /\ Fail(p)
    /\ UNCHANGED <<files, database, bounds>>

\* The statement fails, or (stored) it took effect and its answer is lost.
StatementFails(p, stored) ==
    /\ pc[p] # "idle"
    /\ failures < MaxFailures
    /\ failures' = failures + 1
    /\ IF stored THEN Effect(p) ELSE UNCHANGED database
    /\ Fail(p)
    /\ UNCHANGED <<files, signals>>

Signal(p) ==
    /\ pc[p] # "idle"
    /\ ~cancelled[p]
    /\ signals < MaxSignals
    /\ signals' = signals + 1
    /\ cancelled' = [cancelled EXCEPT ![p] = TRUE]
    /\ UNCHANGED <<files, database, pc, cmd, todo, group, code, failures>>

\* SIGKILL, a crash of the machine: nothing deferred runs.
Kill(p) ==
    /\ pc[p] # "idle"
    /\ failures < MaxFailures
    /\ failures' = failures + 1
    /\ Exit(p, 137)
    /\ UNCHANGED <<files, database, signals>>

\* What a process does on its own.
Proceed(p) ==
    \/ Lock(p) \/ LockRefused(p)
    \/ ReadNothingToDo(p) \/ ReadMigrations(p)
    \/ Up(p) \/ UpRefused(p) \/ Mark(p)
    \/ Down(p) \/ Unmark(p)
    \/ Unlock(p)
    \/ ContextDone(p)

Next ==
    \/ RunInit \/ RunCreateSQL \/ RunUnlock
    \/ \E p \in Procs :
          \/ \E c \in {"migrate", "rollback"} : Start(p, c)
          \/ Proceed(p)
          \/ \E stored \in BOOLEAN : StatementFails(p, stored)
          \/ Signal(p)
          \/ Kill(p)

Spec == Init /\ [][Next]_vars

\* A running process is scheduled and its statements are answered.
FairSpec == Spec /\ \A p \in Procs : WF_vars(Proceed(p))

-----------------------------------------------------------------------------
(* Properties                                                              *)

\* The statements that only the process that has the lock may be at.
Critical == {"read", "up", "mark", "down", "unmark", "unlock"}

\* Every variable has its type, and a process at work on migrations always
\* has one left to work on.
TypeOK ==
    /\ files \in 0..MaxFiles
    /\ inited \in BOOLEAN
    /\ schema \subseteq Migrations
    /\ records \subseteq Record
    /\ lock \in Procs \cup {Free}
    /\ pc \in [Procs -> Critical \cup {"idle", "lock"}]
    /\ cmd \in [Procs -> {"none", "migrate", "rollback"}]
    /\ todo \in [Procs -> SUBSET Migrations]
    /\ group \in [Procs -> Nat]
    /\ cancelled \in [Procs -> BOOLEAN]
    /\ code \in [Procs -> {0, 1, 137}]
    /\ failures \in Nat
    /\ signals \in Nat
    /\ \A p \in Procs : pc[p] \in {"up", "mark", "down", "unmark"} => todo[p] # {}

\* Between its Lock and its Unlock a process is alone, whatever fails or is
\* killed, as long as unlock is not run under a running command.
MutualExclusion ==
    \A p, q \in Procs : pc[p] \in Critical /\ pc[q] \in Critical => p = q

\* However migrations and rollbacks are interrupted, bun_migrations records the
\* first migrations of db/, each once, and in groups that follow their order:
\* Rollback's "last group" is what the last successful steps applied.
RecordsInOrder ==
    /\ \A m, n \in 1..files : n \in Recorded /\ m < n => m \in Recorded
    /\ \A r, s \in records : /\ r.name <= s.name => r.group <= s.group
                             /\ r.name = s.name => r = s

\* Tables and records differ only by what a process is in the middle of and by
\* one migration per interruption: nothing else loses track of a migration.
Drift == (schema \ Recorded) \cup (Recorded \ schema)
DriftBounded ==
    Cardinality(Drift) <=
        failures + signals + Cardinality({p \in Procs : pc[p] \in {"mark", "unmark"}})

\* A migration is only recorded as applied when its tables exist
\* (db/migrate.go: WithMarkAppliedOnSuccess, no false records).
RecordedOnlyWhenBuilt ==
    [][\A r \in records' \ records : r.name \in schema']_vars

\* A rollback only ever takes migrations of the last group out of the records,
\* the latest first.
RollsBackLastGroup ==
    [][\A r \in records \ records' :
          \A s \in records : s.group <= r.group /\ s.name <= r.name]_vars

\* A migrate that exits with 0 has every migration of db/ recorded.  (It does
\* not look at the tables: see DriftBounded for how far the two may differ.)
ExitZeroMeansApplied ==
    [][\A p \in Procs :
          cmd[p] = "migrate" /\ pc[p] = "unlock" /\ pc'[p] = "idle" /\ code'[p] = 0
              => Unapplied = {}]_vars

\* The Unlock deferred by a command deletes the row of that very command.
ReleasesOwnLock ==
    [][\A p \in Procs :
          pc[p] = "unlock" /\ pc'[p] = "idle" /\ lock' # lock => lock = p]_vars

\* A command that got the lock and returns, with success or with an error, has
\* released it: the Unlock is deferred.
ReturnReleases ==
    [][\A p \in Procs :
          pc[p] = "unlock" /\ pc'[p] = "idle" /\ lock = p => lock' = Free]_vars

\* Every command ends: no process waits for a lock that nobody will release.
CommandsEnd == \A p \in Procs : pc[p] # "idle" ~> pc[p] = "idle"
===============================================================================
