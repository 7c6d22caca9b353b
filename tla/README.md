# Formal models of chuchu2

chuchu2 is a property-management service written in Go: an HTTP API over
Postgres for rental properties, a LINE webhook that keeps track of who follows
the official account, and a command that migrates the database. This directory
holds TLA+ modules of its moving parts, TLC configurations that model-check
them, and theorems about them that TLAPS checks.

    tlc -workers 2 -config property.cfg MCPropertyService
    tlapm PropertyServiceProofs.tla

Paths below are relative to the repository, line numbers to the commit the
models were written from. `PROJECT.json` maps every definition to the lines it
stands for, and lists runs, hazards, findings and theorems.

## 1. The system

| Component | Where | State it keeps | Operations | Module |
|---|---|---|---|---|
| property | `internal/property`, `.../httpapi`, `.../pgrepo` | the `properties` table (unique index on the address) | create, get, list, PATCH, change status | `PropertyService` and `PropertyList` over `PropertyTable`, `PropertyAmounts` |
| line | `internal/line`, `.../webhookhttp`, `.../pgrepo` | the `line_users` table | one webhook: a batch of events | `LineWebhook` over `LineStatus` |
| dbmigrate | `cmd/dbmigrate`, `db/` | `bun_migrations`, `bun_migration_locks`, the schema | init, migrate, rollback, status, unlock, create_sql | `DbMigrate` |
| api process | `cmd/api`, `internal/server/run.go` | listener, pools, `serveErrCh` | start, graceful shutdown | `ApiServer` |
| HTTP pipeline | `internal/server/router.go`, `internal/httpx`, `internal/apihttp`, `internal/apperr`, `api/api.gen.go` | per request: recorder, guard, headers; shared: the error sentinels | answer a request | `HttpPipeline` |
| health check | `internal/health` | a channel and a WaitGroup per call | check | `HealthCheck` |
| configuration, wiring, logging, clients, test support | `internal/config`, `internal/app`, `internal/platform`, `internal/testsupport` | none that changes | read once, or forward | not modelled (section 8) |

**How they interact.** `cmd/api` opens two pools, builds the handler and calls
`server.Run`. Each request runs through RequestID, access log, EnsureJSONError
and Recoverer, is routed to generated code that binds and decodes, and then to
a handler: `httpapi` → `property.Service` → `pgrepo`, or `health.API`, or (not
generated) `webhookhttp` → `line.Service` → `pgrepo`. Handlers are goroutines:
they share nothing in memory but the pools and the `apperr` sentinels, and
everything else through the database, one autocommitted statement at a time.
There is no transaction anywhere in `internal/`. `cmd/dbmigrate` is another
process, which shares only the database.

**What is hard.**

- property: PATCH and status change read a row, decide on it in memory and then
  overwrite *every* column of it in a second statement, so two requests on one
  property race. The address is protected only by the unique index. A statement
  may take effect and its answer be lost. A list is two statements, a reading of
  many pages is many requests, and others write in between; the offset is
  computed in an int that a client's page number can overflow. Amounts go
  through a string, a decimal, a NUMERIC column with two places and a string
  again, and a write answers without reading the row back.
- line: LINE redelivers until it sees a 200, deliveries overlap and arrive out
  of order, and a batch may fail half way with its first events stored.
- dbmigrate: the SQL of a migration and its record are separate transactions;
  the lock is a row without an owner, deleted by a deferred call; a signal
  cancels the context that this deferred call uses as well.
- api process: signal, failing listener, shutdown time limit and slow handlers
  may come in any order, and the pools are closed afterwards in any case.
- HTTP pipeline: an error response can come from six places, some after part of
  a response has been written; all requests derive errors from shared values.
- health check: a channel that is only read after all senders are done.

**What makes each correct.**

- property: no address twice; at most one 201 per address, whatever is retried;
  transitions along the table in `status.go`; PATCH touches neither the status
  nor fields it does not name; `updated_at` moves forward. A list answers with
  the page that was asked for, and going through the pages misses no row. What
  a write answers is what is stored, also when the answer is lost on its way,
  and can be sent back.
- line: what was answered 200 is in the table; an old event never overwrites a
  newer one; in the end the table shows everybody's newest event.
- dbmigrate: one command at a time; records in order and never for a migration
  that did not run; exit code 0 means that every migration of `db/` is recorded
  (a rollback stopped between dropping a table and its record leaves a record
  without a table, which migrate does not see); the lock is released by the
  command that took it.
- api process: a signal ends it, exit code 0 means every accepted request was
  answered.
- HTTP pipeline: every error response is the unified JSON, carries its own
  request's id, cause and details, nothing internal, and is logged as sent.
- health check: the report comes, is complete and is right.

## 2. Modules

| Module | Content |
|---|---|
| `PropertyTable` | abstract specification of the table: rows appear with new ids and free addresses, change without changing id, address or creation time, and stay |
| `PropertyService` | the handlers, statement by statement; implements `PropertyTable` |
| `PropertyServiceProofs` | theorems |
| `PropertyList`, `PropertyListProofs` | the list: parameters, offset, its two statements, a reader going through the pages while others write what `PropertyTable` allows; theorems |
| `PropertyAmounts`, `PropertyAmountsProofs` | validation, parsing, rounding and formatting of numbers; theorems |
| `LineStatus` | abstract specification: each user's status only moves on to later event times |
| `LineWebhook` | deliveries, handlers and the upsert; implements `LineStatus` |
| `LineWebhookProofs` | theorems |
| `DbMigrate`, `DbMigrateProofs` | processes that migrate and roll back one database; theorems |
| `ApiServer`, `ApiServerProofs` | main goroutine, `ListenAndServe` goroutine, requests, pools; theorems |
| `HttpPipeline`, `HttpPipelineProofs` | the ways to answer a request, down to what is sent; theorems |
| `HealthCheck`, `HealthCheckProofs` | `Service.Check`; theorems |
| `MCPropertyService`, `MCPropertyList`, `MCPropertyAmounts`, `MCLineWebhook`, `MCHttpPipeline` | constants, symmetry and view for TLC, nothing else; the other modules need none |

Definitions that a comment calls *Mutant* are not part of the models: each is
a plausible mistake in the definition below it, which a property of the module
must reveal (`PROJECT.json`, `mutants`). No specification reaches them.

### PropertyService

`rows` is the table, a function from ids to rows. A row has the address (one
value for the five columns of the index), one patchable amount (`fee`, for
rent, fee, deposit, layout), one other patchable field (`contact`), the status
and the two times. `ZeroAmount` is the default of an empty fee. Inputs that
tell the code's branches apart are kept: absent, empty, blank (which passes the
validation of a PATCH and then fails to parse) and malformed.

Each client has one request at a time. `pc` is the statement its handler is at:

- `BeginCreate` takes id and times and validates; `InsertRow`/`InsertDuplicate`
  is the INSERT, which the PRIMARY KEY or the unique index may refuse
  (`UniqueViolation`);
- `BeginGet`/`BeginUpdate`/`BeginChangeStatus`, then the SELECT
  (`ReadMissing`, `ReadAnswer`, `ReadRow`, which fills `copy`);
- `Apply`/`ApplyRefused`: the check against the copy, and `time.Now()` into
  `stamp`, at `update.go:111` and `:137`;
- `WriteRow`: the UPDATE of all columns, `NewRow` computed from the copy.

`InsertRow` and `WriteRow` have an `answered` flag: FALSE is a statement that
takes effect while the client gets an error. `StatementFails` is one without
effect, `Crash` ends every handler and keeps the table. `created` records which
creations were answered 201; the code has no such variable, only the clients
know.

The clock never goes back (`time.Now()` may, after a clock adjustment; the properties
about times assume it does not). Nothing deletes a row: there is no
DELETE in the code.

### PropertyList

`BeginReading` is a request for any page with any parameters: `ToListFilter`
drops a status that is none, `NormalPage` and `NormalSize` are
`ListFilter.normalize`, and `Offset` is the product in an int of `IntBits`
bits, which wraps around. `IntBits` stands for the narrowest integer on the way
to the database. bun's ScanAndCount runs the query of the page (`Scan`) and of
the count (`Count`) as two statements at the same time, so they are two actions
in either order, and the request is answered with both. A negative offset is
refused or ignored; both are modelled, since what bun and Postgres make of it is
external. After a full page the reader may ask for the next one (`NextPage`).
`read` is what it has read so far, and `base` what matched when it began; only
the properties look at `base`, and `quiet`.

The other requests are not those of `PropertyService` but whatever
`PropertyTable` allows: an `Insert` with any creation time (the time is taken
before the INSERT, so a row may appear below rows that are already there) and a
`Replace` of the status. As the handlers are shown to implement `PropertyTable`,
what holds here holds with them. `city` stands for the filters on columns that
never change (`rental_mode` is another), `status` for the one on a column that
does. Rows may tie in `created_at`, and `Orders` is the set of orders that
ORDER BY leaves open: with `id` as a second key there is one.

### PropertyAmounts

A decimal is a number of thousandths, a column's or a formatted value one of
hundredths. `validatePositiveDecimal` and `validateNonNegativeDecimal` have
the code's names; `Parses` is apart from them because a blank fee is valid and
does not parse, although the comment at `create.go:107` says that cannot be.
`Save` is the INSERT or UPDATE: the columns round (`ToColumn`) or refuse
(`ColumnsTake`), and the answer is formatted from memory, not from the row. An
error may come of a statement that was not carried out or of one whose answer
was lost; then the row is new, the client still has the old `answer`, and
`unanswered` keeps what it would have been told.
`StringFixed` and NUMERIC both round a half away from zero. Requests do not
overlap here.

### LineWebhook

`Content` gives the events of each batch, of any kind and source. `Deliver`
starts a handler on a batch at any time, also on one that another handler has
or that was acknowledged. `Skip` is `toDomainEvents` leaving an event out,
`Stamp` and `Upsert` the two halves of an iteration of `Service.Handle`,
`Upserted` the single SQL statement with its WHERE. `UpsertFails` ends the
handler with a 500 (again with or without effect), `AnswerLost` is a 200 that
LINE does not see. `acked` is what LINE has seen.

### DbMigrate

The database is `inited`, `schema` (the migrations whose tables exist),
`records` (bun_migrations, with groups) and `lock`. The row in
bun_migration_locks has no owner; that `lock` holds the inserting process is
the model's knowledge, used by properties only. `pc` walks through Lock, the
read of the records, `up`/`mark` or `down`/`unmark` per migration, and the
deferred Unlock. bun's own loops are third-party code, modelled from how
`main.go` and `db/migrate.go` use them (in particular
`WithMarkAppliedOnSuccess(true)`). A statement may fail with or without effect,
`Signal` cancels the context of everything that follows, the deferred Unlock
included, and `Kill` runs nothing deferred. `CarefulOperator` says whether
`unlock` is only run while no command is running; the runs and the theorems are
about TRUE, and section 4 says what happens otherwise. The files in `db/` change only while no command runs. Migrations are taken to
create tables that are not there (CREATE TABLE without IF NOT EXISTS) and to
drop them with IF EXISTS, as the two in `db/` do.

### ApiServer

`main` walks through `run` and `server.Run`: `select` is the select statement,
`drain` is inside `srv.Shutdown`, `await` the receive after it, then the
deferred Close calls. `acceptor` is the goroutine, up to its send on
`serveErrCh`, which has room for one message. net/http is modelled from its
documented behaviour: `ListenAndServe` returns ErrServerClosed as soon as
Shutdown has been called, also if it had not started listening; `Shutdown`
returns nil when the listener has been given up and no request is running, and
an error once its context is done. A request may end whenever it likes, or
never. `broken` records that listening or accepting has failed, for the
properties.

### HttpPipeline

`writer` holds, per request, what the chain of response writers remembers (the
guard's two flags, the recorder's status) and what net/http sends: status,
content type and the pieces of the body. `outcome` is what routing and handler
come to, a choice of `Unrouted` (chi's own plain-text 404, or 405), `Refused`
(the hooks of `internal/apihttp` for parameters and bodies, and the webhook's
two refusals), `HandlerFails` (an `apperr` error or a driver's),
`HandlerSucceeds`, `WebhookSucceeds` and `Panics`. Errors live in a heap, one
cell per sentinel and one per request, so that a `With*` that modified its
receiver would reach the sentinels all requests share. When a client has gone
away, writing a response may fail, and an error response is written after it.
`HandlerError` tells the three ways to build an `apperr` error apart:
`apperr.Validation` has details, `apperr.Wrap` (`create.go:121`,
`update.go:88`: a blank fee, which is valid and does not parse) has a message
and a cause but no details, `apperr.New` has neither. The branches for a nil
body in `property/httpapi` (lines 50, 94, 123) are left out: `strictHandler`
sets `request.Body` before every call (`api.gen.go:1228`), so they are never
taken.

### HealthCheck

The caller's loop, the goroutines with their `wg.Done`, the channel and the
range over it. `PingAnswers` is the dependency's answer or refusal, which may
never come, `PingTimesOut` the end of `checkTimeout`.

## 3. Runs

All runs end with "no error", except the ones marked ✗, where TLC finds the
behaviour described in section 4.

| Run | Bounds | Question |
|---|---|---|
| `property` | 2 clients, 2 ids, 2 addresses, 2 fees, 1 contact, clock 0..1; two rows only as long as `TwoRowsAreSmall` | is an address ever stored or acknowledged twice, do the handlers implement `PropertyTable`, do copies keep matching rows, what exactly may a write do to its row and to others (`WriteExact`) |
| `overlap_patch_keeps_absent_fields` ✗ | 2 clients, 1 id | does the promise about fields a PATCH does not name hold when requests overlap |
| `overlap_status_moves_legal` ✗ | 2 clients, 1 id, clock 0 | does the stored status only make the moves of the table |
| `property_list` | 3 ids, 3 addresses in 2 cities, creation times 0..1, 2 statuses set, pages up to 4 rows, 4-bit ints | is an answer exact while nothing is written, does a reading of all pages skip or repeat rows |
| `list_total_covers_page` ✗ | the same, 2 ids | does the total belong to the page |
| `property_amounts` | 10 decimals around every half and both ends of the columns, 4 numbers of months | is what a write answers what a GET would, can an unchanged form be sent back, with refused, failed and lost writes in between |
| `line` | 3 batches, 2 users, 2 handlers, 2 failures, clock 0..1 | is what was acknowledged in the table, does the table only move on (refinement of `LineStatus`) and converge |
| `migrate` | 2 processes, 3 migrations, 2 failures, 1 signal | exclusion, order of records, drift, exit code, ownership of the lock; does every command end, also against a lock left behind |
| `migrate_signal` ✗ | 1 signal, no failure | does a command that returns release its lock |
| `server` | 3 requests that may never end | what exit code 0 and 1 say about the requests; does a signal, or a failing listener, end the process |
| `http_pipeline` | 3 requests | is every error the unified one, the request's own, and logged as sent |
| `health_check` | 3 checkers | no send after close, the report is right and comes, also when no dependency answers |

**Why the bounds are enough.** Every race of the property component is between
two handlers on one row, or two creations of one address; a third handler only
repeats a role, since handlers share nothing but rows. Two clock values suffice
to tell an earlier time from a later one. `TwoRowsAreSmall`, a constraint of
`property`, follows behaviours in which two rows are stored only while the clock
is 0 and the fees are `ZeroAmount`: with a second row the questions are about
ids, addresses, statuses and whose row is written, and fees and times are
followed in full on a single row. The contact is another field of the fee's
shape, and has one value there. The theorems of section 6 about the same
properties have neither the constraint nor the bounds. The batches of `line` are chosen so
that one user's follow, unfollow and second follow come in three batches that
may be handled in any order, another user's events come in the wrong order, an
event is reached only after one of another user is stored (so a batch can be
stored half), and events of other types and of groups lie in between; two
handlers suffice for a redelivery to overlap the first delivery or another
batch, since a handler touches the table in single statements only. In
`property_list` three rows make two pages of two, or three of one, with a row
coming in before, between or after them; four bits and pages of four have the
overflows of 64 bits and pages of 100: to a negative offset, and, (5 - 1) * 4
being 2^4 as 2^62 * 100 is a multiple of 2^64, to the offset of another page.
One reading is enough since a reading leaves nothing behind. The decimals of
`property_amounts` include both sides of every half up to the first number
that a column refuses after rounding. In
`migrate` three migrations allow a group of two after a group of one, an interrupted group and a rollback
of it, and two failures an interruption of the repair of an interruption. The
invariants marked in section 6 are proved without any bound.

Bounds: `MaxClock`, `MaxFailures`, `MaxFiles`, `MaxSignals` stand in guards of
`Tick`, the failing actions, `RunCreateSQL` and `Signal`; `MaxTime` and
`SetStatuses` bound what is written in `PropertyList`; sets of processes,
clients, requests and checkers are finite by the configurations. Symmetry is
used in the runs of `PropertyService` and `PropertyList` and in
`http_pipeline`, which check no liveness, on sets whose members no definition names. The view
`WithoutReply` leaves out the last answer of a handler, which no guard reads.

`CHECK_DEADLOCK FALSE` is given where the system ends: the process exits, each
request is answered once, `Check` returns.

## 4. What the failing runs show

Each checks one sentence of the repository, and each is a real behaviour of
the code under the stated interleaving.

- `overlap_patch_keeps_absent_fields`: a PATCH that read the row before another
  PATCH, or a status change, restores what that one changed.
  `api/openapi.yaml:223` says fields not in the body are not changed, and
  `update.go:18` that PATCH never gets round the state machine.
- `overlap_status_moves_legal`: two status changes both read VACANT and both
  pass the check; one stores OCCUPIED, then the other DELISTED (or a PATCH
  writes back a status that has moved on). `update.go:121-122` says the check
  before the write makes sure that an illegal move never reaches the database,
  `status.go:7-8` that nothing is delisted while it has a tenant.
- `list_total_covers_page`: the count runs, a row is created, the page is read:
  it has a row more than the total. `pgrepo.go:154` says page and total come
  from one query, and `api/openapi.yaml:110` that the total is the number of
  rows before paging.
- `migrate_signal`: SIGTERM during a migration; the deferred Unlock runs on the
  cancelled context, fails and is only printed. `plan/PLAN-002:364` says the
  lock is released also when the migration fails. The next command fails until
  somebody runs `unlock`.

`WriteExact`, checked in `property` and proved, is the other side of the first
two: a write always stores what its request asked for, in its own row, and
touches no other row, no address and no creation time; and a column that is
still as the handler read it is changed as asked or not at all. So whatever
overlapping requests damage is in columns that somebody wrote between a
handler's read and its write, and when requests do not overlap the promises
hold.

Other places where code and text disagree, or that a reader should know of,
which have no run of their own:

- The handler that writes last may have taken its time first, so `updated_at`
  goes back; `update.go:62` promises a strictly later time. (With a copy that
  is current it does not go back: `WriteExact`.)
- `unlock` under a running command, then a new command: the first one's
  deferred Unlock deletes the second one's row, which `main.go:140` means to
  avoid. The lock has no owner.
- The WHERE clause of the LINE upsert lets an equal event time through, and
  `updated_at` is in its SET list, so a redelivered event changes `updated_at`
  of its row, which `knowledge/gotchas/bun-upsert-on-conflict-alias-trap.md:13`
  calls idempotent. The row does not move back in event time, keeps its creation
  time and is still what one event says (`RowsOnlyMoveOn`, `RowsComeFromEvents`);
  if two events of a user have one time, which of them the row shows is open.
  `StatusSpec` is about distinct times.
- A rent of 0.001 passes "必須大於 0" and is stored as 0.00; sending that back
  is refused (`SendingBackRestores` says so exactly).
- A page number whose offset is not an int is answered with INTERNAL or with
  the rows of another page; `QuietAnswerExact` holds up to there (`InRange`).
- With a status filter a reading may skip rows, because others leave the filter
  between its requests. No text promises otherwise, and `NothingSkipped` is
  about filters on columns that never change.

## 5. Fairness

The specification without fairness, `Spec`, is used in all runs that check no
liveness. The others use `FairSpec`:

- `LineWebhook`: weak fairness of each handler's own steps (the runtime
  schedules goroutines, and a statement is answered or fails), strong fairness
  of delivering a batch that is not acknowledged (LINE keeps redelivering;
  strong because handlers may be busy in between). Failures are finite.
- `DbMigrate`: weak fairness of a process's own steps. None of operator,
  signals and failures.
- `ApiServer`: weak fairness of the main goroutine, of the acceptor except for
  failures, and of the time limit. None of handlers, which may never end, and
  none of signals.
- `HealthCheck`: weak fairness of the caller and of what each goroutine does
  without its dependency: `PingTimesOut` (a timer goes off), `Send`, `Done`.
  None of `PingAnswers`.

## 6. Proofs

tlapm proves the following for every value of the constants that satisfies the
modules' assumptions (sentinels are not elements of the sets they are kept
apart from; bounds are natural numbers).

**PropertyServiceProofs.** The inductive invariant joins `TypeOK` with what a
handler knows at its step: a creation in flight holds an id no row and no other
creation has, and times not after the clock; a handler past its read holds a
copy of a row that is still there, with the same address and creation time
(`CopyMatchesRow`), and its stamp lies between the copy's update time and the
clock. `AddressUnique` is not inductive without it: `WriteRow` writes an
address from a copy, and only `CopyMatchesRow` says that it is the address that
row has anyway. From it: `TypeCorrect`, `AddressesUnique`, `TimestampsInOrder`,
`CreatedOnce`, `CopiesMatch`, `WritesExact` and `ImplementsTable`, the
refinement of `PropertyTable`. `WritesExact` needs the invariant twice: that the
row is still there with the copy's address and creation time, and that the
stamp is not before the copy's update time.

**PropertyAmountsProofs.** For all numbers, column ranges and months. The
invariant says that a stored row has numbers that are not negative and that its
columns can hold (`RowOK`), that the client's last answer is made of such
numbers too and has the area of the row, which no PATCH changes (`AnswerOK`), and
that a GET would give the answer of the last write that took effect. The last is
kept because a number with two places is rounded to itself (`RoundExact`), so
rounding in the column and then formatting is formatting; `AnswerOK` is needed
because after a lost answer the row no longer says anything about what the
client would send back. From it: `AnswersStored` and `SendingBackIsSafe`.

**LineWebhookProofs.** The invariant adds to `TypeOK` that a handler at
position `p` of its batch has all relevant events before `p` reflected in the
table, and that every row comes from an event. Both survive other handlers'
statements because a row's event time never decreases. From it: `AckedKept`,
`RowsAreEvents`, `AckedConverged`, `RowsMoveOn`, and, assuming that two events
of a user with one time have one type, `ImplementsStatus`.

**PropertyListProofs.** For any finite table, page size and width of an int.
The argument is about ranks, a row's position in the whole list (`RankIn`).
They are distinct, and the order of the query puts each row at its rank
(`DistinctLemma`, `OrderLemma`), so a page holds the rows of its positions
(`PageLemma`). A row that comes in moves every other row back by one place or
leaves it, and none forward (`CreatedLemma`); with a filter on columns that
never change a row that is changed keeps its place (`ChangedLemma`). The
inductive invariant joins to the types:

- `SkippedOK`: in a reading from the first page on, a row that was there at the
  beginning has been seen, or its rank is beyond the pages so far and there are
  pages to come. Ranks never fall, so no write can break this;
- `RepeatsOK`: repetitions so far, and the seen rows that have been pushed
  beyond the pages so far and will be seen again, are together no more than the
  rows that came in. `RepeatsAreShifts` is not inductive alone: a write between
  two pages makes a repetition that only the next page shows;
- `QuietOK`: between the two statements of an answer, what the first one found
  is what the table still says, unless something was written.

From it: `Typing`, `NothingIsSkipped`, `RepeatsAreBounded` and `QuietIsExact`.
Two assumptions of `PropertyList` are there for the proofs: that the table has
fewer rows than an int counts, and that powers of two double (`WidthAssumption`),
as they are opaque to the provers; TLC evaluates both.

**DbMigrateProofs.** `Typing` holds whatever the operator does. The rest
supposes a careful operator, one who runs `unlock` only while no command is
running. The first invariant: a process in its critical section is the one in
`lock`, which gives `Exclusion` and `UnlocksOwn`; and the migration at `mark`
has its tables, which no other process can have dropped because of exclusion:
`NoFalseRecord`. The second, `RInv`, builds on it and relates a plan to the
records it was read from: what a migrate has to do is what is not recorded, in a
group that is the last; what a rollback has to do is the rest of its group, and
that is the last; after a migrate with exit code 0 nothing is left (`PlanFor`).
It survives the other processes' steps since nobody else changes tables or
records, and the process's own since it takes the least, or the greatest,
migration of its plan (`MinLemma`, `MaxLemma`). `DriftOK` counts the migrations
whose tables and record disagree: each is paid for by an interruption, or by
the one process that is between the two statements. From it:
`RecordsFollowFiles`, `DriftIsBounded`, `RollbackTakesLast`, `ExitZeroIsTrue`.

**ApiServerProofs.** For any set of requests. The invariant follows the one
message: the goroutine sends exactly once, so `serveErrCh` holds at most one
and is empty while the goroutine is alive (`ChannelOK`); an error message means
a broken listener, and nil only follows Shutdown (`MessagesOK`); the pools are
open until Run has returned (`MainOK`); and a nil result means the goroutine is
done and nothing runs (`ResultOK`). From it: `TypeCorrect`, `CleanStop`,
`CutOffTold`, `ErrorExplained`.

**HttpPipelineProofs.** For any set of requests at once. The invariant has two
parts. Nobody changes a sentinel (`SentinelsOK`): `WithDetails` and its like
write to a copy, and a request only ever derives from a sentinel or from its
own copy. And per request (`RequestOK`), from step to step: what its outcome
is, that the error in hand is its own and says what the outcome is (`Own`), and
what its response is made of by then (`ResponseOK`): which writer was used, that
the status in the log is the one sent, and which bodies were written. From it:
`Typing`, `LogIsTrue`, `OneErrorFormat`, `ErrorsAreOwn`.

**HealthCheckProofs.** For any finite set of checkers. `wg` is the number of
goroutines that are counted and not over (`WaitGroupOK`), so when `Wait`
returns all are over (`CallerOK`); each result is in the channel or in the
report and in one of them only (`ResultsOK`), and is that of the goroutine's
own ping. From it: `Typing`, `CloseIsSafe`, `ReportIsExact`, and
`SendNeverWaits`: the channel always has room for a result, by counting those
that have sent.

TLC checked the inductive invariants of `PropertyList`, `DbMigrate`,
`HttpPipeline` and `HealthCheck` on the bounds of section 3 before they were
proved. A leaf that names a prover and a time (`ZenonT(60)`, `SMTT(30)`) takes
that prover some seconds.

## 7. What is only model-checked

Liveness (`EventuallyConverged`, `CommandsEnd`, `StopEndsProcess`,
`ReportComes`) is out of the prover's reach. Every invariant, action property
and refinement that a passing run checks is proved; those of `DbMigrate` under
`CarefulOperator`, which the run has too.

Three theorems have no run: `AckedConverged` (when every batch is acknowledged
the table shows every user's newest event), which `AckedReflected` implies,
`CutOffTold` (no pool is closed under a request without an error result), which
is the other side of `NilMeansDrained`, and `SendNeverWaits`.

## 8. What is not modelled, and why

- `internal/config` runs once before anything else; its failure is an action of
  `ApiServer`. `internal/app` only constructs. Logging has no effect on the
  rest. The Postgres and Redis drivers and pools are third-party; Redis is only
  pinged.
- The generated types and the embedded OpenAPI document are data.
- Signature check and JSON decoding of the webhook are the LINE SDK's; their
  outcomes (401, 400) are.
- `dbmigrate status` only reads.

## 9. Plan

Done, in this order: `PropertyTable`/`PropertyService` (the data everything
else is about), `LineStatus`/`LineWebhook`, `DbMigrate`, `ApiServer`,
`HttpPipeline`, `HealthCheck`, `PropertyList`, `PropertyAmounts`, and the
proofs of section 6.

Next:

1. Composition: the handlers of `PropertyService` and `LineWebhook` inside
   `ApiServer`'s life cycle, to state what a client may conclude from a reset
   connection during shutdown.
2. Proofs: what is left of `DbMigrate` without a careful operator. `unlock`
   under a running command breaks exclusion, but not that every record is of a
   migration in `db/`.
