--------------------------- MODULE PropertyService ---------------------------
(***************************************************************************)
(* The property component: HTTP handler, service and Postgres repository.  *)
(* A handler that changes a property reads the whole row with GetByID,     *)
(* changes its copy, stamps it with time.Now() and writes all columns back *)
(* with a second statement; no transaction, lock or version joins the two, *)
(* so the steps of concurrent handlers interleave.  A statement may fail   *)
(* before it takes effect or after (the answer is lost), and the process   *)
(* may stop at any point.                                                  *)
(***************************************************************************)
EXTENDS Integers

CONSTANTS
    Clients,      \* concurrent request handlers
    Ids,          \* property ids (UUIDs)
    Addresses,    \* values of the five columns of properties_address_key
    Amounts,      \* management fees, standing for every validated column
    ZeroAmount,   \* the fee of a request that leaves it empty
    Contacts,     \* landlord contacts, standing for every free-text column
    MaxClock      \* bound on the clock

\* What a management_fee string can be besides an amount.
Empty     == "empty"       \* "": not given, ZeroAmount is used
Blank     == "blank"       \* "  ": passes Validate, does not parse
Malformed == "malformed"   \* fails Validate
Absent    == "absent"      \* PATCH: the field is not in the body

ASSUME MaxClockAssumption == MaxClock \in Nat
ASSUME AmountsAssumption ==
    /\ ZeroAmount \in Amounts
    /\ {Empty, Blank, Malformed, Absent} \cap Amounts = {}
    /\ Absent \notin Contacts

VARIABLES
    rows,      \* the properties table
    clock,     \* what time.Now() returns
    pc,        \* next step of each handler
    req,       \* the request each handler works on
    copy,      \* the *Property each handler holds, as built or as read
    stamp,     \* the UpdatedAt each handler is going to write
    reply,     \* the last answer of each handler
    created    \* history: the (id, address) pairs answered with 201

vars == <<rows, clock, pc, req, copy, stamp, reply, created>>
local == <<pc, req, copy, stamp, reply>>

Table == INSTANCE PropertyTable

Statuses == {"VACANT", "OCCUPIED", "RENOVATING", "DELISTED"}

transitions ==
    [VACANT     |-> {"OCCUPIED", "RENOVATING", "DELISTED"},
     OCCUPIED   |-> {"VACANT"},
     RENOVATING |-> {"VACANT", "DELISTED"},
     DELISTED   |-> {"VACANT"}]

CanTransition(from, to) == to \in transitions[from]

-----------------------------------------------------------------------------
(* Data.                                                                   *)

Row == Table!Row

Put(t, id, r) == Table!Put(t, id, r)

\* The unique index properties_address_key has an entry for the address.
AddressTaken(t, addr) == Table!AddressTaken(t, addr)

FeeInput == Amounts \cup {Empty, Blank, Malformed}
FeePatch == FeeInput \cup {Absent}
ContactPatch == Contacts \cup {Absent}

\* CreateInput.Validate and UpdateInput.Validate on the representative field.
Validates(fee) == fee # Malformed

\* decimal.NewFromString; a blank is not empty, so it is parsed, and fails.
Parses(fee) == fee # Blank

\* Mutant: the empty string is stored as it came.
ParseFeeVerbatim(fee) == fee

ParseFee(fee) == IF fee = Empty THEN ZeroAmount ELSE fee

NoRequest == [op |-> "none", id |-> "none", fee |-> Absent,
              contact |-> Absent, target |-> "none"]
Request == [op: {"create", "get", "update", "status"}, id: Ids, fee: FeePatch,
            contact: ContactPatch, target: Statuses \cup {"none"}]
NoRow == [addr |-> "none"]

Replies == {"none", "CREATED", "OK", "VALIDATION_FAILED", "PROPERTY_NOT_FOUND",
            "PROPERTY_DUPLICATE", "INVALID_STATUS_TRANSITION", "INTERNAL"}

\* Mutant: an empty fee of a PATCH is taken for one that is not given.
NewRowEmptyKept(c) ==
    LET p == copy[c]
        r == req[c]
    IN  IF r.op = "status"
          THEN [p EXCEPT !.status = r.target, !.updatedAt = stamp[c]]
          ELSE [p EXCEPT
                  !.fee = IF r.fee \in {Absent, Empty} THEN p.fee ELSE r.fee,
                  !.contact = IF r.contact = Absent THEN p.contact ELSE r.contact,
                  !.updatedAt = stamp[c]]

\* Mutant: the handler builds a new Property instead of changing its copy, so
\* the creation time is lost.
NewRowRecreated(c) ==
    [copy[c] EXCEPT !.createdAt = stamp[c], !.updatedAt = stamp[c]]

\* Service.Update's patching of its copy, or ChangeStatus's assignment, and
\* the UpdatedAt both set: the row the handler writes.
NewRow(c) ==
    LET p == copy[c]
        r == req[c]
    IN  IF r.op = "status"
          THEN [p EXCEPT !.status = r.target, !.updatedAt = stamp[c]]
          ELSE [p EXCEPT
                  !.fee = IF r.fee = Absent THEN p.fee ELSE ParseFee(r.fee),
                  !.contact = IF r.contact = Absent THEN p.contact ELSE r.contact,
                  !.updatedAt = stamp[c]]

\* uuid.New(): an id no row and no other handler has.
FreshIds == Ids \ (DOMAIN rows \cup {req[c].id : c \in {d \in Clients : req[d].op = "create"}})

-----------------------------------------------------------------------------
Init ==
    /\ rows = Table!NoRows
    /\ clock = 0
    /\ pc = [c \in Clients |-> "idle"]
    /\ req = [c \in Clients |-> NoRequest]
    /\ copy = [c \in Clients |-> NoRow]
    /\ stamp = [c \in Clients |-> 0]
    /\ reply = [c \in Clients |-> "none"]
    /\ created = {}

Begin(c, r, p, step) ==
    /\ pc' = [pc EXCEPT ![c] = step]
    /\ req' = [req EXCEPT ![c] = r]
    /\ copy' = [copy EXCEPT ![c] = p]
    /\ reply' = [reply EXCEPT ![c] = "none"]
    /\ UNCHANGED <<rows, clock, stamp, created>>

\* The handler answers and forgets its request.
Finish(c, code) ==
    /\ pc' = [pc EXCEPT ![c] = "idle"]
    /\ req' = [req EXCEPT ![c] = NoRequest]
    /\ copy' = [copy EXCEPT ![c] = NoRow]
    /\ stamp' = [stamp EXCEPT ![c] = 0]
    /\ reply' = [reply EXCEPT ![c] = code]

\* A body Validate refuses, or whose fee then does not parse, or (status
\* changes) whose target is not one of the four: 400 before any statement.
Refuse(c) ==
    /\ pc[c] = "idle"
    /\ Finish(c, "VALIDATION_FAILED")
    /\ UNCHANGED <<rows, clock, created>>

BeginCreate(c) ==
    /\ pc[c] = "idle"
    /\ \E id \in FreshIds, addr \in Addresses, fee \in FeeInput, contact \in Contacts :
          /\ Validates(fee)
          /\ Parses(fee)
          /\ Begin(c,
                   [NoRequest EXCEPT !.op = "create", !.id = id],
                   [addr |-> addr, fee |-> ParseFee(fee), contact |-> contact,
                    status |-> "VACANT", createdAt |-> clock, updatedAt |-> clock],
                   "insert")

BeginGet(c) ==
    /\ pc[c] = "idle"
    /\ \E id \in Ids :
          Begin(c, [NoRequest EXCEPT !.op = "get", !.id = id], NoRow, "read")

BeginUpdate(c) ==
    /\ pc[c] = "idle"
    /\ \E id \in Ids, fee \in FeePatch, contact \in ContactPatch :
          /\ Validates(fee)
          /\ Begin(c,
                   [NoRequest EXCEPT !.op = "update", !.id = id, !.fee = fee,
                                     !.contact = contact],
                   NoRow, "read")

BeginChangeStatus(c) ==
    /\ pc[c] = "idle"
    /\ \E id \in Ids, target \in Statuses :
          Begin(c, [NoRequest EXCEPT !.op = "status", !.id = id, !.target = target],
                NoRow, "read")

-----------------------------------------------------------------------------
(* repo.Create                                                             *)

\* The PRIMARY KEY or properties_address_key refuses the row.
UniqueViolation(c) == AddressTaken(rows, copy[c].addr) \/ req[c].id \in DOMAIN rows

\* Mutant: ON CONFLICT DO UPDATE, the row with that address is overwritten.
InsertDuplicateUpserted(c) ==
    /\ pc[c] = "insert"
    /\ UniqueViolation(c)
    /\ rows' = [i \in DOMAIN rows |->
                  IF rows[i].addr = copy[c].addr THEN copy[c] ELSE rows[i]]
    /\ Finish(c, "CREATED")
    /\ UNCHANGED <<clock, created>>

InsertDuplicate(c) ==
    /\ pc[c] = "insert"
    /\ UniqueViolation(c)
    /\ Finish(c, "PROPERTY_DUPLICATE")
    /\ UNCHANGED <<rows, clock, created>>

\* Mutant: there is no unique index, only the PRIMARY KEY.
InsertRowUnindexed(c, answered) ==
    /\ pc[c] = "insert"
    /\ req[c].id \notin DOMAIN rows
    /\ rows' = Put(rows, req[c].id, copy[c])
    /\ Finish(c, IF answered THEN "CREATED" ELSE "INTERNAL")
    /\ created' = IF answered THEN created \cup {<<req[c].id, copy[c].addr>>}
                              ELSE created
    /\ UNCHANGED clock

\* The row is stored; with ~answered the client only sees an error.
InsertRow(c, answered) ==
    /\ pc[c] = "insert"
    /\ ~UniqueViolation(c)
    /\ rows' = Put(rows, req[c].id, copy[c])
    /\ Finish(c, IF answered THEN "CREATED" ELSE "INTERNAL")
    /\ created' = IF answered THEN created \cup {<<req[c].id, copy[c].addr>>}
                              ELSE created
    /\ UNCHANGED clock

-----------------------------------------------------------------------------
(* repo.GetByID, then what the service does with the row it got            *)

ReadMissing(c) ==
    /\ pc[c] = "read"
    /\ req[c].id \notin DOMAIN rows
    /\ Finish(c, "PROPERTY_NOT_FOUND")
    /\ UNCHANGED <<rows, clock, created>>

ReadAnswer(c) ==
    /\ pc[c] = "read"
    /\ req[c].id \in DOMAIN rows
    /\ req[c].op = "get"
    /\ Finish(c, "OK")
    /\ UNCHANGED <<rows, clock, created>>

ReadRow(c) ==
    /\ pc[c] = "read"
    /\ req[c].id \in DOMAIN rows
    /\ req[c].op \in {"update", "status"}
    /\ copy' = [copy EXCEPT ![c] = rows[req[c].id]]
    /\ pc' = [pc EXCEPT ![c] = "apply"]
    /\ UNCHANGED <<rows, clock, req, stamp, reply, created>>

\* The request may be carried out on the row as it was read.
Applicable(c) ==
    IF req[c].op = "status" THEN CanTransition(copy[c].status, req[c].target)
                            ELSE Parses(req[c].fee)

ApplyRefused(c) ==
    /\ pc[c] = "apply"
    /\ ~Applicable(c)
    /\ Finish(c, IF req[c].op = "status" THEN "INVALID_STATUS_TRANSITION"
                                         ELSE "VALIDATION_FAILED")
    /\ UNCHANGED <<rows, clock, created>>

\* Mutant: UpdatedAt is left at the zero time.
ApplyUnstamped(c) ==
    /\ pc[c] = "apply"
    /\ Applicable(c)
    /\ pc' = [pc EXCEPT ![c] = "write"]
    /\ UNCHANGED <<rows, clock, req, copy, stamp, reply, created>>

Apply(c) ==
    /\ pc[c] = "apply"
    /\ Applicable(c)
    /\ stamp' = [stamp EXCEPT ![c] = clock]
    /\ pc' = [pc EXCEPT ![c] = "write"]
    /\ UNCHANGED <<rows, clock, req, copy, reply, created>>

\* repo.Update: every column of the row with this key is overwritten; no such
\* row is reported as not found.
WriteRow(c, answered) ==
    /\ pc[c] = "write"
    /\ rows' = [rows EXCEPT ![req[c].id] = NewRow(c)]
    /\ Finish(c, IF ~answered THEN "INTERNAL"
                 ELSE IF req[c].id \in DOMAIN rows THEN "OK" ELSE "PROPERTY_NOT_FOUND")
    /\ UNCHANGED <<clock, created>>

-----------------------------------------------------------------------------
(* Failures and time                                                       *)

\* The statement fails, or the request is cancelled, without effect.
StatementFails(c) ==
    /\ pc[c] \in {"insert", "read", "write"}
    /\ Finish(c, "INTERNAL")
    /\ UNCHANGED <<rows, clock, created>>

\* The process stops: every handler is gone, the table stays.
Crash ==
    /\ \E c \in Clients : pc[c] # "idle"
    /\ pc' = [c \in Clients |-> "idle"]
    /\ req' = [c \in Clients |-> NoRequest]
    /\ copy' = [c \in Clients |-> NoRow]
    /\ stamp' = [c \in Clients |-> 0]
    /\ reply' = [c \in Clients |-> "none"]
    /\ UNCHANGED <<rows, clock, created>>

Tick ==
    /\ clock < MaxClock
    /\ clock' = clock + 1
    /\ UNCHANGED <<rows, pc, req, copy, stamp, reply, created>>

Handler(c) ==
    \/ Refuse(c) \/ BeginCreate(c) \/ BeginGet(c) \/ BeginUpdate(c) \/ BeginChangeStatus(c)
    \/ InsertDuplicate(c)
    \/ ReadMissing(c) \/ ReadAnswer(c) \/ ReadRow(c)
    \/ ApplyRefused(c) \/ Apply(c)
    \/ StatementFails(c)
    \/ \E answered \in BOOLEAN : InsertRow(c, answered) \/ WriteRow(c, answered)

Next == Crash \/ Tick \/ \E c \in Clients : Handler(c)

Spec == Init /\ [][Next]_vars

-----------------------------------------------------------------------------
(* Properties                                                              *)

\* Every variable has its type, and every handler that works on a request
\* holds what its step needs.
TypeOK ==
    /\ DOMAIN rows \subseteq Ids
    /\ rows \in [DOMAIN rows -> Row]
    /\ clock \in Nat
    /\ pc \in [Clients -> {"idle", "insert", "read", "apply", "write"}]
    /\ req \in [Clients -> Request \cup {NoRequest}]
    /\ copy \in [Clients -> Row \cup {NoRow}]
    /\ stamp \in [Clients -> Nat]
    /\ reply \in [Clients -> Replies]
    /\ created \subseteq Ids \X Addresses

\* No two properties share an address (pgrepo.Create leaves it to the unique
\* index; Update writes the address columns too, from a copy that may be old).
AddressUnique ==
    \A i, j \in DOMAIN rows : rows[i].addr = rows[j].addr => i = j

\* Of all creations of one address, whatever their interleaving, failures and
\* retries, at most one is answered 201, and what it created stays stored at
\* that address.
OneCreatedPerAddress ==
    \A x, y \in created :
        /\ x[1] \in DOMAIN rows
        /\ rows[x[1]].addr = x[2]
        /\ x[2] = y[2] => x = y

\* A stored row was never updated before it was created, nor in the future:
\* the update time is taken after the row was read.
TimestampsOrdered ==
    \A i \in DOMAIN rows :
        /\ rows[i].createdAt <= rows[i].updatedAt
        /\ rows[i].updatedAt <= clock

\* A handler about to write holds a copy of a row that is still stored, with
\* the columns that never change: a full-row write from a stale copy restores
\* no old address or creation time, and never finds its row gone (the branch
\* pgrepo.Update calls theoretically impossible).
CopyMatchesRow ==
    \A c \in Clients :
        pc[c] \in {"apply", "write"} =>
            /\ req[c].id \in DOMAIN rows
            /\ copy[c].addr = rows[req[c].id].addr
            /\ copy[c].createdAt = rows[req[c].id].createdAt

\* The seven moves the design allows, as pairs: a property under renovation or
\* delisted is never let out directly, an occupied one never delisted.
LegalMoves ==
    {<<"VACANT", "OCCUPIED">>, <<"VACANT", "RENOVATING">>, <<"VACANT", "DELISTED">>,
     <<"OCCUPIED", "VACANT">>, <<"RENOVATING", "VACANT">>,
     <<"RENOVATING", "DELISTED">>, <<"DELISTED", "VACANT">>}

\* A status change or PATCH that is answered 200, or that changes the table at
\* all, has written what was asked into its own row, even if another request
\* has written that row since it was read, and has touched no other row, no
\* address and no creation time.  In its own row, a column that still is what
\* the handler has read is changed as asked or not at all: the status by a
\* legal move, the fee and the contact only when the body names them, and the
\* update time does not go back.  So all damage concurrent requests do is in
\* columns that were written between a handler's read and its write.
WriteExact ==
    [][\A c \in Clients :
        LET r   == req[c]
            old == rows[r.id]
            new == rows'[r.id]
        IN
        /\ pc[c] = "write"
        /\ pc'[c] = "idle"
        /\ reply'[c] = "OK" \/ rows' # rows
        => /\ DOMAIN rows' = DOMAIN rows
           /\ \A i \in DOMAIN rows \ {r.id} : rows'[i] = rows[i]
           /\ new.addr = old.addr
           /\ new.createdAt = old.createdAt
           /\ copy[c].updatedAt = old.updatedAt => new.updatedAt >= old.updatedAt
           /\ IF r.op = "status"
                THEN /\ new.status = r.target
                     /\ copy[c].status = old.status =>
                           <<old.status, new.status>> \in LegalMoves
                     /\ copy[c].fee = old.fee => new.fee = old.fee
                     /\ copy[c].contact = old.contact => new.contact = old.contact
                ELSE /\ copy[c].status = old.status => new.status = old.status
                     /\ r.fee \in Amounts => new.fee = r.fee
                     /\ r.fee = Empty => new.fee = ZeroAmount
                     /\ r.fee = Absent /\ copy[c].fee = old.fee => new.fee = old.fee
                     /\ r.contact # Absent => new.contact = r.contact
                     /\ r.contact = Absent /\ copy[c].contact = old.contact =>
                           new.contact = old.contact
      ]_vars

\* Whatever requests overlap, the stored status only makes legal moves: an
\* illegal one is refused before anything is written (ChangeStatus), so that no
\* property is delisted while it has a tenant (transitions).
StatusMovesLegal ==
    [][\A i \in DOMAIN rows :
          rows'[i].status = rows[i].status
          \/ <<rows[i].status, rows'[i].status>> \in LegalMoves]_rows

\* A PATCH leaves the stored value of everything that is not in its body alone
\* (openapi.yaml); the status never is (UpdateInput has none).
PatchKeepsAbsentFields ==
    [][\A c \in Clients :
          LET id == req[c].id IN
          pc[c] = "write" /\ pc'[c] = "idle" /\ req[c].op = "update" =>
              /\ rows'[id].status = rows[id].status
              /\ req[c].fee = Absent => rows'[id].fee = rows[id].fee
              /\ req[c].contact = Absent => rows'[id].contact = rows[id].contact]_vars

\* Every behaviour of the handlers is one the abstract table allows.
TableSpec == Table!Spec
=============================================================================
