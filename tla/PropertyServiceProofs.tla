------------------------- MODULE PropertyServiceProofs -------------------------
(***************************************************************************)
(* Proofs about PropertyService, for any handlers, ids, addresses, amounts *)
(* and contacts.  The inductive invariant IInv adds to the invariants the  *)
(* runs check what a handler knows at each of its steps (HandlerOK) and    *)
(* that two creations in flight never carry one id (DistinctInserts).      *)
(***************************************************************************)
EXTENDS PropertyService, TLAPS

\* A request that passed validation.
RequestOK(r) ==
    /\ r \in Request
    /\ r.op \in {"get", "update", "status"}
    /\ r.op = "status" => r.target \in Statuses
    /\ r.op = "update" => r.fee # Malformed

\* What handler c knows, by its next step.  Nothing here depends on the
\* columns other handlers may change meanwhile.
InsertOK(c) ==
    pc[c] = "insert" =>
        /\ req[c].op = "create"
        /\ req[c].id \in Ids \ DOMAIN rows
        /\ copy[c] \in Row
        /\ copy[c].status = "VACANT"
        /\ copy[c].updatedAt = copy[c].createdAt
        /\ copy[c].createdAt <= clock

ReadOK(c) == pc[c] = "read" => RequestOK(req[c])

UpdateOK(c) ==
    pc[c] \in {"apply", "write"} =>
        /\ RequestOK(req[c])
        /\ req[c].op \in {"update", "status"}
        /\ copy[c] \in Row
        /\ req[c].id \in DOMAIN rows
        /\ copy[c].addr = rows[req[c].id].addr
        /\ copy[c].createdAt = rows[req[c].id].createdAt
        /\ copy[c].createdAt <= copy[c].updatedAt
        /\ copy[c].updatedAt <= clock

WriteOK(c) ==
    pc[c] = "write" =>
        /\ Applicable(c)
        /\ copy[c].updatedAt <= stamp[c]
        /\ stamp[c] <= clock

HandlerOK(c) == InsertOK(c) /\ ReadOK(c) /\ UpdateOK(c) /\ WriteOK(c)

DistinctInserts ==
    \A c, d \in Clients :
        pc[c] = "insert" /\ pc[d] = "insert" /\ req[c].id = req[d].id => c = d

CreatedStored ==
    \A x \in created : x[1] \in DOMAIN rows /\ rows[x[1]].addr = x[2]

RowsOK == AddressUnique /\ TimestampsOrdered /\ CreatedStored

IInv == TypeOK /\ RowsOK /\ DistinctInserts /\ \A c \in Clients : HandlerOK(c)

-----------------------------------------------------------------------------
(* Lemmas about the operators.                                             *)

\* A fee that passed validation and parses is an amount.
LEMMA ParseFeeType ==
    ASSUME NEW fee \in FeeInput, fee # Malformed, Parses(fee)
    PROVE  ParseFee(fee) \in Amounts
  BY AmountsAssumption DEF FeeInput, Parses, ParseFee, Empty, Blank, Malformed

\* What a handler is about to write is a row that differs from its copy only
\* in the columns its request may change.
LEMMA NewRowFacts ==
    ASSUME TypeOK, NEW c \in Clients, HandlerOK(c), pc[c] = "write"
    PROVE  /\ NewRow(c) \in Row
           /\ NewRow(c).addr = copy[c].addr
           /\ NewRow(c).createdAt = copy[c].createdAt
           /\ NewRow(c).updatedAt = stamp[c]
           /\ req[c].op = "status" =>
                /\ NewRow(c).status = req[c].target
                /\ NewRow(c).fee = copy[c].fee
                /\ NewRow(c).contact = copy[c].contact
           /\ req[c].op = "update" =>
                /\ NewRow(c).status = copy[c].status
                /\ req[c].fee = Absent => NewRow(c).fee = copy[c].fee
                /\ req[c].fee \in Amounts => NewRow(c).fee = req[c].fee
                /\ req[c].fee = Empty => NewRow(c).fee = ZeroAmount
                /\ req[c].contact = Absent => NewRow(c).contact = copy[c].contact
                /\ req[c].contact # Absent => NewRow(c).contact = req[c].contact
<1>1. /\ copy[c] \in Row
      /\ req[c] \in Request
      /\ req[c].op \in {"update", "status"}
      /\ stamp[c] \in Nat
  BY DEF TypeOK, HandlerOK, UpdateOK, RequestOK
<1>2. CASE req[c].op = "status"
  <2>1. req[c].target \in Statuses
    BY <1>2 DEF HandlerOK, UpdateOK, RequestOK
  <2>2. NewRow(c) = [copy[c] EXCEPT !.status = req[c].target, !.updatedAt = stamp[c]]
    BY <1>2 DEF NewRow
  <2> QED BY <1>1, <1>2, <2>1, <2>2 DEF Row, Table!Row, Statuses, Table!Statuses
<1>3. CASE req[c].op = "update"
  <2>1. req[c].fee # Malformed /\ Parses(req[c].fee)
    BY <1>3 DEF HandlerOK, UpdateOK, WriteOK, RequestOK, Applicable
  <2>2. req[c].fee # Absent => ParseFee(req[c].fee) \in Amounts
    BY <1>1, <2>1, ParseFeeType DEF Request, FeePatch
  <2>3. req[c].contact # Absent => req[c].contact \in Contacts
    BY <1>1 DEF Request, ContactPatch
  <2>4. NewRow(c) =
          [copy[c] EXCEPT
             !.fee = IF req[c].fee = Absent THEN copy[c].fee ELSE ParseFee(req[c].fee),
             !.contact = IF req[c].contact = Absent THEN copy[c].contact
                                                    ELSE req[c].contact,
             !.updatedAt = stamp[c]]
    BY <1>3 DEF NewRow
  <2>5. /\ req[c].fee \in Amounts => req[c].fee # Absent /\ ParseFee(req[c].fee) = req[c].fee
        /\ req[c].fee = Empty => req[c].fee # Absent /\ ParseFee(req[c].fee) = ZeroAmount
    BY AmountsAssumption DEF ParseFee, Empty, Absent
  <2> QED BY <1>1, <1>3, <2>2, <2>3, <2>4, <2>5 DEF Row, Table!Row
<1> QED BY <1>1, <1>2, <1>3

-----------------------------------------------------------------------------
(* Lemmas about steps.                                                     *)

LocalTypes ==
    /\ pc \in [Clients -> {"idle", "insert", "read", "apply", "write"}]
    /\ req \in [Clients -> Request \cup {NoRequest}]
    /\ copy \in [Clients -> Row \cup {NoRow}]
    /\ stamp \in [Clients -> Nat]
    /\ reply \in [Clients -> Replies]

\* A step of c leaves what d works on alone.
Untouched(d) ==
    pc'[d] = pc[d] /\ req'[d] = req[d] /\ copy'[d] = copy[d] /\ stamp'[d] = stamp[d]

\* No stored row disappears or changes address or creation time.
RowsKept ==
    \A i \in DOMAIN rows :
        /\ i \in DOMAIN rows'
        /\ rows'[i].addr = rows[i].addr
        /\ rows'[i].createdAt = rows[i].createdAt

\* What an untouched handler knows survives every step that keeps the rows.
LEMMA FrameLemma ==
    ASSUME TypeOK, NEW d \in Clients, HandlerOK(d), Untouched(d), RowsKept,
           clock' \in Nat, clock <= clock',
           pc[d] = "insert" => req[d].id \notin DOMAIN rows'
    PROVE  HandlerOK(d)'
<1>1. InsertOK(d)'
  <2> SUFFICES ASSUME pc[d] = "insert"
               PROVE  InsertOK(d)'
    BY DEF InsertOK, Untouched
  <2>1. copy[d].createdAt \in Nat
    BY DEF HandlerOK, InsertOK, Row, Table!Row
  <2> QED BY <2>1 DEF HandlerOK, InsertOK, Untouched, TypeOK
<1>2. ReadOK(d)'
  BY DEF HandlerOK, ReadOK, Untouched
<1>3. UpdateOK(d)'
  <2> SUFFICES ASSUME pc[d] \in {"apply", "write"}
               PROVE  UpdateOK(d)'
    BY DEF UpdateOK, Untouched
  <2>1. copy[d].updatedAt \in Nat
    BY DEF HandlerOK, UpdateOK, Row, Table!Row
  <2> QED BY <2>1 DEF HandlerOK, UpdateOK, Untouched, TypeOK, RowsKept
<1>4. WriteOK(d)'
  <2>1. Applicable(d)' = Applicable(d)
    BY DEF Applicable, Untouched
  <2> QED BY <2>1 DEF HandlerOK, WriteOK, Untouched, TypeOK
<1> QED BY <1>1, <1>2, <1>3, <1>4 DEF HandlerOK

\* A step of c that only moves c preserves the invariant if c knows what its
\* next step needs.
LEMMA QuietLemma ==
    ASSUME IInv, NEW c \in Clients, UNCHANGED <<rows, clock, created>>,
           LocalTypes', \A d \in Clients \ {c} : Untouched(d),
           HandlerOK(c)', pc'[c] # "insert"
    PROVE  IInv'
<1>1. TypeOK'
  BY DEF IInv, TypeOK, LocalTypes
<1>2. RowsOK'
  BY DEF IInv, RowsOK, AddressUnique, TimestampsOrdered, CreatedStored
<1>3. DistinctInserts'
  BY DEF IInv, DistinctInserts, Untouched
<1>4. ASSUME NEW d \in Clients
      PROVE  HandlerOK(d)'
  <2>1. CASE d = c
    BY <2>1
  <2>2. CASE d # c
    <3>1. RowsKept
      BY DEF RowsKept
    <3>2. clock' \in Nat /\ clock <= clock'
      BY DEF IInv, TypeOK
    <3>3. pc[d] = "insert" => req[d].id \notin DOMAIN rows'
      BY DEF IInv, HandlerOK, InsertOK
    <3> QED BY <2>2, <3>1, <3>2, <3>3, FrameLemma DEF IInv
  <2> QED BY <2>1, <2>2
<1> QED BY <1>1, <1>2, <1>3, <1>4 DEF IInv

\* A handler that has answered holds nothing and has disturbed nobody.
LEMMA FinishLemma ==
    ASSUME TypeOK, NEW c \in Clients, NEW code \in Replies, Finish(c, code)
    PROVE  /\ LocalTypes'
           /\ \A d \in Clients \ {c} : Untouched(d)
           /\ pc'[c] = "idle"
           /\ HandlerOK(c)'
<1>1. pc'[c] = "idle"
  BY DEF TypeOK, Finish
<1>2. HandlerOK(c)'
  BY <1>1 DEF HandlerOK, InsertOK, ReadOK, UpdateOK, WriteOK
<1>3. \A d \in Clients \ {c} : Untouched(d)
  BY DEF TypeOK, Finish, Untouched
<1>4. LocalTypes'
  BY DEF TypeOK, LocalTypes, Finish
<1> QED BY <1>1, <1>2, <1>3, <1>4

\* Answering without changing the table preserves the invariant.
LEMMA AnswerLemma ==
    ASSUME IInv, NEW c \in Clients, NEW code \in Replies, Finish(c, code),
           UNCHANGED <<rows, clock, created>>
    PROVE  IInv'
  BY FinishLemma, QuietLemma DEF IInv

\* Starting a request that reads first preserves the invariant.
LEMMA BeginReadLemma ==
    ASSUME IInv, NEW c \in Clients, NEW r, RequestOK(r), Begin(c, r, NoRow, "read")
    PROVE  IInv'
<1>1. pc'[c] = "read" /\ req'[c] = r
  BY DEF IInv, TypeOK, Begin
<1>2. HandlerOK(c)'
  BY <1>1 DEF HandlerOK, InsertOK, ReadOK, UpdateOK, WriteOK
<1>3. \A d \in Clients \ {c} : Untouched(d)
  BY DEF IInv, TypeOK, Begin, Untouched
<1>4. LocalTypes'
  BY DEF IInv, TypeOK, LocalTypes, Begin, RequestOK, Replies
<1>5. UNCHANGED <<rows, clock, created>>
  BY DEF Begin
<1> QED BY <1>1, <1>2, <1>3, <1>4, <1>5, QuietLemma

-----------------------------------------------------------------------------
(* The invariant holds initially and every step preserves it.              *)

LEMMA InitLemma == Init => IInv
<1> SUFFICES ASSUME Init
             PROVE  IInv
  OBVIOUS
<1>1. DOMAIN rows = {}
  BY DEF Init, Table!NoRows
<1>2. TypeOK
  BY <1>1, MaxClockAssumption DEF Init, TypeOK, Replies, Table!NoRows
<1>3. RowsOK
  BY <1>1 DEF Init, RowsOK, AddressUnique, TimestampsOrdered, CreatedStored
<1>4. DistinctInserts /\ \A c \in Clients : HandlerOK(c)
  BY DEF Init, DistinctInserts, HandlerOK, InsertOK, ReadOK, UpdateOK, WriteOK
<1> QED BY <1>2, <1>3, <1>4 DEF IInv

LEMMA BeginCreateLemma ==
    ASSUME IInv, NEW c \in Clients, BeginCreate(c)
    PROVE  IInv'
<1>1. PICK id \in FreshIds, addr \in Addresses, fee \in FeeInput, contact \in Contacts :
        /\ Validates(fee)
        /\ Parses(fee)
        /\ Begin(c,
                 [NoRequest EXCEPT !.op = "create", !.id = id],
                 [addr |-> addr, fee |-> ParseFee(fee), contact |-> contact,
                  status |-> "VACANT", createdAt |-> clock, updatedAt |-> clock],
                 "insert")
  BY DEF BeginCreate
<1> DEFINE r == [NoRequest EXCEPT !.op = "create", !.id = id]
           p == [addr |-> addr, fee |-> ParseFee(fee), contact |-> contact,
                 status |-> "VACANT", createdAt |-> clock, updatedAt |-> clock]
<1>2. /\ id \in Ids \ DOMAIN rows
      /\ \A d \in Clients : pc[d] = "insert" => req[d].id # id
  BY DEF FreshIds, IInv, HandlerOK, InsertOK
<1>3. ParseFee(fee) \in Amounts
  BY <1>1, ParseFeeType DEF Validates
<1>4. p \in Row
  BY <1>3 DEF Row, Table!Row, Table!Statuses, IInv, TypeOK
<1>5. /\ r \in Request
      /\ r.op = "create"
      /\ r.id = id
  BY <1>2 DEF NoRequest, Request, FeePatch, ContactPatch
<1>6. /\ pc' = [pc EXCEPT ![c] = "insert"]
      /\ req' = [req EXCEPT ![c] = r]
      /\ copy' = [copy EXCEPT ![c] = p]
      /\ reply' = [reply EXCEPT ![c] = "none"]
      /\ UNCHANGED <<rows, clock, stamp, created>>
  BY <1>1 DEF Begin
<1>7. pc'[c] = "insert" /\ req'[c] = r /\ copy'[c] = p
  BY <1>6 DEF IInv, TypeOK
<1>8. \A d \in Clients \ {c} : Untouched(d)
  BY <1>6 DEF IInv, TypeOK, Untouched
<1> HIDE DEF r
<1>9. TypeOK'
  BY <1>4, <1>5, <1>6 DEF IInv, TypeOK, Replies
<1>10. RowsOK'
  BY <1>6 DEF IInv, RowsOK, AddressUnique, TimestampsOrdered, CreatedStored
<1>11. DistinctInserts'
  BY <1>2, <1>5, <1>7, <1>8 DEF IInv, DistinctInserts, Untouched
<1>12. HandlerOK(c)'
  <2>1. InsertOK(c)'
    BY <1>2, <1>4, <1>5, <1>6, <1>7 DEF InsertOK, IInv, TypeOK
  <2> QED BY <2>1, <1>7 DEF HandlerOK, ReadOK, UpdateOK, WriteOK
<1>13. ASSUME NEW d \in Clients \ {c}
       PROVE  HandlerOK(d)'
  <2>1. RowsKept /\ clock' \in Nat /\ clock <= clock'
    BY <1>6 DEF RowsKept, IInv, TypeOK
  <2>2. pc[d] = "insert" => req[d].id \notin DOMAIN rows'
    BY <1>6 DEF IInv, HandlerOK, InsertOK
  <2> QED BY <1>8, <2>1, <2>2, FrameLemma DEF IInv
<1> QED BY <1>9, <1>10, <1>11, <1>12, <1>13 DEF IInv

LEMMA InsertRowLemma ==
    ASSUME IInv, NEW c \in Clients, NEW answered \in BOOLEAN, InsertRow(c, answered)
    PROVE  IInv'
<1> DEFINE id == req[c].id
           p == copy[c]
<1>1. /\ pc[c] = "insert"
      /\ \A i \in DOMAIN rows : rows[i].addr # p.addr
      /\ rows' = Put(rows, id, p)
      /\ created' \subseteq created \cup {<<id, p.addr>>}
      /\ clock' = clock
  BY DEF InsertRow, UniqueViolation, AddressTaken, Table!AddressTaken
<1>2. /\ id \in Ids \ DOMAIN rows
      /\ p \in Row
      /\ p.updatedAt = p.createdAt
      /\ p.createdAt <= clock
  BY <1>1 DEF IInv, HandlerOK, InsertOK
<1>3. /\ LocalTypes'
      /\ \A d \in Clients \ {c} : Untouched(d)
      /\ pc'[c] = "idle"
      /\ HandlerOK(c)'
  <2>1. \E code \in Replies : Finish(c, code)
    BY DEF InsertRow, Replies
  <2> QED BY <2>1, FinishLemma DEF IInv
<1>4. /\ DOMAIN rows' = DOMAIN rows \cup {id}
      /\ rows'[id] = p
      /\ \A i \in DOMAIN rows : rows'[i] = rows[i]
  <2>1. \A i \in DOMAIN rows : i # id
    BY <1>2
  <2> HIDE DEF id, p
  <2>2. /\ DOMAIN rows' = DOMAIN rows \cup {id}
        /\ rows'[id] = p
        /\ \A i \in DOMAIN rows : i # id => rows'[i] = rows[i]
    BY <1>1 DEF Put, Table!Put
  <2> QED BY <2>1, <2>2
<1>5. p.addr \in Addresses /\ p.createdAt \in Nat
  BY <1>2 DEF Row, Table!Row
<1> HIDE DEF id, p
<1>6. TypeOK'
  <2>1. rows' \in [DOMAIN rows' -> Row]
    BY <1>1, <1>2, <1>4 DEF IInv, TypeOK, Put, Table!Put
  <2>2. DOMAIN rows' \subseteq Ids
    BY <1>2, <1>4 DEF IInv, TypeOK
  <2>3. created' \subseteq Ids \X Addresses
    BY <1>1, <1>2, <1>5 DEF IInv, TypeOK
  <2> QED BY <1>1, <1>3, <2>1, <2>2, <2>3 DEF IInv, TypeOK, LocalTypes
<1>7. RowsOK'
  <2>1. AddressUnique'
    BY <1>1, <1>2, <1>4 DEF IInv, RowsOK, AddressUnique
  <2>2. TimestampsOrdered'
    BY <1>1, <1>2, <1>4, <1>5 DEF IInv, RowsOK, TimestampsOrdered
  <2>3. CreatedStored'
    BY <1>1, <1>4 DEF IInv, RowsOK, CreatedStored
  <2> QED BY <2>1, <2>2, <2>3 DEF RowsOK
<1>8. DistinctInserts'
  BY <1>3 DEF IInv, DistinctInserts, Untouched
<1>9. ASSUME NEW d \in Clients \ {c}
      PROVE  HandlerOK(d)'
  <2>1. RowsKept /\ clock' \in Nat /\ clock <= clock'
    BY <1>1, <1>4 DEF RowsKept, IInv, TypeOK
  <2>2. pc[d] = "insert" => req[d].id \notin DOMAIN rows'
    BY <1>1, <1>4 DEF IInv, HandlerOK, InsertOK, DistinctInserts, id
  <2> QED BY <1>3, <2>1, <2>2, FrameLemma DEF IInv
<1> QED BY <1>3, <1>6, <1>7, <1>8, <1>9 DEF IInv

\* What a write does to the table: the row stays, and keeps what never changes.
LEMMA WriteFacts ==
    ASSUME IInv, NEW c \in Clients, NEW answered \in BOOLEAN, WriteRow(c, answered)
    PROVE  /\ req[c].id \in DOMAIN rows
           /\ DOMAIN rows' = DOMAIN rows
           /\ rows'[req[c].id] = NewRow(c)
           /\ \A i \in DOMAIN rows : i # req[c].id => rows'[i] = rows[i]
           /\ rows' \in [DOMAIN rows -> Row]
           /\ NewRow(c).addr = rows[req[c].id].addr
           /\ NewRow(c).createdAt = rows[req[c].id].createdAt
           /\ NewRow(c).createdAt \in Nat
           /\ NewRow(c).updatedAt \in Nat
           /\ NewRow(c).createdAt <= NewRow(c).updatedAt
           /\ NewRow(c).updatedAt <= clock
           /\ \E code \in Replies : Finish(c, code)
           /\ clock' = clock
           /\ created' = created
<1>1. /\ pc[c] = "write"
      /\ rows' = [rows EXCEPT ![req[c].id] = NewRow(c)]
      /\ clock' = clock
      /\ created' = created
  BY DEF WriteRow
<1>2. \E code \in Replies : Finish(c, code)
  BY DEF WriteRow, Replies
<1>3. /\ NewRow(c) \in Row
      /\ NewRow(c).addr = copy[c].addr
      /\ NewRow(c).createdAt = copy[c].createdAt
      /\ NewRow(c).updatedAt = stamp[c]
  BY <1>1, NewRowFacts DEF IInv
<1>4. /\ req[c].id \in DOMAIN rows
      /\ copy[c] \in Row
      /\ copy[c].addr = rows[req[c].id].addr
      /\ copy[c].createdAt = rows[req[c].id].createdAt
      /\ copy[c].createdAt <= copy[c].updatedAt
      /\ copy[c].updatedAt <= stamp[c]
      /\ stamp[c] <= clock
  BY <1>1 DEF IInv, HandlerOK, UpdateOK, WriteOK
<1>5. /\ stamp[c] \in Nat
      /\ clock \in Nat
      /\ copy[c].createdAt \in Nat
      /\ copy[c].updatedAt \in Nat
  BY <1>4 DEF IInv, TypeOK, Row, Table!Row
<1>6. rows \in [DOMAIN rows -> Row]
  BY DEF IInv, TypeOK
<1>7. /\ DOMAIN rows' = DOMAIN rows
      /\ rows'[req[c].id] = NewRow(c)
      /\ \A i \in DOMAIN rows : i # req[c].id => rows'[i] = rows[i]
      /\ rows' \in [DOMAIN rows -> Row]
  BY <1>1, <1>3, <1>4, <1>6
<1> QED BY <1>1, <1>2, <1>3, <1>4, <1>5, <1>7

LEMMA WriteRowLemma ==
    ASSUME IInv, NEW c \in Clients, NEW answered \in BOOLEAN, WriteRow(c, answered)
    PROVE  IInv'
<1>1. /\ LocalTypes'
      /\ \A d \in Clients \ {c} : Untouched(d)
      /\ pc'[c] = "idle"
      /\ HandlerOK(c)'
  BY WriteFacts, FinishLemma DEF IInv
<1>2. TypeOK'
  BY <1>1, WriteFacts DEF IInv, TypeOK, LocalTypes
<1>3. RowsOK'
  <2>1. AddressUnique'
    BY WriteFacts DEF IInv, RowsOK, AddressUnique
  <2>2. TimestampsOrdered'
    BY WriteFacts DEF IInv, RowsOK, TimestampsOrdered
  <2>3. CreatedStored'
    BY WriteFacts DEF IInv, RowsOK, CreatedStored
  <2> QED BY <2>1, <2>2, <2>3 DEF RowsOK
<1>4. DistinctInserts'
  BY <1>1 DEF IInv, DistinctInserts, Untouched
<1>5. ASSUME NEW d \in Clients \ {c}
      PROVE  HandlerOK(d)'
  <2>1. RowsKept /\ clock' \in Nat /\ clock <= clock'
    BY WriteFacts DEF RowsKept, IInv, TypeOK
  <2>2. pc[d] = "insert" => req[d].id \notin DOMAIN rows'
    BY WriteFacts DEF IInv, HandlerOK, InsertOK
  <2> QED BY <1>1, <2>1, <2>2, FrameLemma DEF IInv
<1> QED BY <1>1, <1>2, <1>3, <1>4, <1>5 DEF IInv

LEMMA ReadRowLemma ==
    ASSUME IInv, NEW c \in Clients, ReadRow(c)
    PROVE  IInv'
<1> DEFINE id == req[c].id
<1>1. /\ pc[c] = "read"
      /\ id \in DOMAIN rows
      /\ req[c].op \in {"update", "status"}
      /\ copy' = [copy EXCEPT ![c] = rows[id]]
      /\ pc' = [pc EXCEPT ![c] = "apply"]
      /\ UNCHANGED <<rows, clock, req, stamp, reply, created>>
  BY DEF ReadRow
<1>2. rows[id] \in Row /\ RequestOK(req[c])
  BY <1>1 DEF IInv, TypeOK, HandlerOK, ReadOK
<1>3. /\ pc'[c] = "apply"
      /\ copy'[c] = rows[id]
      /\ req'[c] = req[c]
  BY <1>1 DEF IInv, TypeOK
<1>4. HandlerOK(c)'
  <2>1. UpdateOK(c)'
    BY <1>1, <1>2, <1>3 DEF UpdateOK, IInv, RowsOK, TimestampsOrdered
  <2> QED BY <1>3, <2>1 DEF HandlerOK, InsertOK, ReadOK, WriteOK
<1>5. \A d \in Clients \ {c} : Untouched(d)
  BY <1>1 DEF IInv, TypeOK, Untouched
<1>6. LocalTypes'
  BY <1>1, <1>2 DEF IInv, TypeOK, LocalTypes
<1> QED BY <1>1, <1>3, <1>4, <1>5, <1>6, QuietLemma

LEMMA ApplyLemma ==
    ASSUME IInv, NEW c \in Clients, Apply(c)
    PROVE  IInv'
<1>1. /\ pc[c] = "apply"
      /\ Applicable(c)
      /\ stamp' = [stamp EXCEPT ![c] = clock]
      /\ pc' = [pc EXCEPT ![c] = "write"]
      /\ UNCHANGED <<rows, clock, req, copy, reply, created>>
  BY DEF Apply
<1>2. clock \in Nat
  BY DEF IInv, TypeOK
<1>3. /\ pc'[c] = "write"
      /\ stamp'[c] = clock
      /\ copy'[c] = copy[c]
      /\ req'[c] = req[c]
  BY <1>1 DEF IInv, TypeOK
<1>4. HandlerOK(c)'
  <2>1. UpdateOK(c)'
    BY <1>1, <1>3 DEF UpdateOK, IInv, HandlerOK
  <2>2. Applicable(c)'
    BY <1>1, <1>3 DEF Applicable
  <2>3. WriteOK(c)'
    BY <1>1, <1>2, <1>3, <2>1, <2>2 DEF WriteOK, UpdateOK
  <2> QED BY <1>3, <2>1, <2>3 DEF HandlerOK, InsertOK, ReadOK
<1>5. \A d \in Clients \ {c} : Untouched(d)
  BY <1>1 DEF IInv, TypeOK, Untouched
<1>6. LocalTypes'
  BY <1>1, <1>2 DEF IInv, TypeOK, LocalTypes
<1> QED BY <1>1, <1>3, <1>4, <1>5, <1>6, QuietLemma

LEMMA CrashLemma == ASSUME IInv, Crash PROVE IInv'
<1>1. TypeOK'
  BY DEF IInv, TypeOK, Crash, Replies
<1>2. RowsOK'
  BY DEF IInv, RowsOK, AddressUnique, TimestampsOrdered, CreatedStored, Crash
<1>3. \A c \in Clients : pc'[c] = "idle"
  BY DEF Crash
<1>4. DistinctInserts' /\ \A c \in Clients : HandlerOK(c)'
  BY <1>3 DEF DistinctInserts, HandlerOK, InsertOK, ReadOK, UpdateOK, WriteOK
<1> QED BY <1>1, <1>2, <1>4 DEF IInv

LEMMA TickLemma == ASSUME IInv, Tick PROVE IInv'
<1>1. clock \in Nat /\ clock' = clock + 1 /\ rows' = rows
  BY DEF IInv, TypeOK, Tick
<1>2. TypeOK'
  BY <1>1 DEF IInv, TypeOK, Tick
<1>3. RowsOK'
  <2>1. \A i \in DOMAIN rows : rows[i].updatedAt \in Nat
    BY DEF IInv, TypeOK, Row, Table!Row
  <2> QED BY <1>1, <2>1
          DEF IInv, RowsOK, AddressUnique, TimestampsOrdered, CreatedStored, Tick
<1>4. DistinctInserts'
  BY DEF IInv, DistinctInserts, Tick
<1>5. ASSUME NEW d \in Clients
      PROVE  HandlerOK(d)'
  <2>1. Untouched(d)
    BY DEF Untouched, Tick
  <2>2. RowsKept /\ clock' \in Nat /\ clock <= clock'
    BY <1>1 DEF RowsKept
  <2>3. pc[d] = "insert" => req[d].id \notin DOMAIN rows'
    BY <1>1 DEF IInv, HandlerOK, InsertOK
  <2> QED BY <2>1, <2>2, <2>3, FrameLemma DEF IInv
<1> QED BY <1>2, <1>3, <1>4, <1>5 DEF IInv

LEMMA BeginLemma ==
    ASSUME IInv, NEW c \in Clients,
           BeginGet(c) \/ BeginUpdate(c) \/ BeginChangeStatus(c)
    PROVE  IInv'
<1>1. CASE BeginGet(c)
  <2>1. PICK id \in Ids :
          Begin(c, [NoRequest EXCEPT !.op = "get", !.id = id], NoRow, "read")
    BY <1>1 DEF BeginGet
  <2>2. RequestOK([NoRequest EXCEPT !.op = "get", !.id = id])
    BY DEF RequestOK, NoRequest, Request, FeePatch, ContactPatch
  <2> QED BY <2>1, <2>2, BeginReadLemma
<1>2. CASE BeginUpdate(c)
  <2>1. PICK id \in Ids, fee \in FeePatch, contact \in ContactPatch :
          /\ Validates(fee)
          /\ Begin(c,
                   [NoRequest EXCEPT !.op = "update", !.id = id, !.fee = fee,
                                     !.contact = contact],
                   NoRow, "read")
    BY <1>2 DEF BeginUpdate
  <2>2. RequestOK([NoRequest EXCEPT !.op = "update", !.id = id, !.fee = fee,
                                    !.contact = contact])
    BY <2>1 DEF RequestOK, NoRequest, Request, Validates
  <2> QED BY <2>1, <2>2, BeginReadLemma
<1>3. CASE BeginChangeStatus(c)
  <2>1. PICK id \in Ids, target \in Statuses :
          Begin(c, [NoRequest EXCEPT !.op = "status", !.id = id, !.target = target],
                NoRow, "read")
    BY <1>3 DEF BeginChangeStatus
  <2>2. RequestOK([NoRequest EXCEPT !.op = "status", !.id = id, !.target = target])
    BY DEF RequestOK, NoRequest, Request, FeePatch, ContactPatch
  <2> QED BY <2>1, <2>2, BeginReadLemma
<1> QED BY <1>1, <1>2, <1>3

LEMMA NextLemma == IInv /\ [Next]_vars => IInv'
<1> SUFFICES ASSUME IInv, [Next]_vars
             PROVE  IInv'
  OBVIOUS
<1>1. CASE Crash
  BY <1>1, CrashLemma
<1>2. CASE Tick
  BY <1>2, TickLemma
<1>3. ASSUME NEW c \in Clients, Handler(c)
      PROVE  IInv'
  <2>1. CASE BeginCreate(c)
    BY <2>1, BeginCreateLemma
  <2>2. CASE BeginGet(c) \/ BeginUpdate(c) \/ BeginChangeStatus(c)
    BY <2>2, BeginLemma
  <2>3. CASE ReadRow(c)
    BY <2>3, ReadRowLemma
  <2>4. CASE Apply(c)
    BY <2>4, ApplyLemma
  <2>5. ASSUME NEW answered \in BOOLEAN, InsertRow(c, answered)
        PROVE  IInv'
    BY <2>5, InsertRowLemma
  <2>6. ASSUME NEW answered \in BOOLEAN, WriteRow(c, answered)
        PROVE  IInv'
    BY <2>6, WriteRowLemma
  <2>7. CASE \/ Refuse(c) \/ InsertDuplicate(c) \/ ReadMissing(c) \/ ReadAnswer(c)
             \/ ApplyRefused(c) \/ StatementFails(c)
    <3>1. (\E code \in Replies : Finish(c, code)) /\ UNCHANGED <<rows, clock, created>>
      BY <2>7 DEF Refuse, InsertDuplicate, ReadMissing, ReadAnswer, ApplyRefused,
                  StatementFails, Replies
    <3> QED BY <3>1, AnswerLemma
  <2> QED BY <1>3, <2>1, <2>2, <2>3, <2>4, <2>5, <2>6, <2>7 DEF Handler
<1>4. CASE UNCHANGED vars
  BY <1>4 DEF vars, IInv, TypeOK, RowsOK, AddressUnique, TimestampsOrdered,
              CreatedStored, DistinctInserts, HandlerOK, InsertOK, ReadOK,
              UpdateOK, WriteOK, Applicable
<1> QED BY <1>1, <1>2, <1>3, <1>4 DEF Next

LEMMA Invariance == Spec => []IInv
  BY InitLemma, NextLemma, PTL DEF Spec

-----------------------------------------------------------------------------
(* Theorems                                                                *)

\* Variables keep their types: in particular every column of every stored row
\* holds a value the service accepts.
THEOREM TypeCorrect == Spec => []TypeOK
<1>1. IInv => TypeOK
  BY DEF IInv
<1> QED BY <1>1, Invariance, PTL

\* No two stored properties share an address.
THEOREM AddressesUnique == Spec => []AddressUnique
<1>1. IInv => AddressUnique
  BY DEF IInv, RowsOK
<1> QED BY <1>1, Invariance, PTL

\* No row was updated before it was created or after now.
THEOREM TimestampsInOrder == Spec => []TimestampsOrdered
<1>1. IInv => TimestampsOrdered
  BY DEF IInv, RowsOK
<1> QED BY <1>1, Invariance, PTL

\* Of all creations of an address at most one is ever answered 201, and its
\* row stays.
THEOREM CreatedOnce == Spec => []OneCreatedPerAddress
<1>1. IInv => OneCreatedPerAddress
  <2> SUFFICES ASSUME IInv, NEW x \in created, NEW y \in created
               PROVE  /\ x[1] \in DOMAIN rows
                      /\ rows[x[1]].addr = x[2]
                      /\ x[2] = y[2] => x = y
    BY DEF OneCreatedPerAddress
  <2>1. /\ x[1] \in DOMAIN rows /\ rows[x[1]].addr = x[2]
        /\ y[1] \in DOMAIN rows /\ rows[y[1]].addr = y[2]
    BY DEF IInv, RowsOK, CreatedStored
  <2>2. x[2] = y[2] => x[1] = y[1]
    BY <2>1 DEF IInv, RowsOK, AddressUnique
  <2>3. x \in Ids \X Addresses /\ y \in Ids \X Addresses
    BY DEF IInv, TypeOK
  <2> QED BY <2>1, <2>2, <2>3
<1> QED BY <1>1, Invariance, PTL

\* Whatever interleaves, a handler's copy never disagrees with the stored row
\* on the columns that never change, and its row is still there.
THEOREM CopiesMatch == Spec => []CopyMatchesRow
<1>1. IInv => CopyMatchesRow
  BY DEF IInv, HandlerOK, UpdateOK, CopyMatchesRow
<1> QED BY <1>1, Invariance, PTL

\* Only c itself finishes c's write; if it is answered 200 or changes the table,
\* the statement has been carried out.
LEMMA WriterLemma ==
    ASSUME IInv, Next, NEW c \in Clients, pc[c] = "write", pc'[c] = "idle",
           reply'[c] = "OK" \/ rows' # rows
    PROVE  \E answered \in BOOLEAN : WriteRow(c, answered)
<1>1. ~Tick
  BY DEF Tick
<1>2. ~Crash
  BY DEF Crash
<1>3. PICK d \in Clients : Handler(d)
  BY <1>1, <1>2 DEF Next
<1>4. CASE \E answered \in BOOLEAN : WriteRow(d, answered)
  <2>1. \E code \in Replies : Finish(d, code)
    BY <1>4 DEF WriteRow, Replies
  <2>2. d = c
    BY <2>1, FinishLemma DEF IInv, Untouched
  <2> QED BY <1>4, <2>2
<1>5. CASE \E answered \in BOOLEAN : InsertRow(d, answered)
  <2>1. \E code \in Replies : Finish(d, code)
    BY <1>5 DEF InsertRow, Replies
  <2>2. d = c
    BY <2>1, FinishLemma DEF IInv, Untouched
  <2> QED BY <1>5, <2>2 DEF InsertRow
<1>6. CASE BeginCreate(d) \/ BeginGet(d) \/ BeginUpdate(d) \/ BeginChangeStatus(d)
  <2>1. pc[d] = "idle" /\ \A e \in Clients : e # d => pc'[e] = pc[e]
    BY <1>6 DEF BeginCreate, BeginGet, BeginUpdate, BeginChangeStatus, Begin,
                IInv, TypeOK
  <2> QED BY <2>1
<1>7. CASE ReadRow(d) \/ Apply(d)
  <2>1. pc[d] # "write" /\ \A e \in Clients : e # d => pc'[e] = pc[e]
    BY <1>7 DEF ReadRow, Apply, IInv, TypeOK
  <2> QED BY <2>1
<1>8. CASE \/ Refuse(d) \/ InsertDuplicate(d) \/ ReadMissing(d) \/ ReadAnswer(d)
           \/ ApplyRefused(d)
  <2>1. pc[d] # "write" /\ \E code \in Replies : Finish(d, code)
    BY <1>8 DEF Refuse, InsertDuplicate, ReadMissing, ReadAnswer, ApplyRefused, Replies
  <2>2. \A e \in Clients \ {d} : pc'[e] = pc[e]
    BY <2>1, FinishLemma DEF IInv, Untouched
  <2> QED BY <2>1, <2>2
<1>9. CASE StatementFails(d)
  <2>1. Finish(d, "INTERNAL") /\ rows' = rows
    BY <1>9 DEF StatementFails
  <2>2. d = c
    BY <2>1, FinishLemma DEF IInv, Untouched, Replies
  <2>3. reply'[c] = "INTERNAL"
    BY <2>1, <2>2 DEF Finish, IInv, TypeOK
  <2> QED BY <2>1, <2>3
<1> QED BY <1>3, <1>4, <1>5, <1>6, <1>7, <1>8, <1>9 DEF Handler

\* What a write that is answered 200, or changes the table, has done: what was
\* asked, in its own row, and to the columns that are as they were read no more.
THEOREM WritesExact == Spec => WriteExact
<1> DEFINE Exact(c) ==
      LET r   == req[c]
          old == rows[r.id]
          new == rows'[r.id]
      IN
      /\ pc[c] = "write"
      /\ pc'[c] = "idle"
      /\ reply'[c] = "OK" \/ rows' # rows
      => /\ DOMAIN rows' = DOMAIN rows
         /\ \A i \in DOMAIN rows \ {r.id} : rows'[i] = rows[i]
         /\ new.addr = old.addr
         /\ new.createdAt = old.createdAt
         /\ copy[c].updatedAt = old.updatedAt => new.updatedAt >= old.updatedAt
         /\ IF r.op = "status"
              THEN /\ new.status = r.target
                   /\ copy[c].status = old.status =>
                         <<old.status, new.status>> \in LegalMoves
                   /\ copy[c].fee = old.fee => new.fee = old.fee
                   /\ copy[c].contact = old.contact => new.contact = old.contact
              ELSE /\ copy[c].status = old.status => new.status = old.status
                   /\ r.fee \in Amounts => new.fee = r.fee
                   /\ r.fee = Empty => new.fee = ZeroAmount
                   /\ r.fee = Absent /\ copy[c].fee = old.fee => new.fee = old.fee
                   /\ r.contact # Absent => new.contact = r.contact
                   /\ r.contact = Absent /\ copy[c].contact = old.contact =>
                         new.contact = old.contact
<1>1. ASSUME IInv, Next, NEW c \in Clients
      PROVE  Exact(c)
  <2> SUFFICES ASSUME pc[c] = "write", pc'[c] = "idle",
                      reply'[c] = "OK" \/ rows' # rows
               PROVE  Exact(c)
    OBVIOUS
  <2>1. PICK answered \in BOOLEAN : WriteRow(c, answered)
    BY <1>1, WriterLemma
  <2>2. /\ DOMAIN rows' = DOMAIN rows
        /\ rows'[req[c].id] = NewRow(c)
        /\ \A i \in DOMAIN rows : i # req[c].id => rows'[i] = rows[i]
        /\ NewRow(c).addr = rows[req[c].id].addr
        /\ NewRow(c).createdAt = rows[req[c].id].createdAt
    BY <1>1, <2>1, WriteFacts
  <2>3. /\ HandlerOK(c)
        /\ copy[c] \in Row
        /\ req[c].op \in {"update", "status"}
        /\ copy[c].updatedAt <= stamp[c]
        /\ Applicable(c)
        /\ TypeOK
    BY <1>1 DEF IInv, HandlerOK, UpdateOK, WriteOK
  <2>4. NewRow(c).updatedAt >= copy[c].updatedAt
    <3>1. stamp[c] \in Nat /\ copy[c].updatedAt \in Nat
      BY <2>3 DEF TypeOK, Row, Table!Row
    <3> QED BY <2>3, <3>1, NewRowFacts
  <2>5. CASE req[c].op = "status"
    <3>1. copy[c].status \in Statuses /\ req[c].target \in transitions[copy[c].status]
      BY <2>3, <2>5 DEF Applicable, CanTransition, Row, Table!Row, Statuses,
                        Table!Statuses
    <3>2. <<copy[c].status, req[c].target>> \in LegalMoves
      BY <3>1 DEF transitions, Statuses, LegalMoves
    <3> QED BY <2>2, <2>3, <2>4, <2>5, <3>2, NewRowFacts
  <2>6. CASE req[c].op = "update"
    BY <2>2, <2>3, <2>4, <2>6, NewRowFacts
  <2> QED BY <2>3, <2>5, <2>6
<1>2. ASSUME IInv, [Next]_vars
      PROVE  [\A c \in Clients : Exact(c)]_vars
  BY <1>1, <1>2
<1> QED BY <1>2, Invariance, PTL DEF Spec, WriteExact

\* The handlers implement the abstract table: concurrent full-row writes never
\* do more to it than insert fresh rows and replace what may change.
THEOREM ImplementsTable == Spec => TableSpec
<1>1. Init => Table!Init
  BY DEF Init, Table!Init
<1>2. ASSUME IInv, [Next]_vars
      PROVE  [Table!Next]_rows
  <2>1. ASSUME NEW c \in Clients, NEW answered \in BOOLEAN, InsertRow(c, answered)
        PROVE  Table!Next
    <3> DEFINE id == req[c].id
    <3>1. /\ id \in Ids \ DOMAIN rows
          /\ copy[c] \in Row
          /\ copy[c].status = "VACANT"
          /\ copy[c].updatedAt = copy[c].createdAt
      BY <1>2, <2>1 DEF IInv, HandlerOK, InsertOK, InsertRow
    <3>2. ~ Table!AddressTaken(rows, copy[c].addr) /\ rows' = Table!Put(rows, id, copy[c])
      BY <2>1 DEF InsertRow, UniqueViolation, AddressTaken, Put
    <3>3. id \in DOMAIN rows' /\ rows'[id] = copy[c]
      BY <3>2 DEF Table!Put
    <3>4. Table!Insert(id, rows'[id])
      BY <3>1, <3>2, <3>3 DEF Table!Insert, Table!Stores, Row
    <3> QED BY <3>1, <3>3, <3>4 DEF Table!Next
  <2>2. ASSUME NEW c \in Clients, NEW answered \in BOOLEAN, WriteRow(c, answered)
        PROVE  Table!Next
    <3> DEFINE id == req[c].id
    <3>1. /\ id \in DOMAIN rows
          /\ id \in DOMAIN rows'
          /\ rows'[id] = NewRow(c)
          /\ NewRow(c).addr = rows[id].addr
          /\ NewRow(c).createdAt = rows[id].createdAt
          /\ NewRow(c).createdAt \in Nat
          /\ NewRow(c).updatedAt \in Nat
          /\ NewRow(c).createdAt <= NewRow(c).updatedAt
      BY <1>2, <2>2, WriteFacts
    <3>2. id \in Ids /\ rows \in [DOMAIN rows -> Row]
      BY <1>2, <3>1 DEF IInv, TypeOK
    <3>3. NewRow(c) \in Row
      BY <1>2, <2>2, NewRowFacts DEF IInv, WriteRow
    <3>4. rows' = Table!Put(rows, id, NewRow(c))
      <4>1. rows' = [rows EXCEPT ![id] = NewRow(c)]
        BY <2>2 DEF WriteRow
      <4> HIDE DEF id
      <4>2. rows' = [i \in DOMAIN rows |-> IF i = id THEN NewRow(c) ELSE rows[i]]
        BY <3>1, <3>2, <4>1
      <4>3. DOMAIN rows \cup {id} = DOMAIN rows
        BY <3>1
      <4> QED BY <4>2, <4>3 DEF Table!Put
    <3>5. Table!Replace(id, rows'[id])
      BY <3>1, <3>3, <3>4 DEF Table!Replace, Table!Stores, Row
    <3> QED BY <3>1, <3>2, <3>5 DEF Table!Next
  <2>3. CASE UNCHANGED rows
    BY <2>3
  <2>4. \/ UNCHANGED rows
        \/ \E c \in Clients, answered \in BOOLEAN :
              InsertRow(c, answered) \/ WriteRow(c, answered)
    BY <1>2 DEF Next, Handler, vars, Crash, Tick, Refuse, BeginCreate, BeginGet,
                BeginUpdate, BeginChangeStatus, Begin, InsertDuplicate, ReadMissing,
                ReadAnswer, ReadRow, ApplyRefused, Apply, StatementFails
  <2> QED BY <2>1, <2>2, <2>3, <2>4
<1> QED BY <1>1, <1>2, Invariance, PTL DEF Spec, TableSpec, Table!Spec
===============================================================================
