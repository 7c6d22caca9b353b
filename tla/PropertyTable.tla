---------------------------- MODULE PropertyTable ----------------------------
(***************************************************************************)
(* What the property service promises about the properties table, whatever *)
(* requests run against it at once: rows are only ever added, each with an *)
(* address no other row has and in status VACANT; a stored row keeps its   *)
(* address and creation time for ever; its update time is never before its *)
(* creation time.  Nothing is promised about the order of statuses: that   *)
(* takes requests that do not overlap (PropertyService, WriteExact).       *)
(***************************************************************************)
EXTENDS Integers

CONSTANTS
    Ids,          \* property ids (UUIDs)
    Addresses,    \* (city, district, street_address, floor, room_no) tuples
    Amounts,      \* management fees, standing for every validated column
    Contacts      \* landlord contacts, standing for every free-text column

VARIABLE rows     \* the table: a function from the stored ids to rows

Statuses == {"VACANT", "OCCUPIED", "RENOVATING", "DELISTED"}

Row == [addr: Addresses, fee: Amounts, contact: Contacts, status: Statuses,
        createdAt: Nat, updatedAt: Nat]

Put(t, id, r) == [i \in DOMAIN t \cup {id} |-> IF i = id THEN r ELSE t[i]]

AddressTaken(t, addr) == \E i \in DOMAIN t : t[i].addr = addr

NoRows == [i \in {} |-> {}]

Init == rows = NoRows

\* The step stores r under id and leaves every other row alone.
Stores(id, r) == r \in Row /\ rows' = Put(rows, id, r)

Insert(id, r) ==
    /\ id \notin DOMAIN rows
    /\ ~AddressTaken(rows, r.addr)
    /\ r.status = "VACANT"
    /\ r.updatedAt = r.createdAt
    /\ Stores(id, r)

Replace(id, r) ==
    /\ id \in DOMAIN rows
    /\ r.addr = rows[id].addr
    /\ r.createdAt = rows[id].createdAt
    /\ r.updatedAt >= r.createdAt
    /\ Stores(id, r)

\* A constraint on steps, not a program: the new row is read off the next
\* state, so that checking a step against it enumerates no rows.
Next ==
    \E id \in Ids :
        /\ id \in DOMAIN rows'
        /\ Insert(id, rows'[id]) \/ Replace(id, rows'[id])

Spec == Init /\ [][Next]_rows
=============================================================================
