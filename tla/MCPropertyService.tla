--------------------------- MODULE MCPropertyService ---------------------------
(***************************************************************************)
(* Values, symmetry and a bound for the runs of PropertyService.           *)
(***************************************************************************)
EXTENDS PropertyService, TLC, FiniteSets

\* Handlers, ids and contacts are interchangeable.
Symmetry == Permutations(Clients) \cup Permutations(Ids) \cup Permutations(Contacts)
            \cup Permutations(Addresses)

\* The last answer decides nothing: no guard reads it, and a property only in
\* the state after the step that gives it.
WithoutReply == <<rows, clock, pc, req, copy, stamp, created>>

\* Two rows at once are about ids, addresses and statuses: they are followed at
\* time 0 and with one fee.  A single row is followed with all fees and times.
TwoRowsAreSmall ==
    Cardinality(DOMAIN rows) > 1 =>
        clock = 0 /\ \A i \in DOMAIN rows : rows[i].fee = ZeroAmount
===============================================================================
