---------------------------- MODULE MCPropertyList ----------------------------
(***************************************************************************)
(* Values for the runs of PropertyList.  Four bits for an int and pages of *)
(* up to four rows: (5 - 1) * 4 is a multiple of 2^4, as (2^62 + 1 - 1) *  *)
(* 100 is one of 2^64, and (3 - 1) * 4 is past the greatest int.           *)
(***************************************************************************)
EXTENDS PropertyList, TLC

CONSTANTS a1, a2, a3, k

MCAddresses == {a1, a2, a3}
MCCityOf == [a \in MCAddresses |-> IF a = a3 THEN "south" ELSE "north"]

MCFilterParams ==
    {[city |-> "north", status |-> "unknown"], [city |-> AnyValue, status |-> "VACANT"]}

\* Two addresses of one city are interchangeable.
Symmetry == Permutations({a1, a2})
===============================================================================
