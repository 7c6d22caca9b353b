--------------------------- MODULE MCPropertyAmounts ---------------------------
(***************************************************************************)
(* Values for the run of PropertyAmounts: columns up to 0.03 (the area up  *)
(* to 0.02) and an INT up to 2 in place of 9999999999.99, 99999999.99 and  *)
(* 2147483647.                                                             *)
(***************************************************************************)
EXTENDS PropertyAmounts

\* Below zero, zero, and both sides of every half up to past the greatest.
MCDecimals == {-10, 0, 4, 5, 14, 15, 24, 25, 34, 35}

MCMonths == {-1, 0, 2, 3}

MCMaxStored == [c \in Columns |-> IF c = "area_ping" THEN 2 ELSE 3]
================================================================================
