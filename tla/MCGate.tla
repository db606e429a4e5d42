------------------------------- MODULE MCGate -------------------------------
(* Three bypasses of two cells, one of them no longer parsable, and three   *)
(* revisions of which the second declares the version of the first.         *)
EXTENDS Gate

CONSTANTS a, b

MCCellOf == <<{a}, {a, b}, {b}>>
MCLabelOf == [r \in 0..2 |-> IF r = 2 THEN "v2" ELSE "v1"]
MCAnswer == <<[r \in 0..2 |-> IF r = 1 THEN "bypass" ELSE "caught"],
              [r \in 0..2 |-> CASE r = 0 -> "bypass" [] r = 1 -> "caught" [] OTHER -> "gap"],
              [r \in 0..2 |-> "gap"]>>
=============================================================================
