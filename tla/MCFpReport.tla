----------------------------- MODULE MCFpReport -----------------------------
(***************************************************************************)
(* FpReport for TLC: two packages of one alert, split from one base, and   *)
(* the first of them in a later alert.                                     *)
(***************************************************************************)
EXTENDS FpReport, TLC

CONSTANTS early, split, late

MCAlert == early :> "a" @@ split :> "a" @@ late :> "b"
MCPackage == early :> "x" @@ split :> "y" @@ late :> "x"
MCBase == early :> "p" @@ split :> "p" @@ late :> "p"
MCJudgment == {[i \in {1, 2} |-> "benign"], 1 :> "none" @@ 2 :> "open"}

MCPasses == {<<"x", "d">>}

MCSymmetry == Permutations(Writer)

=============================================================================
