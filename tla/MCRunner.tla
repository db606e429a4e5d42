------------------------------ MODULE MCRunner ------------------------------
(***************************************************************************)
(* Runner for TLC: two threads, which are interchangeable, two             *)
(* environments, and enough calls for a failure, its respawn and a reuse.  *)
(***************************************************************************)
EXTENDS Runner, TLC

CONSTANTS t1, t2

Interchangeable == Permutations({t1, t2})

=============================================================================
