----------------------------- MODULE MCMeasure ------------------------------
(***************************************************************************)
(* Measure for TLC: blocks of every database state, one that declares      *)
(* another seed, one that declares none, one that accumulates, one that    *)
(* declares its fingerprint.                                               *)
(***************************************************************************)
EXTENDS Measure

Block(state, seed, snapshot, ioc, accumulate) ==
  [state |-> state, seed |-> seed, snapshot |-> snapshot, ioc |-> ioc, accumulate |-> accumulate,
   pinned |-> "installed", fingerprint |-> NoFingerprint]

MCRaw ==
  {Block("cold", "undeclared", "undeclared", FALSE, FALSE), Block("cold", "undeclared", "undeclared", TRUE, TRUE),
   Block("seeded", "matching", "undeclared", TRUE, FALSE), Block("seeded", "other", "undeclared", FALSE, FALSE),
   Block("seeded", "undeclared", "undeclared", FALSE, FALSE), [Block("snapshot", "undeclared", "whole", TRUE, FALSE) EXCEPT !.fingerprint = 1],
   Block("snapshot", "undeclared", "oversized", FALSE, FALSE)}

=============================================================================
