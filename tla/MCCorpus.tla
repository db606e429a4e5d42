------------------------------ MODULE MCCorpus ------------------------------
(* Two campaigns that produce the same two diffs in opposite orders, over   *)
(* three versions: the first lets both through, the later ones catch one.   *)
EXTENDS Corpus

CONSTANTS d1, d2

MCYields == <<<<d1, d2>>, <<d2, d1>>>>
MCOpen == <<{d1, d2}, {d1}, {d1}>>
=============================================================================
