------------------------------- MODULE Listing --------------------------------
(***************************************************************************)
(* What is kept of a list, and what a list adds up to.  SelectSeq and the  *)
(* folds take an operator, of which nothing can be proved; these take a    *)
(* set and a function.                                                     *)
(***************************************************************************)
EXTENDS Naturals, Sequences

\* The elements of s that are in S, in their order.
Filtered(s, S) ==
  LET kept[i \in 0..Len(s)] ==
        IF i = 0 THEN <<>> ELSE IF s[i] \in S THEN Append(kept[i - 1], s[i]) ELSE kept[i - 1]
  IN kept[Len(s)]

\* The sum of f over s.
Total(s, f) ==
  LET sum[i \in 0..Len(s)] == IF i = 0 THEN 0 ELSE sum[i - 1] + f[s[i]]
  IN sum[Len(s)]

=============================================================================
