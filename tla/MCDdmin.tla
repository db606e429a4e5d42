------------------------------- MODULE MCDdmin -------------------------------
(* Every pipeline over four change lines, those over five lines that need    *)
(* one of two sets of them, a single line, and a diff above the ceiling.     *)
EXTENDS Ddmin

Four == 1..4
Five == 1..5
MCProblem ==
  {[units |-> <<1, 2, 3, 4>>, accepted |-> a] :
     a \in SUBSET {s \in SUBSET Four : s # {} /\ s # Four}}
  \cup {[units |-> <<1, 2, 3, 4, 5>>,
         accepted |-> {s \in SUBSET Five : r \subseteq s \/ q \subseteq s}] :
          r \in SUBSET Five, q \in SUBSET Five}
  \cup {[units |-> <<7>>, accepted |-> {}],
        [units |-> <<1, 2, 3, 4, 5, 6>>, accepted |-> SUBSET (1..6)]}
=============================================================================
