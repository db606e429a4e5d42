------------------------------- MODULE Matrix -------------------------------
(***************************************************************************)
(* The two readings of the shape archive: the hardness matrix a release    *)
(* publishes, its diff between versions (harness/matrix.py), and the map   *)
(* of open cells a generator is prompted with (Archive.open_cells).        *)
(***************************************************************************)
EXTENDS Grid

CONSTANT RuleOf        \* the rule of a cell

\* _cell_state.
CellState(g, c, v, saturation) ==
  IF g[c].degraded THEN "degraded"
  ELSE IF IsClosed(g, c, v, saturation) THEN "closed"
  ELSE IF c \in Unshaped THEN "unshaped" ELSE "open"

Unresolved == {"open", "unshaped", "degraded"}

\* build_matrix: it raises on a row the instrument does not ship.
Buildable(g, known) == \A c \in DOMAIN g : RuleOf[c] \in known

HardnessMatrix(g, v, saturation) == [c \in DOMAIN g |-> CellState(g, c, v, saturation)]

CellsOfRule(matrix, rule) == {c \in DOMAIN matrix : RuleOf[c] = rule}
RowState(matrix, rule) ==
  IF CellsOfRule(matrix, rule) = {} THEN "unproven"
  ELSE IF \E c \in CellsOfRule(matrix, rule) : matrix[c] \in Unresolved THEN "open" ELSE "hardened"

Summary(matrix, known) ==
  [state \in {"hardened", "open", "unproven"} |-> Cardinality({r \in known : RowState(matrix, r) = state})]

\* matrix_diff, its three sections.
UnresolvedIn(matrix) == {c \in DOMAIN matrix : matrix[c] \in Unresolved}
MatrixDiff(before, after) ==
  [closed |-> {c \in DOMAIN after : after[c] = "closed" /\ c \in UnresolvedIn(before)},
   opened |-> UnresolvedIn(after) \ UnresolvedIn(before),
   growth |-> DOMAIN after \ DOMAIN before]

\* open_cells, for one rule: a degraded cell has no bucket of its own here.
PromptMap(g, rule, v, saturation) ==
  LET mine == {c \in DOMAIN g : RuleOf[c] = rule}
      closed == {c \in mine : IsClosed(g, c, v, saturation)}
  IN [closed |-> closed, unshaped |-> (mine \ closed) \cap Unshaped,
      open |-> (mine \ closed) \ Unshaped, vocabulary |-> mine]

=============================================================================
