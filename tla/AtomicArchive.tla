--------------------------- MODULE AtomicArchive ---------------------------
(***************************************************************************)
(* What the shared archive promises its writers (the docstring of          *)
(* Archive.merge_into): each prepares a grid of its own, and the file      *)
(* takes a writer's grid whole, on top of everything it held, in one step. *)
(***************************************************************************)
EXTENDS Grid

CONSTANT Writer

VARIABLES file,    \* the shared grid
          pending  \* the grid each writer holds

Init ==
  /\ IsGrid(file)
  /\ pending \in [Writer -> {EmptyGrid}]

(* A writer works on its own grid, or drops it; the file is untouched.     *)
Prepare(w) ==
  /\ IsGrid(pending'[w])
  /\ pending' = [pending EXCEPT ![w] = pending'[w]]
  /\ UNCHANGED file

Publish(w) ==
  /\ file' = Merge(file, pending[w])
  /\ UNCHANGED pending

Next == \E w \in Writer : Prepare(w) \/ Publish(w)

Spec == Init /\ [][Next]_<<file, pending>>

=============================================================================
