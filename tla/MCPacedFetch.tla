---------------------------- MODULE MCPacedFetch ----------------------------
(***************************************************************************)
(* PacedFetch for TLC: a process with two threads and one with a single    *)
(* thread; a window of three seconds that holds two slots.                 *)
(***************************************************************************)
EXTENDS PacedFetch, TLC

CONSTANTS t1, t2, t3

MCProcessOf == t1 :> "p" @@ t2 :> "p" @@ t3 :> "q"

MCOneProcess == [t \in {t1, t2, t3} |-> "p"]

=============================================================================
