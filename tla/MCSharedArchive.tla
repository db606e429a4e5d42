--------------------------- MODULE MCSharedArchive ---------------------------
(***************************************************************************)
(* SharedArchive for TLC: two campaigns, one of which cannot name shapes,  *)
(* and a gate that replays two committed bypasses that share a cell.       *)
(***************************************************************************)
EXTENDS SharedArchive, TLC

CONSTANTS a, b

MCVersionOf == [w \in {"c1", "c2", "gate"} |-> IF w = "c2" THEN "v1" ELSE "v2"]
MCReplayed == <<{a}, {a}>>
MCDiffs == {{a}, {a, b}}

Old == [NewEntry(TRUE) EXCEPT
          !.obs = [o \in {[campaign |-> "c2", attempt |-> 0, version |-> "v1"]} |-> 1],
          !.rep = 2]
MCRuns == [w \in {"c1", "c2", "gate"} |-> IF w = "c1" THEN 2 ELSE 1]
MCAttempts == [w \in {"c1", "c2"} |-> IF w = "c1" THEN 1 ELSE 2]
MCInitial == {a :> Old}

(* What the theorem about provenance asks of the archive at the start.     *)
ASSUME StartAssumption == OnceAtStart

=============================================================================
