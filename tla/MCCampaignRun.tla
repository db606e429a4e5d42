--------------------------- MODULE MCCampaignRun ---------------------------
(***************************************************************************)
(* CampaignRun for TLC: eight diffs over two named cells and an unshaped   *)
(* one.  new1 and new2 are the same measurement; anon1 and anon2 share the *)
(* unshaped cell under different chains; wide fills two cells; old and     *)
(* same were recorded as bypasses at another and at the installed version; *)
(* bad does not parse.                                                     *)
(***************************************************************************)
EXTENDS CampaignRun, TLC

CONSTANTS a, b, u

MCDiff == {"new1", "new2", "anon1", "anon2", "wide", "old", "same", "bad"}

MCDefect == [d \in MCDiff |-> IF d = "bad" THEN "syntax_error" ELSE "none"]

MCCellsOf ==
  [d \in MCDiff |-> CASE d \in {"new1", "new2", "old", "bad"} -> {a}
                      [] d \in {"anon1", "anon2"} -> {u}
                      [] d = "wide" -> {a, b}
                      [] d = "same" -> {}]

MCChain == [d \in MCDiff |-> IF d = "anon2" THEN "pipe" ELSE "fetch"]
MCSize == [d \in MCDiff |-> IF d = "new1" THEN 2 ELSE 1]

Clean == [findings |-> {}, gaps |-> {"tree_not_analyzed"}, score |-> 0]
Caught == [Clean EXCEPT !.findings = {[rule |-> "r1", severity |-> "HIGH"]},
                        !.score = 2]
Cut == [Clean EXCEPT !.gaps = @ \cup {"diff_truncated"}]
Alien == [Clean EXCEPT !.gaps = @ \cup {"new_gap"}]

MCReport == {Clean, Caught, Cut, Alien}
MCAnswer == [d \in MCDiff |-> CASE d = "new2" -> Caught
                                [] d = "same" -> Cut
                                [] OTHER -> Clean]
MCAnswerAlien == [MCAnswer EXCEPT !["wide"] = Alien]

MCOrigin == "old" :> "v1" @@ "same" :> "v2"

Seen(n) == [NewEntry(FALSE) EXCEPT
              !.obs = [o \in [campaign : {"other"}, attempt : 1..n,
                                version : {"v2"}] |-> 1]]
MCGrids == {Corrupt, EmptyGrid, u :> Seen(1), u :> Seen(2)}

(* What the theorems about earned and saturated cells ask of the archive.  *)
ASSUME StartAssumption == FreshStart /\ StartsBelow

=============================================================================
