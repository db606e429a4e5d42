----------------------------- MODULE MCFixTree ------------------------------
(***************************************************************************)
(* FixTree for TLC: two verdicts of up to two fixes over four files; fixes *)
(* that share a file, one that deletes another's and creates its own, one  *)
(* that creates the deleted file anew, one over the caps, one that targets *)
(* a file nobody may change and one that is not ASCII; a snapshot that     *)
(* bears a finding out, and one that cannot be read.                       *)
(***************************************************************************)
EXTENDS FixTree, TLC

CONSTANTS f1, f2, f3, f4, f5, f6, bad

MCTargets == f1 :> {"a"} @@ f2 :> {"a", "b"} @@ f3 :> {"b"} @@ f4 :> {"c"} @@ f5 :> {"c", "ci"} @@ f6 :> {"a"}
             @@ bad :> {"c"}
MCDeletes == f3 :> {"a"} @@ [f \in {f1, f2, f4, f5, f6, bad} |-> {}]
MCCreates == f2 :> {"b"} @@ f3 :> {"b"} @@ f6 :> {"a"} @@ [f \in {f1, f4, f5, bad} |-> {}]
MCAdded == [f \in {f1, f4} |-> 2] @@ [f \in {f2, f3, f5, f6, bad} |-> 1]
MCNames == f1 :> "a" @@ f2 :> "b" @@ f3 :> "b" @@ f4 :> "c" @@ f5 :> "c" @@ f6 :> "a" @@ bad :> "c"

Citing(rule) == [rule |-> rule, urls |-> {"u"}, file |-> "i"]
MCCited == "p" :> {Citing("source"), Citing("phantom")} @@ "q" :> {Citing("other")}
MCSeen == {[sources |-> {}, opaque |-> FALSE, files |-> {"i"}], [sources |-> {}, opaque |-> TRUE, files |-> {"i"}]}

=============================================================================
