----------------------------- MODULE JudgeWalk -----------------------------
(***************************************************************************)
(* A report that accretes evidence one item at a time.  It is how a        *)
(* property of the verdict function that compares two reports is stated:   *)
(* the next report always says at least what the present one says.         *)
(***************************************************************************)
EXTENDS Judge

CONSTANTS Rule,        \* rule identifiers a finding can carry
          Severity,    \* severities a report can contain, known or not
          Gap,         \* gap types a report can contain, known or not
          Expected,    \* the campaign's expected rules
          Threshold,   \* the campaign's flag threshold
          MaxScore     \* bound on the score

ASSUME WalkAssumption == Threshold \in Nat /\ MaxScore \in Nat

VARIABLES report,   \* the report being built
          modeGaps  \* the gaps the canary produced at startup

vars == <<report, modeGaps>>

status == Verdict(report, Threshold, Expected, modeGaps)

Init ==
  /\ report = [findings |-> {}, gaps |-> {}, score |-> 0]
  /\ modeGaps \in SUBSET (Gap \cap KnownGaps)

AddFinding ==
  /\ \E r \in Rule, s \in Severity :
       report' = [report EXCEPT !.findings = @ \cup {[rule |-> r, severity |-> s]}]
  /\ UNCHANGED modeGaps

AddGap ==
  /\ \E g \in Gap : report' = [report EXCEPT !.gaps = @ \cup {g}]
  /\ UNCHANGED modeGaps

RaiseScore ==
  /\ report.score < MaxScore
  /\ report' = [report EXCEPT !.score = @ + 1]
  /\ UNCHANGED modeGaps

Next == AddFinding \/ AddGap \/ RaiseScore

Spec == Init /\ [][Next]_vars

=============================================================================
