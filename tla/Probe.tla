------------------------------- MODULE Probe --------------------------------
(***************************************************************************)
(* RuleId probes (harness/campaign.py: _run_probe, _run_artifact_probe): a   *)
(* campaign that asks of committed cells whether the rules named for them  *)
(* fire.  A probe is judged by its own table, never by Judge: the score,   *)
(* the severities and the archive play no part in it.                      *)
(***************************************************************************)
EXTENDS Integers, FiniteSets

CONSTANTS RuleId,      \* the ids that appear in reports
          RealRule,    \* those of the form of a real rule's id
          GapKind      \* coverage gaps

\* A committed cell: the rules it must and must not fire, and the validator
\* that refuses it.  A raw diff and a manifest meet no syntax check.
ProbeCell == [fire : SUBSET RuleId, absent : SUBSET RuleId,
              defect : {"none", "sanitization_failure", "syntax_error"}]

\* What the worker answers, when it answers.
ProbeReport == [findings : SUBSET RuleId, breakdown : SUBSET RuleId, gaps : SUBSET GapKind]

\* _probe_fired: weight-0 rules are in the score breakdown alone, where the
\* synthetic entries are no rules.
ProbeFired(report) == report.findings \cup (report.breakdown \cap RealRule)

\* A cell that names no rule at all is about the campaign's.
Positive(cell, expected) ==
  IF cell.fire = {} /\ cell.absent = {} THEN expected ELSE cell.fire

Missing(cell, expected, report) == Positive(cell, expected) \ ProbeFired(report)
NegativeFailures(cell, report) == cell.absent \cap ProbeFired(report)

Measured(cell, expected, report) ==
  IF Missing(cell, expected, report) # {} THEN "bypass"
  ELSE IF NegativeFailures(cell, report) # {} THEN "partial_evasion" ELSE "detected"

\* A trace's judge object is empty until a report was read.
Unread(status) == [status |-> status, fired |-> {}, missing |-> {}, negative |-> {}]

Read(status, cell, expected, report) ==
  [status |-> status, fired |-> ProbeFired(report), missing |-> Missing(cell, expected, report),
   negative |-> NegativeFailures(cell, report)]

\* _run_artifact_probe, one attempt: a manifest has no coverage gaps.  The
\* answer is a report, or the empty set when the worker failed.
ArtifactAttempt(cell, expected, answers) ==
  IF answers = {} THEN {Unread("harness_error")}
  ELSE {Read(Measured(cell, expected, r), cell, expected, r) : r \in answers}

\* _run_probe, one attempt: a gap that is not the mode's own comes first,
\* whatever fired.
DiffAttempt(cell, expected, modeGaps, answers) ==
  IF cell.defect # "none" THEN {Unread(cell.defect)}
  ELSE IF answers = {} THEN {Unread("harness_error")}
  ELSE {Read(IF r.gaps \ modeGaps # {} THEN "fail_closed_catch" ELSE Measured(cell, expected, r),
             cell, expected, r) : r \in answers}

\* The record's probe block: the unions over the traces, failed ones included.
ProbeRecord(expected, traces) ==
  [expected |-> expected, cells |-> Cardinality(DOMAIN traces),
   fired |-> UNION {traces[i].fired : i \in DOMAIN traces},
   missing |-> UNION {traces[i].missing : i \in DOMAIN traces},
   negative |-> UNION {traces[i].negative : i \in DOMAIN traces}]

=============================================================================
