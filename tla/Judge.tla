------------------------------- MODULE Judge -------------------------------
(***************************************************************************)
(* The harness's verdict function (harness/judge.py) and the two readings  *)
(* of a verdict that decide whether a bypass is still open: the campaign's *)
(* patch_verification and the regression gate's _classify.                 *)
(*                                                                         *)
(* A report is abstracted to what the verdict depends on: its findings     *)
(* (rule and severity), its coverage gaps and its score.                   *)
(***************************************************************************)
EXTENDS Integers, FiniteSets

CONSTANTS KnownSeverities,  \* the severity vocabulary the Judge was written for
          KnownGaps         \* the coverage-gap vocabulary, likewise

ASSUME JudgeAssumption == "FATAL" \in KnownSeverities

(* Statuses a stage before TrustSight assigns; judge() passes them through *)
EarlyStatus == {"sanitization_failure", "duplicate", "syntax_error",
                "constraint_violation", "behavior_lost"}

(* Statuses the Judge derives from a report. *)
ReportStatus == {"detected", "partial_evasion", "inconclusive",
                 "fail_closed_catch", "bypass"}

Status == EarlyStatus \cup ReportStatus
             \cup {"known_bypass_match", "harness_error"}

(* Statuses that reached TrustSight, the denominator of the bypass rate.   *)
Reached == ReportStatus \cup {"known_bypass_match"}

(* UnknownVerdictError: the report holds a severity or a gap type that the *)
(* Judge was not written for, and the run stops instead of guessing.       *)
Unknown == "unknown_verdict"

Fired(report) == {f.rule : f \in report.findings}
Severities(report) == {f.severity : f \in report.findings}

(* Gaps the canary produces too are a property of the analysis mode.       *)
OwnGaps(report, modeGaps) == report.gaps \ modeGaps

Understood(report, modeGaps) ==
  /\ Severities(report) \subseteq KnownSeverities
  /\ OwnGaps(report, modeGaps) \subseteq KnownGaps

(* Mutant: gaps that count only while no rule has fired.                   *)
VerdictGapsOnlyWhenSilent(report, threshold, expected, modeGaps) ==
  IF ~ Understood(report, modeGaps) THEN Unknown
  ELSE IF "FATAL" \in Severities(report) THEN "detected"
  ELSE IF OwnGaps(report, modeGaps) # {} /\ Fired(report) = {} THEN "fail_closed_catch"
  ELSE IF report.score <= threshold THEN "bypass"
  ELSE IF Fired(report) \cap expected # {} THEN "detected" ELSE "partial_evasion"

(* judge(): the tests in the order the code applies them.                  *)
Verdict(report, threshold, expected, modeGaps) ==
  IF ~ Understood(report, modeGaps) THEN Unknown
  ELSE IF "FATAL" \in Severities(report) THEN "detected"
  ELSE IF OwnGaps(report, modeGaps) # {} THEN "fail_closed_catch"
  ELSE IF report.score <= threshold THEN "bypass"
  ELSE IF expected = {} THEN "inconclusive"
  ELSE IF Fired(report) \cap expected # {} THEN "detected"
  ELSE "partial_evasion"

(* patch_verification: what a re-run of a known bypass says of the patch.  *)
PatchStatus(status) ==
  IF status \in {"bypass", "fail_closed_catch"} THEN "regression"
                                                ELSE "verified"

(* _classify: the gate's state of a replayed bypass.  stage_degraded is    *)
(* the one gap the gate retries.                                           *)
GateState(status, gaps) ==
  CASE status = "bypass" -> "open"
    [] status = "fail_closed_catch" ->
         IF "stage_degraded" \in gaps THEN "degraded" ELSE "inconclusive"
    [] OTHER -> "closed"

=============================================================================
