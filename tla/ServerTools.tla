---------------------------- MODULE ServerTools -----------------------------
(***************************************************************************)
(* The MCP server's own passes over a diff, a report and the instrument    *)
(* (harness/mcp/server.py: validate_diff, judge_verdict, preflight).  They *)
(* do again, for a client, what a campaign does in _validate and judge.    *)
(***************************************************************************)
EXTENDS Judge

CONSTANTS Technique,   \* what a campaign may forbid a recipe to use
          Goal         \* the behaviour goals a validator knows

(***************************************************************************)
(* validate_diff.                                                          *)
(***************************************************************************)
\* A recipe: the techniques it uses and the goals its chain is proven for.
Recipe == [uses : SUBSET Technique, proves : SUBSET Goal]

\* A proposed diff, the recipe its hunks give, and the whole recipe if the
\* generator supplied one.
Proposal == [clean : BOOLEAN, parses : BOOLEAN, hunks : Recipe, whole : SUBSET Recipe]

Passed == "passed"
Error == "error"

Checked(d, recipe, forbidden, goal) ==
  IF ~d.clean THEN "sanitization_failure"
  ELSE IF ~d.parses THEN "syntax_error"
  ELSE IF recipe.uses \cap forbidden # {} THEN "constraint_violation"
  ELSE IF goal \notin recipe.proves THEN "behavior_lost" ELSE Passed

\* The tool has the hunks alone.  With no bash it answers that once the text
\* is clean, with patterns that do not compile once it parses; a goal it does
\* not know is the caller's mistake, unless the diff was refused before.
ValidateDiff(d, forbidden, goal, bash, compiles) ==
  LET status == Checked(d, d.hunks, forbidden, goal)
  IN IF \/ status # "sanitization_failure" /\ ~bash
        \/ status \notin {"sanitization_failure", "syntax_error"} /\ ~compiles
        \/ status = "behavior_lost" /\ goal \notin Goal
       THEN Error ELSE status

\* _validate, of a diff that no gate of the campaign knows already.
ValidateAttempt(d, forbidden, goal) ==
  {Checked(d, recipe, forbidden, goal) : recipe \in IF d.whole = {} THEN {d.hunks} ELSE d.whole}

(***************************************************************************)
(* judge_verdict.                                                          *)
(***************************************************************************)
\* The parts of a report that a client's body has; the judge reads no others.
Part == {"score", "findings", "gaps", "rest"}

\* _Report: what is left out, or is no object, is read as nothing at all.
Rebuilt(report, parts, objects) ==
  [score    |-> IF "score" \in parts THEN report.score ELSE 0,
   findings |-> IF "findings" \in parts THEN report.findings \cap objects ELSE {},
   gaps     |-> IF "gaps" \in parts THEN report.gaps ELSE {}]

\* An empty body is no report; an early status passes straight through; an
\* unknown severity or gap comes back as an error.
JudgeVerdict(early, report, parts, objects, threshold, expected, modeGaps) ==
  IF early # "" THEN (IF early \in Status THEN early ELSE Error)
  ELSE IF parts = {} THEN Error
  ELSE LET status == Verdict(Rebuilt(report, parts, objects), threshold, expected, modeGaps)
       IN IF status = Unknown THEN Error ELSE status

(***************************************************************************)
(* check_calibration and preflight.                                        *)
(***************************************************************************)
\* The fixtures in which the validator finds a chain, of those where there is
\* one to find and those where there is none.
Calibrated(malicious, benign, found) ==
  malicious \cup benign # {} /\ malicious \subseteq found /\ benign \cap found = {}

\* Each check that is made, with its outcome.  The calibration suite does not
\* wait for an analysis that holds the lock.
Checks(machine, package, deep) ==
  {<<"trustsight_importable", machine.importable>>,
   <<"version_matches_default", machine.installed = machine.declared>>,
   <<"canary_present", machine.canary>>,
   <<"corpus_database", machine.database>>,
   <<"watcher_feed", machine.feed>>}
  \cup (IF machine.readable THEN {} ELSE {<<"defaults_readable", FALSE>>})
  \cup (IF package = {} THEN {} ELSE {<<"aur_reachable", machine.aur>>})
  \cup (IF deep THEN {<<"calibration", machine.free /\ Calibrated(machine.malicious, machine.benign, machine.found)>>}
        ELSE {})

Ready(machine, package, deep) == \A check \in Checks(machine, package, deep) : check[2]

=============================================================================
