------------------------------ MODULE Measure -------------------------------
(***************************************************************************)
(* One instrument over a run of measurements (harness/environment.py, as   *)
(* the analysis worker runs it): the environment block is loaded, bound to *)
(* a directory that earlier runs have used, and before every measurement   *)
(* the database is put back to what the block declares.  The report then   *)
(* accretes evidence as in JudgeWalk and is checked before it is judged.   *)
(*                                                                         *)
(* A database is a file; TrustSight keeps one connection open to it, which *)
(* an unlink does not move.  Restoring takes several steps and may fail or *)
(* be killed after each; a new run starts from the files that were left.   *)
(***************************************************************************)
EXTENDS JudgeWalk

CONSTANTS
  Raw,        \* the environment blocks a campaign file may hold
  Default,    \* the review threshold of the shipped configuration
  MaxCrashes  \* bound on kills

NoFingerprint == -1

ASSUME MeasureAssumption ==
  /\ \A block \in Raw : block.ioc \in BOOLEAN /\ block.accumulate \in BOOLEAN /\ block.fingerprint \in Nat \cup {NoFingerprint}
  /\ Default \in Nat /\ MaxCrashes \in Nat

File == 1..2  \* the file the path names and one a connection may still have
None == 0
Empty == [base |-> "empty", ioc |-> FALSE, observed |-> FALSE]

VARIABLES
  env,     \* the environment block
  at,      \* the next call
  file,    \* what each file holds
  path,    \* the file that trustsight.db names
  conn,    \* the file of the cached connection
  tool,    \* the review threshold in config.toml, which is its identity
  adopted, \* the fingerprint the run has adopted
  made,    \* the threshold the report was made under
  shown,   \* what the report says of the configuration it was made under
  vouched, \* a report of this run has passed that says everything; ghost
  sees,    \* the database the analysis found; ghost
  crashes

store == <<file, path, conn>>
config == <<env, tool, adopted>>
identity == <<made, shown, vouched>>
measureVars == <<store, config, identity, at, sees, crashes>>
walkVars == <<report, modeGaps>>

DbState == {"cold", "seeded", "snapshot"}
Says == {"threshold", "fingerprint"}
NoEvidence == [findings |-> {}, gaps |-> {}, score |-> 0]
Content == [base : {"empty", "seed", "snapshot", "torn"}, ioc : BOOLEAN, observed : BOOLEAN]

MeasureTypeOK ==
  /\ env \in Raw /\ file \in [File -> Content] /\ path \in File \cup {None} /\ conn \in File \cup {None}
  /\ at \in {"load", "bind", "restore", "fill", "import", "ready", "analyze", "judged", "refused"}
  /\ tool \in 0..MaxScore /\ made \in 0..MaxScore /\ adopted \in Nat \cup {NoFingerprint}
  /\ shown \in SUBSET Says /\ vouched \in BOOLEAN
  /\ sees \in Content /\ crashes \in 0..MaxCrashes

\* Any earlier run may have used the directory, with another configuration.
MeasureInit ==
  /\ Init
  /\ env \in Raw /\ at = "load" /\ crashes = 0
  /\ path \in {None, 1} /\ conn = None /\ adopted = NoFingerprint /\ made = 0
  /\ shown = {} /\ vouched = FALSE
  /\ file \in [File -> {Empty, [Empty EXCEPT !.observed = TRUE]}] /\ file[2] = Empty
  /\ tool \in 0..MaxScore /\ sees = Empty

(***************************************************************************)
(* load_environment, resolve and bind.                                     *)
(***************************************************************************)
\* Only what the block declares can be restored.  A block may declare the
\* fingerprint too.
Loadable ==
  /\ env.state \in DbState /\ env.pinned = "installed"
  /\ env.state = "snapshot" => env.snapshot # "undeclared"
  /\ env.state = "seeded" => env.seed # "undeclared"

Load ==
  /\ at = "load"
  /\ at' = IF Loadable THEN "bind" ELSE "refused"
  /\ adopted' = env.fingerprint
  /\ UNCHANGED <<store, env, tool, identity, sees, crashes, walkVars>>

\* The file a write through TrustSight goes to: init_db opens the one the
\* path names, or creates it, unless a connection is cached.
Opened == IF conn # None THEN conn ELSE IF path # None THEN path ELSE 1
Through(content) ==
  /\ file' = [file EXCEPT ![Opened] = content] /\ conn' = Opened
  /\ path' = IF conn = None THEN Opened ELSE path
Held == IF conn = None /\ path = None THEN Empty ELSE file[Opened]

\* _apply_review_threshold writes the declared threshold over an earlier one,
\* but leaves a file alone when the declared one is the default, or when the
\* file has no review profiles.
Applied(profiled) == IF Threshold # Default /\ profiled THEN Threshold ELSE tool

\* The configuration is the file of the campaign's directory, never the
\* operator's; a declared baseline is imported at once.
Bind(profiled) ==
  /\ at = "bind"
  /\ tool' = Applied(profiled)
  /\ IF env.ioc THEN Through([Held EXCEPT !.ioc = TRUE]) ELSE UNCHANGED store
  /\ at' = "restore"
  /\ UNCHANGED <<env, adopted, identity, sees, crashes, walkVars>>

(***************************************************************************)
(* restore.                                                                *)
(***************************************************************************)
\* Mutant: the files are unlinked under the open connection.
ClearConnected ==
  /\ at = "restore" /\ ~env.accumulate
  /\ path' = None /\ at' = "fill"
  /\ UNCHANGED <<file, conn, config, identity, sees, crashes, walkVars>>

\* The connections are closed, then the database files are unlinked.
Clear ==
  /\ at = "restore" /\ ~env.accumulate
  /\ path' = None /\ conn' = None /\ file' = [f \in File |-> Empty]
  /\ at' = "fill"
  /\ UNCHANGED <<config, identity, sees, crashes, walkVars>>

Accumulate ==
  /\ at = "restore" /\ env.accumulate
  /\ at' = "ready"
  /\ UNCHANGED <<store, config, identity, sees, crashes, walkVars>>

\* init_db, then the rows of the seed whose digest is the declared one; with
\* another digest, or no file, the restore raises.
Seed ==
  /\ at = "fill" /\ env.state = "seeded"
  /\ IF env.seed = "matching" THEN Through([Held EXCEPT !.base = "seed"]) /\ at' = "import"
     ELSE Through(Held) /\ at' = "refused"
  /\ UNCHANGED <<config, identity, sees, crashes, walkVars>>

\* The snapshot is copied chunk by chunk to the path, up to a size.
Copy ==
  /\ at = "fill" /\ env.state = "snapshot"
  /\ \E f \in File \ {conn}, copied \in {"torn", "snapshot"} :
       /\ path' = f /\ file' = [file EXCEPT ![f] = [Empty EXCEPT !.base = copied]]
       /\ at' = IF env.snapshot # "whole" THEN "refused" ELSE IF copied = "torn" THEN "fill" ELSE "import"
       /\ copied = "torn" => path = None
       /\ env.snapshot # "whole" => copied = "torn"
  /\ UNCHANGED <<conn, config, identity, sees, crashes, walkVars>>

Import ==
  /\ at \in (IF env.state = "cold" THEN {"fill", "import"} ELSE {"import"})
  /\ Through([Held EXCEPT !.ioc = @ \/ env.ioc])
  /\ at' = "ready"
  /\ UNCHANGED <<config, identity, sees, crashes, walkVars>>

(***************************************************************************)
(* A measurement, the canary's too: analyse, check, judge.                 *)
(***************************************************************************)
\* The analysis writes observations into the database it finds.  Its report
\* may say nothing of its threshold or of its configuration: an older build.
Analyze ==
  /\ at = "ready"
  /\ sees' = Held /\ Through([Held EXCEPT !.observed = TRUE])
  /\ made' = tool /\ shown' \in SUBSET Says /\ report' = NoEvidence
  /\ at' = "analyze"
  /\ UNCHANGED <<config, vouched, crashes, modeGaps>>

Accrue == at = "analyze" /\ Next /\ UNCHANGED measureVars

Disagrees == "threshold" \in shown /\ made # Threshold
Fingerprint == IF "fingerprint" \in shown THEN made ELSE NoFingerprint
Refused == Disagrees \/ (adopted # NoFingerprint /\ Fingerprint # adopted)

\* Mutant: a report is looked at only when there is a fingerprint to adopt.
CheckAtFirst ==
  /\ at = "analyze"
  /\ at' = IF adopted = NoFingerprint /\ Disagrees THEN "refused" ELSE "judged"
  /\ adopted' = IF adopted = NoFingerprint /\ ~Disagrees THEN Fingerprint ELSE adopted
  /\ vouched' = (vouched \/ (~Disagrees /\ shown = Says))
  /\ UNCHANGED <<store, env, tool, made, shown, sees, crashes, walkVars>>

\* check_fingerprint, on every report: the threshold it says, if it says one,
\* must be the declared one, and its configuration the one first adopted.
Check ==
  /\ at = "analyze"
  /\ at' = IF Refused THEN "refused" ELSE "judged"
  /\ adopted' = IF adopted = NoFingerprint /\ ~Disagrees THEN Fingerprint ELSE adopted
  /\ vouched' = (vouched \/ (~Refused /\ shown = Says))
  /\ UNCHANGED <<store, env, tool, made, shown, sees, crashes, walkVars>>

NextAttempt ==
  /\ at = "judged" /\ at' = "restore"
  /\ UNCHANGED <<store, config, identity, sees, crashes, walkVars>>

(***************************************************************************)
(* The world.                                                              *)
(***************************************************************************)
Reload ==
  /\ at \in {"restore", "ready"} /\ tool' \in 0..MaxScore
  /\ UNCHANGED <<store, env, adopted, at, identity, sees, crashes, walkVars>>

\* The process dies, or the run is refused, and the campaign is run again.
Restart ==
  /\ crashes < MaxCrashes /\ crashes' = crashes + 1
  /\ at' = "load" /\ conn' = None /\ adopted' = NoFingerprint /\ vouched' = FALSE
  /\ UNCHANGED <<file, path, env, tool, made, shown, sees, walkVars>>

MeasureNext ==
  \/ Load \/ (\E profiled \in BOOLEAN : Bind(profiled)) \/ Clear \/ Accumulate \/ Seed \/ Copy \/ Import
  \/ Analyze \/ Accrue \/ Check \/ NextAttempt \/ Reload \/ Restart

MeasureSpec == MeasureInit /\ [][MeasureNext]_<<measureVars, walkVars>>

(***************************************************************************)
(* Properties.                                                             *)
(***************************************************************************)
Declared ==
  [base |-> CASE env.state = "cold" -> "empty" [] env.state = "seeded" -> "seed" [] OTHER -> "snapshot",
   ioc |-> env.ioc, observed |-> FALSE]

\* Whatever was left in the directory by earlier attempts and earlier runs,
\* wherever they failed or were killed, an analysis that does not accumulate
\* finds exactly the database its campaign declares.
MeasuredFromDeclared == at \in {"analyze", "judged"} /\ ~env.accumulate => sees = Declared

\* A bypass is one the tool itself left UNFLAGGED, under whatever
\* configuration the report was made, if the report says its threshold or if
\* an earlier report of the run said both that and its fingerprint: the
\* configuration it vouched for is then the run's.  Of reports that leave the
\* threshold out nothing else keeps the judge's threshold and the tool's equal.
BypassIsUnflagged ==
  at = "judged" /\ status = "bypass" /\ (vouched \/ "threshold" \in shown) => report.score <= made

\* More evidence in a report never hides another: no finding, gap or point of
\* score turns a report that is not a bypass into one.
EvidenceNeverHides ==
  [][at' = "analyze" /\ at = "analyze" /\ Verdict(report', Threshold, Expected, modeGaps) = "bypass"
       => status = "bypass"]_walkVars

=============================================================================
