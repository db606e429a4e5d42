----------------------------- MODULE CampaignRun -----------------------------
(***************************************************************************)
(* One campaign run (harness/campaign.py: run_campaign and _validate).     *)
(*                                                                         *)
(* The run is one thread, so what interleaves with it is the world it      *)
(* measures: the analysis worker fails or times out, the tool's            *)
(* configuration drifts, the process is killed.  Every call that can meet  *)
(* one of those is a step of its own.                                      *)
(*                                                                         *)
(* A diff is a value of Diff; what the pipeline finds out about it is      *)
(* given by the constant functions Defect, CellsOf, Chain, Size, Answer.   *)
(***************************************************************************)
EXTENDS Grid, Judge, Sequences

CONSTANTS
  Diff,          \* the diffs the generator can produce
  Defect,        \* the validator that refuses a diff, or "none"
  CellsOf,       \* the cells a bypass by the diff would fill
  Chain,         \* the behavioural chain of a diff, part of an unshaped key
  Size,          \* the number of lines of a diff
  Answer,        \* the report on a diff: declared database, pinned config
  Report,        \* the reports the tool can give in any other state
  Origin,        \* known bypasses: the version each was recorded at
  Me,            \* this campaign's name
  Installed,     \* the version the run is pinned to
  Expected, Threshold, ModeGap,
  Attempts,      \* config.attempts
  StopAfter,     \* stop_conditions.bypasses, 0 when not declared
  Saturation,    \* archive.cell_saturation
  Degraded,      \* whether the technique vocabulary is unreachable
  Accumulate,    \* environment.accumulate
  MinAttempts,   \* _MIN_ATTEMPTS_BEFORE_ABORT
  RateDivisor,   \* 1 / HARNESS_ERROR_ABORT_RATE
  InitialGrids,  \* what archive.json can hold when the run starts
  MaxFaults,     \* bound on worker failures and kills
  Corrupt,       \* an archive.json that does not load
  NoDiff, NoReport, NoRecord

Original == "original"  \* the tool's configuration before and after a reload
Reloaded == "reloaded"
Unadopted == "unadopted"

ASSUME CampaignAssumption ==
  /\ Me \in CampaignName /\ Installed \in Version
  /\ NoDiff \notin Diff /\ NoReport \notin Report
  /\ Defect \in [Diff -> (EarlyStatus \ {"duplicate"}) \cup {"none"}]
  /\ CellsOf \in [Diff -> SUBSET Cell]
  /\ \A d \in Diff : IsFiniteSet(CellsOf[d])
  /\ Size \in [Diff -> Nat \ {0}]
  /\ Answer \in [Diff -> Report]
  /\ DOMAIN Origin \subseteq Diff
  /\ \A d \in DOMAIN Origin : Origin[d] \in Version
  /\ Attempts \in Nat /\ StopAfter \in Nat /\ MinAttempts \in Nat
  /\ RateDivisor \in Nat \ {0} /\ Saturation \in Nat \ {0} /\ MaxFaults \in Nat
  /\ Accumulate \in BOOLEAN /\ Degraded \in BOOLEAN
  /\ \A g \in InitialGrids : g = Corrupt \/ IsGrid(g)

VARIABLES
  pc,         \* the next call of the run, "stopped" when it is over
  outcome,    \* how the run ended, "running" until it has
  cur,        \* the diff of the attempt in flight
  report,     \* its report once analysed
  db,         \* the analysis database: "declared", or "dirty" once analysed on
  config,     \* the configuration the tool really runs with
  canary,     \* the configuration the canary's score was adopted under
  pinned,     \* the configuration whose fingerprint was adopted
  seen,       \* Deduplicator: hashes seen in this campaign
  claimed,    \* SemanticDeduplicator: keys seen in this campaign
  semantic,   \* SemanticDeduplicator: its observation and duplicate counters
  grid,       \* the in-memory archive
  shared,     \* archive.json, the suite's grid
  own,        \* the campaign-level archive.json, EmptyGrid until saved
  filled,     \* filled_cells
  traces,     \* the Recorder's traces, one line of evidence.jsonl each
  finds,      \* the Recorder's bypass_hashes
  matches,    \* the Recorder's known_matches
  errors,     \* harness_errors
  record,     \* record.json as this run wrote it, NoRecord until then
  faults      \* faults used so far, bounded by MaxFaults

instrument == <<db, config, canary, pinned>>
gates == <<seen, claimed, semantic>>
recorder == <<traces, finds, matches, errors>>
published == <<shared, own, record>>
vars == <<pc, outcome, cur, report, instrument, gates, grid, published,
          filled, recorder, faults>>

Attempt == Len(traces)   \* the index of the attempt being run

(* A line of evidence.  verdict is the Judge's status before a known        *)
(* bypass is relabelled; stage names the gate that refused the attempt.     *)
Stage == {"sanitize", "hash", "known", "validators", "saturated", "semantic",
          "admitted"}
Trace == [diff : Diff, status : Status, verdict : Status, stage : Stage]

(* semantic_key: a cell, or for an unnamed shape the chain that fills it.  *)
Key(d, c) == <<c, IF c \in Unshaped THEN Chain[d] ELSE "shaped">>
Keys(d) == {Key(d, c) : c \in CellsOf[d]}

TypeOK ==
  /\ pc \in {"boot", "canary0", "fingerprint0", "loop", "restore", "canary",
             "restore2", "analyze", "judge", "write", "merge",
             "slice", "stopped"}
  /\ outcome \in {"running", "rate", "runner", "drift", "generator", "unknown",
                  "archive", "killed", "done"}
  /\ cur \in Diff \cup {NoDiff}
  /\ report \in Report \cup {NoReport}
  /\ db \in {"declared", "dirty"}
  /\ config \in {Original, Reloaded}
  /\ {canary, pinned} \subseteq {Original, Reloaded, Unadopted}
  /\ seen \subseteq Diff
  /\ semantic \in [observations : Nat, duplicates : Nat]
  /\ IsGrid(grid) /\ IsGrid(own)
  /\ shared = Corrupt \/ IsGrid(shared)
  /\ filled \subseteq Cell
  /\ traces \in Seq(Trace)
  /\ finds \in Seq(Diff)
  /\ claimed \subseteq UNION {Keys(d) : d \in Diff}
  /\ matches \in Seq([diff : Diff, patch : {"verified", "regression"},
                      original : Version])
  /\ errors \in Nat /\ faults \in Nat

Init ==
  /\ pc = "boot" /\ outcome = "running"
  /\ cur = NoDiff /\ report = NoReport
  /\ db = "dirty" /\ config = Original /\ canary = Unadopted /\ pinned = Unadopted
  /\ seen = {} /\ claimed = {} /\ semantic = [observations |-> 0, duplicates |-> 0]
  /\ grid = EmptyGrid /\ own = EmptyGrid /\ filled = {}
  /\ shared \in InitialGrids
  /\ traces = <<>> /\ finds = <<>> /\ matches = <<>> /\ errors = 0
  /\ record = NoRecord /\ faults = 0

Stop(how) == pc' = "stopped" /\ outcome' = how
Goto(label) == pc' = label /\ outcome' = outcome

-----------------------------------------------------------------------------
(* Start-up: the archive is read for the prompt map only, so a corrupt file *)
(* is an empty grid; then the canary and the fingerprint are adopted.       *)

Boot ==
  /\ pc = "boot"
  /\ grid' = IF shared = Corrupt THEN EmptyGrid ELSE shared
  /\ Goto("canary0")
  /\ UNCHANGED <<cur, report, instrument, gates, published, filled, recorder, faults>>

AdoptCanary ==
  /\ pc = "canary0"
  /\ db' = "dirty" /\ canary' = config
  /\ Goto("fingerprint0")
  /\ UNCHANGED <<cur, report, config, pinned, gates, grid, published, filled,
                 recorder, faults>>

AdoptFingerprint ==
  /\ pc = "fingerprint0"
  /\ db' = "dirty" /\ pinned' = config
  /\ Goto("loop")
  /\ UNCHANGED <<cur, report, config, canary, gates, grid, published, filled,
                 recorder, faults>>

-----------------------------------------------------------------------------
(* One attempt.                                                            *)

(* _validate: the stage that ends the attempt, in the code's order.        *)
StageOf(d) ==
  IF Defect[d] = "sanitization_failure" THEN "sanitize"
  ELSE IF d \in seen THEN "hash"
  ELSE IF d \in DOMAIN Origin /\ Origin[d] = Installed THEN "known"
  ELSE IF Defect[d] # "none" THEN "validators"
  ELSE IF CellsOf[d] = {} THEN "admitted"
  ELSE IF \A c \in CellsOf[d] : IsClosed(grid, c, Installed, Saturation) THEN "saturated"
  ELSE IF Keys(d) \subseteq claimed THEN "semantic"
  ELSE "admitted"

StageStatus(d, stage) ==
  IF stage \in {"sanitize", "validators"} THEN Defect[d] ELSE "duplicate"

(* Mutant: the semantic gate forgets the keys it lets through.             *)
ValidateForgets(d) ==
  LET stage == StageOf(d)
      counted == stage \in {"semantic", "admitted"} /\ CellsOf[d] # {}
  IN  /\ seen' = IF stage = "sanitize" THEN seen ELSE seen \cup {d}
      /\ claimed' = claimed
      /\ semantic' = [semantic EXCEPT !.observations = @ + IF counted THEN 1 ELSE 0]
      /\ grid' = grid

(* The side effects of _validate: each gate it passes remembers the diff.  *)
Validate(d) ==
  LET stage == StageOf(d)
      counted == stage \in {"semantic", "admitted"} /\ CellsOf[d] # {}
  IN  /\ seen' = IF stage = "sanitize" THEN seen ELSE seen \cup {d}
      /\ claimed' = IF stage = "admitted" THEN claimed \cup Keys(d) ELSE claimed
      /\ semantic' =
           [observations |-> semantic.observations + IF counted THEN 1 ELSE 0,
            duplicates |-> semantic.duplicates + IF stage = "semantic" THEN 1 ELSE 0]
      /\ grid' = IF stage = "semantic" THEN NoteAll(grid, CellsOf[d], Installed) ELSE grid

(* Mutant: a bypass counted by its verdict, known or not.                  *)
AddByVerdict(d, status, verdict, stage) ==
  /\ traces' = Append(traces, [diff |-> d, status |-> status,
                               verdict |-> verdict, stage |-> stage])
  /\ finds' = IF verdict = "bypass" THEN Append(finds, d) ELSE finds

(* Recorder.add.                                                           *)
Add(d, status, verdict, stage) ==
  /\ traces' = Append(traces, [diff |-> d, status |-> status,
                               verdict |-> verdict, stage |-> stage])
  /\ finds' = IF status = "bypass" THEN Append(finds, d) ELSE finds

MayGenerate ==
  /\ pc = "loop" /\ Attempt < Attempts
  /\ ~ (StopAfter > 0 /\ Len(finds) >= StopAfter)

(* A generated diff that _validate refuses is recorded without an analysis. *)
Refuse(d) ==
  /\ MayGenerate
  /\ StageOf(d) # "admitted"
  /\ Validate(d)
  /\ LET s == StageStatus(d, StageOf(d)) IN Add(d, s, s, StageOf(d))
  /\ UNCHANGED <<pc, outcome, cur, report, instrument, published, filled,
                 matches, errors, faults>>

Admit(d) ==
  /\ MayGenerate
  /\ StageOf(d) = "admitted"
  /\ Validate(d)
  /\ cur' = d
  /\ Goto("restore")
  /\ UNCHANGED <<report, instrument, published, filled, recorder, faults>>

(* check_canary and check_fingerprint against what start-up adopted.  The  *)
(* canary's score may or may not tell two configurations apart; the        *)
(* fingerprint always does.                                                *)
CanaryMayFail == config # canary
FingerprintHolds == config = pinned

(* The restore before the measurement; nothing is restored when the        *)
(* campaign declares that its database accumulates.                        *)
Restore ==
  /\ pc = "restore"
  /\ db' = IF Accumulate THEN db ELSE "declared"
  /\ Goto(IF Accumulate THEN "analyze" ELSE "canary")
  /\ UNCHANGED <<cur, report, config, canary, pinned, gates, grid, published,
                 filled, recorder, faults>>

(* The canary after the restore; its own analysis writes observations.      *)
Canary ==
  /\ pc = "canary"
  /\ db' = "dirty"
  /\ Goto("restore2") \/ (CanaryMayFail /\ Stop("drift"))
  /\ UNCHANGED <<cur, report, config, canary, pinned, gates, grid, published,
                 filled, recorder, faults>>

(* Mutant: the canary's wake left in the database.                         *)
RestoreAgainSkipped ==
  /\ pc = "restore2"
  /\ db' = db
  /\ Goto("analyze")
  /\ UNCHANGED <<cur, report, config, canary, pinned, gates, grid, published,
                 filled, recorder, faults>>

RestoreAgain ==
  /\ pc = "restore2"
  /\ db' = "declared"
  /\ Goto("analyze")
  /\ UNCHANGED <<cur, report, config, canary, pinned, gates, grid, published,
                 filled, recorder, faults>>

(* The measurement.  The tool answers the same diff the same way only from *)
(* the declared database under the adopted configuration; check_fingerprint *)
(* refuses a report made under another.                                    *)
Analyze ==
  /\ pc = "analyze"
  /\ db' = "dirty"
  /\ \/ /\ FingerprintHolds
        /\ report' \in IF db = "declared" THEN {Answer[cur]} ELSE Report
        /\ Goto("judge")
     \/ /\ ~ FingerprintHolds
        /\ report' = report
        /\ Stop("drift")
  /\ UNCHANGED <<cur, config, canary, pinned, gates, grid, published, filled,
                 recorder, faults>>

(* _abort: the campaign gives up above the error rate.                     *)
TooManyErrors(n, attempted) ==
  attempted >= MinAttempts /\ n * RateDivisor > attempted

(* A timeout or a dead worker during the measurement itself: the attempt   *)
(* is recorded as a harness error and the rate is tested.                  *)
AnalyzeFails ==
  /\ pc = "analyze" /\ faults < MaxFaults
  /\ faults' = faults + 1
  /\ errors' = errors + 1
  /\ Add(cur, "harness_error", "harness_error", "admitted")
  /\ IF TooManyErrors(errors', Attempt + 1) THEN Stop("rate") ELSE Goto("loop")
  /\ cur' = NoDiff /\ db' = "dirty"
  /\ UNCHANGED <<report, config, canary, pinned, gates, grid, published, filled,
                 matches>>

(* The report judged.  A known bypass is recorded as a patch verification. *)
JudgedAs == Verdict(report, Threshold, Expected, ModeGap)

EndAttempt(status) ==
  /\ Add(cur, status, JudgedAs, "admitted")
  /\ cur' = NoDiff /\ report' = NoReport
  /\ Goto("loop")
  /\ UNCHANGED <<published, errors, faults>>

JudgeKnown ==
  /\ pc = "judge" /\ cur \in DOMAIN Origin /\ JudgedAs # Unknown
  /\ matches' = Append(matches, [diff |-> cur, patch |-> PatchStatus(JudgedAs),
                                 original |-> Origin[cur]])
  /\ EndAttempt("known_bypass_match")
  /\ UNCHANGED <<instrument, gates, grid, filled>>

JudgeNew ==
  /\ pc = "judge" /\ cur \notin DOMAIN Origin /\ JudgedAs # Unknown
  /\ ~ (JudgedAs = "bypass" /\ CellsOf[cur] # {})
  /\ EndAttempt(JudgedAs)
  /\ UNCHANGED <<instrument, gates, grid, filled, matches>>

(* Mutant: the record written on the way out of a refused run.             *)
JudgeUnknownRecords ==
  /\ pc = "judge" /\ JudgedAs = Unknown
  /\ Stop("unknown")
  /\ record' = [attempts |-> Len(traces), bypasses |-> finds, known |-> matches,
                filled |-> filled]
  /\ UNCHANGED <<cur, report, instrument, gates, grid, shared, own, filled,
                 recorder, faults>>

JudgeUnknown ==
  /\ pc = "judge" /\ JudgedAs = Unknown
  /\ Stop("unknown")
  /\ UNCHANGED <<cur, report, instrument, gates, grid, published, filled,
                 recorder, faults>>

(* Mutant: the observation numbered after the trace was added.             *)
FillCellsLate(size) ==
  /\ grid' = ObserveAll(grid, CellsOf[cur],
                        [campaign |-> Me, attempt |-> Attempt + 1, version |-> Installed],
                        size, Degraded)
  /\ filled' = filled \cup CellsOf[cur]

(* A new bypass with cells is minimized, off the measured path: whatever   *)
(* the oracle's analyses did, the representative has between one line and  *)
(* all of the diff's, and the attempt ends with every cell observed.       *)
FillCells(size) ==
  /\ grid' = ObserveAll(grid, CellsOf[cur],
                        [campaign |-> Me, attempt |-> Attempt, version |-> Installed],
                        size, Degraded)
  /\ filled' = filled \cup CellsOf[cur]

Minimize ==
  /\ pc = "judge" /\ cur \notin DOMAIN Origin
  /\ JudgedAs = "bypass" /\ CellsOf[cur] # {}
  /\ \E size \in 1..Size[cur] : FillCells(size)
  /\ EndAttempt("bypass")
  /\ db' = "dirty"
  /\ UNCHANGED <<config, canary, pinned, gates, matches>>

-----------------------------------------------------------------------------
(* The end of the run.                                                     *)

(* The attempts are used up, a declared stop condition is met (bypasses or  *)
(* wall clock), or the generator is Exhausted, which it may be at any time. *)
EndLoop ==
  /\ pc = "loop"
  /\ Goto("write")
  /\ UNCHANGED <<cur, report, instrument, gates, grid, published, filled,
                 recorder, faults>>

WriteRecord ==
  /\ pc = "write"
  /\ record' = [attempts |-> Len(traces), bypasses |-> finds, known |-> matches,
                filled |-> filled]
  /\ Goto("merge")
  /\ UNCHANGED <<cur, report, instrument, gates, grid, shared, own, filled,
                 recorder, faults>>

(* The final merge is the one that must succeed: a corrupt file ends the   *)
(* run after its record is written.                                        *)
MergeShared ==
  /\ pc = "merge"
  /\ IF shared = Corrupt
       THEN UNCHANGED shared /\ Stop("archive")
       ELSE shared' = Merge(shared, grid) /\ Goto("slice")
  /\ UNCHANGED <<cur, report, instrument, gates, grid, own, record, filled,
                 recorder, faults>>

(* Mutant: the whole grid saved as the campaign's own.                     *)
SaveSliceWhole ==
  /\ pc = "slice"
  /\ own' = grid
  /\ Stop("done")
  /\ UNCHANGED <<cur, report, instrument, gates, grid, shared, record, filled,
                 recorder, faults>>

SaveSlice ==
  /\ pc = "slice"
  /\ own' = Slice(grid, filled)
  /\ Stop("done")
  /\ UNCHANGED <<cur, report, instrument, gates, grid, shared, record, filled,
                 recorder, faults>>

-----------------------------------------------------------------------------
(* What the run does not control.                                          *)

(* The tool's configuration is reloaded.                                   *)
Reload ==
  /\ pc # "stopped" /\ config = Original
  /\ config' = Reloaded
  /\ UNCHANGED <<pc, outcome, cur, report, db, canary, pinned, gates, grid,
                 published, filled, recorder, faults>>

(* A runner call other than the measurement fails, and nothing catches it. *)
RunnerFails ==
  /\ pc \in {"boot", "canary0", "fingerprint0", "restore", "canary", "restore2"}
  /\ faults < MaxFaults
  /\ faults' = faults + 1
  /\ Stop("runner")
  /\ UNCHANGED <<cur, report, instrument, gates, grid, published, filled, recorder>>

(* generate() raises something other than Exhausted.                       *)
GeneratorFails ==
  /\ MayGenerate /\ faults < MaxFaults
  /\ faults' = faults + 1
  /\ Stop("generator")
  /\ UNCHANGED <<cur, report, instrument, gates, grid, published, filled, recorder>>

(* The process is killed.                                                  *)
Killed ==
  /\ pc # "stopped" /\ faults < MaxFaults
  /\ faults' = faults + 1
  /\ Stop("killed")
  /\ UNCHANGED <<cur, report, instrument, gates, grid, published, filled, recorder>>

Attempting ==
  \/ \E d \in Diff : Refuse(d) \/ Admit(d)
  \/ Restore \/ Canary \/ RestoreAgain \/ Analyze \/ AnalyzeFails
  \/ JudgeKnown \/ JudgeNew \/ JudgeUnknown \/ Minimize

Ending == EndLoop \/ WriteRecord \/ MergeShared \/ SaveSlice

World == Reload \/ RunnerFails \/ GeneratorFails \/ Killed

Next ==
  \/ Boot \/ AdoptCanary \/ AdoptFingerprint
  \/ Attempting \/ Ending \/ World

Spec == Init /\ [][Next]_vars

-----------------------------------------------------------------------------
(* Properties.                                                             *)

With(st) == {i \in DOMAIN traces : traces[i].status \in st}
TraceOf(i) == [campaign |-> Me, attempt |-> i - 1, version |-> Installed]

(* Every verdict is the one the declared database and the adopted           *)
(* configuration give: no canary, earlier attempt, minimization or reload   *)
(* leaks into an attempt (restore, canary, restore, fingerprint).           *)
VerdictsReproducible ==
  ~ Accumulate =>
    \A i \in With(Reached) :
      traces[i].verdict = Verdict(Answer[traces[i].diff], Threshold, Expected, ModeGap)

(* A find is counted once and is new: bypass_hashes are the diffs of the    *)
(* bypass traces, none twice, none known, and every known bypass that was   *)
(* analysed is a patch verification with the status its verdict implies.    *)
FindsAreNew ==
  /\ Len(finds) = Cardinality(With({"bypass"}))
  /\ {finds[i] : i \in DOMAIN finds} = {traces[i].diff : i \in With({"bypass"})}
  /\ \A i, j \in DOMAIN finds : i # j => finds[i] # finds[j]
  /\ \A i \in DOMAIN finds : finds[i] \notin DOMAIN Origin
  /\ {[diff |-> traces[i].diff, patch |-> PatchStatus(traces[i].verdict),
       original |-> Origin[traces[i].diff]] : i \in With({"known_bypass_match"})}
       = {matches[k] : k \in DOMAIN matches}
  /\ Len(matches) = Cardinality(With({"known_bypass_match"}))

(* The archive holds no observation of an earlier run of this campaign at   *)
(* the installed version: what a run that is started again would find, and  *)
(* could not tell from its own.                                             *)
FreshStart ==
  \A g \in InitialGrids : g # Corrupt =>
    \A c \in DOMAIN g : \A o \in DOMAIN g[c].obs :
      ~ (o.campaign = Me /\ o.version = Installed)

(* The grid holds what this run found and nothing else: a cell is filled by *)
(* the bypasses that fill it, each with its own observation (of a run whose *)
(* start is fresh).                                                         *)
CellsAreEarned ==
  /\ filled = UNION {CellsOf[traces[i].diff] : i \in With({"bypass"})}
  /\ \A c \in Cell :
       {i \in With({"bypass"}) : c \in CellsOf[traces[i].diff]}
         = {i \in DOMAIN traces : Known(grid, c) /\ TraceOf(i) \in DOMAIN grid[c].obs}

(* The cells that only diffs of that one cell fill: a diff of several cells *)
(* is let through as long as one of them is open.                           *)
Alone(c) == \A d \in Diff : c \in CellsOf[d] => CellsOf[d] = {c}

(* The archive at the start was not written under a higher saturation.     *)
StartsBelow ==
  \A g \in InitialGrids : g # Corrupt =>
    \A c \in DOMAIN g :
      /\ IsFiniteSet(Verified(g[c], Installed))
      /\ Alone(c) => VerifiedCount(g[c], Installed) <= Saturation

(* A cell filled by single-cell diffs only never takes more confirmed       *)
(* bypasses at one version than the declared saturation (of a run that      *)
(* starts below it).                                                        *)
SaturationHolds ==
  \A c \in DOMAIN grid :
    Alone(c) => VerifiedCount(grid[c], Installed) <= Saturation

(* Every analysed attempt with cells claimed a key nobody had claimed, so   *)
(* the run analyses at most one such attempt per key, and what the record   *)
(* reports as avoided analyses were avoided.                                *)
OneAnalysisPerKey ==
  LET keyed == {i \in DOMAIN traces : traces[i].stage = "admitted"
                                        /\ CellsOf[traces[i].diff] # {}}
      flight == IF cur # NoDiff /\ CellsOf[cur] # {} THEN 1 ELSE 0
  IN  /\ semantic.observations - semantic.duplicates = Cardinality(keyed) + flight
      /\ Cardinality(keyed) + flight <= Cardinality(claimed)
      /\ semantic.duplicates
           = Cardinality({i \in DOMAIN traces : traces[i].stage = "semantic"})

\* A run with a pre-registered number of bypasses stops at it: the attempts that
\* are refused, are duplicates or fail in between take it no further.
StopHonoured == StopAfter > 0 => Len(finds) <= StopAfter

(* A run that was refused, by its error rate, a drift, an unknown verdict   *)
(* or a runner failure, publishes neither a record nor a cell.              *)
RefusedRunsPublishNothing ==
  outcome \in {"rate", "drift", "unknown", "runner", "generator"}
    => record = NoRecord /\ shared \in InitialGrids /\ own = EmptyGrid

(* A finished run is published whole: the record's finds and the archive's  *)
(* observations are the same, in the shared grid and in the campaign's own. *)
PublishedWhole ==
  outcome = "done" =>
    /\ record.bypasses = finds /\ record.attempts = Attempt
    /\ DOMAIN own = filled
    /\ \A i \in With({"bypass"}) : \A c \in CellsOf[traces[i].diff] :
         \A g \in {shared, own} :
           TraceOf(i) \in DOMAIN g[c].obs

==============================================================================
