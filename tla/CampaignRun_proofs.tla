------------------------- MODULE CampaignRun_proofs -------------------------
(***************************************************************************)
(* What one campaign run guarantees for every set of diffs, every archive, *)
(* every bound and every interleaving of faults; and, at the end, what the *)
(* minimiser it calls guarantees for every diff, every pipeline, every     *)
(* budget and wherever its analyses fail.                                  *)
(***************************************************************************)
EXTENDS CampaignRun, Ddmin, Grid_proofs, Integers

(* The attempt in flight has a diff: the part of the type that TypeOK does *)
(* not say and that its preservation needs.                                *)
InFlight == {"restore", "canary", "restore2", "analyze", "judge"}
FlightOK == pc \in InFlight => cur \in Diff

(* A verdict is one of the statuses a report can have, or Unknown.         *)
LEMMA VerdictType ==
  ASSUME NEW r, NEW t, NEW e, NEW m
  PROVE  Verdict(r, t, e, m) \in ReportStatus \cup {Unknown}
  BY DEF Verdict, ReportStatus, Unknown

LEMMA StageStatusType ==
  ASSUME NEW d \in Diff
  PROVE  StageOf(d) # "admitted" =>
           StageStatus(d, StageOf(d)) \in EarlyStatus
  BY CampaignAssumption DEF StageOf, StageStatus, EarlyStatus

LEMMA AddType ==
  ASSUME NEW d \in Diff, NEW s \in Status, NEW v \in Status, NEW t \in Stage,
         TypeOK, Add(d, s, v, t)
  PROVE  traces' \in Seq(Trace) /\ finds' \in Seq(Diff)
<1>1. [diff |-> d, status |-> s, verdict |-> v, stage |-> t] \in Trace
  BY DEF Trace
<1>2. traces \in Seq(Trace) /\ finds \in Seq(Diff)
  BY DEF TypeOK
<1> QED BY <1>1, <1>2 DEF Add

LEMMA ValidateType ==
  ASSUME NEW d \in Diff, TypeOK, Validate(d)
  PROVE  /\ seen' \subseteq Diff
         /\ claimed' \subseteq UNION {Keys(e) : e \in Diff}
         /\ semantic' \in [observations : Nat, duplicates : Nat]
         /\ IsGrid(grid')
<1>1. CellsOf[d] \subseteq Cell /\ Installed \in Version
  BY CampaignAssumption
<1>2. IsGrid(NoteAll(grid, CellsOf[d], Installed))
  BY <1>1, NoteAllIsGrid DEF TypeOK
<1>3. seen' \subseteq Diff
  BY DEF Validate, TypeOK
<1>4. claimed' \subseteq UNION {Keys(e) : e \in Diff}
  BY DEF Validate, TypeOK
<1>5. semantic' \in [observations : Nat, duplicates : Nat]
  BY DEF Validate, TypeOK
<1>6. IsGrid(grid')
  BY <1>2 DEF Validate, TypeOK
<1> QED BY <1>3, <1>4, <1>5, <1>6

LEMMA InitialGridType ==
  ASSUME NEW g \in InitialGrids
  PROVE  g = Corrupt \/ IsGrid(g)
  BY CampaignAssumption

LEMMA EmptyGridType == IsGrid(EmptyGrid)
  BY DEF EmptyGrid, IsGrid

LEMMA TypeInit == Init => TypeOK /\ FlightOK
<1> SUFFICES ASSUME Init PROVE TypeOK /\ FlightOK
  OBVIOUS
<1>1. IsGrid(EmptyGrid) /\ (shared = Corrupt \/ IsGrid(shared))
  BY InitialGridType, EmptyGridType DEF Init
<1>2. <<>> \in Seq(Trace) /\ <<>> \in Seq(Diff)
        /\ <<>> \in Seq([diff : Diff, patch : {"verified", "regression"},
                         original : Version])
  OBVIOUS
<1> QED BY <1>1, <1>2 DEF Init, TypeOK, FlightOK, InFlight, Original, Unadopted

-----------------------------------------------------------------------------
(* Typing, one step per action.                                            *)

LEMMA TypeNext ==
  ASSUME TypeOK, FlightOK, [Next]_vars
  PROVE  TypeOK' /\ FlightOK'
<1> USE DEF TypeOK, FlightOK, InFlight, Goto, Stop, instrument, gates, recorder,
            published, Original, Reloaded, Unadopted
<1>1. CASE Boot
  BY <1>1, EmptyGridType DEF Boot
<1>2. CASE AdoptCanary
  BY <1>2 DEF AdoptCanary
<1>3. CASE AdoptFingerprint
  BY <1>3 DEF AdoptFingerprint
<1>4. CASE Restore
  BY <1>4 DEF Restore
<1>5. CASE Canary
  BY <1>5 DEF Canary
<1>6. CASE RestoreAgain
  BY <1>6 DEF RestoreAgain
<1>7. CASE \E d \in Diff : Refuse(d)
  <2> PICK d \in Diff : Refuse(d)
    BY <1>7
  <2>1. StageStatus(d, StageOf(d)) \in Status /\ StageOf(d) \in Stage
    BY StageStatusType DEF Refuse, Status, StageOf, Stage
  <2>2. traces' \in Seq(Trace) /\ finds' \in Seq(Diff)
    BY <2>1, AddType DEF Refuse
  <2>3. Validate(d)
    BY DEF Refuse
  <2> HIDE DEF TypeOK
  <2>4. /\ seen' \subseteq Diff
        /\ claimed' \subseteq UNION {Keys(e) : e \in Diff}
        /\ semantic' \in [observations : Nat, duplicates : Nat]
        /\ IsGrid(grid')
    BY <2>3, ValidateType
  <2> QED BY <2>2, <2>4 DEF Refuse, MayGenerate, TypeOK
<1>8. CASE \E d \in Diff : Admit(d)
  <2> PICK d \in Diff : Admit(d)
    BY <1>8
  <2>1. Validate(d)
    BY DEF Admit
  <2> HIDE DEF TypeOK
  <2>2. /\ seen' \subseteq Diff
        /\ claimed' \subseteq UNION {Keys(e) : e \in Diff}
        /\ semantic' \in [observations : Nat, duplicates : Nat]
        /\ IsGrid(grid')
    BY <2>1, ValidateType
  <2> QED BY <2>2 DEF Admit, MayGenerate, TypeOK
<1>9. CASE Analyze
  <2>1. cur \in Diff /\ Answer[cur] \in Report
    BY <1>9, CampaignAssumption DEF Analyze
  <2>2. report' \in Report \cup {NoReport}
    BY <1>9, <2>1 DEF Analyze
  <2> QED BY <1>9, <2>1, <2>2 DEF Analyze
<1>10. CASE AnalyzeFails
  <2>1. cur \in Diff /\ "harness_error" \in Status /\ "admitted" \in Stage
    BY <1>10 DEF AnalyzeFails, Status, Stage
  <2>2. traces' \in Seq(Trace) /\ finds' \in Seq(Diff)
    BY <1>10, <2>1, AddType DEF AnalyzeFails
  <2> QED BY <1>10, <2>2 DEF AnalyzeFails
<1>11. CASE JudgeKnown
  <2>1. /\ cur \in Diff /\ "known_bypass_match" \in Status /\ JudgedAs \in Status
        /\ "admitted" \in Stage
    BY <1>11, VerdictType DEF JudgeKnown, JudgedAs, Status, Stage
  <2>2. traces' \in Seq(Trace) /\ finds' \in Seq(Diff)
    BY <1>11, <2>1, AddType DEF JudgeKnown, EndAttempt
  <2>3. [diff |-> cur, patch |-> PatchStatus(JudgedAs), original |-> Origin[cur]]
          \in [diff : Diff, patch : {"verified", "regression"}, original : Version]
    BY <1>11, <2>1, CampaignAssumption DEF PatchStatus, JudgeKnown
  <2>4. matches' \in Seq([diff : Diff, patch : {"verified", "regression"},
                          original : Version])
    BY <1>11, <2>3 DEF JudgeKnown
  <2> QED BY <1>11, <2>2, <2>4 DEF JudgeKnown, EndAttempt
<1>12. CASE JudgeNew
  <2>1. cur \in Diff /\ JudgedAs \in Status /\ "admitted" \in Stage
    BY <1>12, VerdictType DEF JudgeNew, JudgedAs, Status, Stage
  <2>2. traces' \in Seq(Trace) /\ finds' \in Seq(Diff)
    BY <1>12, <2>1, AddType DEF JudgeNew, EndAttempt
  <2> QED BY <1>12, <2>2 DEF JudgeNew, EndAttempt
<1>13. CASE Minimize
  <2>1. cur \in Diff /\ JudgedAs \in Status /\ "admitted" \in Stage /\ "bypass" \in Status
    BY <1>13, VerdictType DEF Minimize, JudgedAs, Status, Stage, ReportStatus
  <2>2. traces' \in Seq(Trace) /\ finds' \in Seq(Diff)
    BY <1>13, <2>1, AddType DEF Minimize, EndAttempt
  <2>3. PICK size \in 1..Size[cur] : FillCells(size)
    BY <1>13 DEF Minimize
  <2>4. /\ CellsOf[cur] \subseteq Cell /\ Degraded \in BOOLEAN /\ size \in Nat
        /\ Attempt \in Nat
    BY <2>1, <2>3, CampaignAssumption DEF Attempt
  <2>5. [campaign |-> Me, attempt |-> Attempt, version |-> Installed] \in Obs
    BY <2>4, CampaignAssumption DEF Obs
  <2>6. IsGrid(grid') /\ filled' \subseteq Cell
    BY <2>3, <2>4, <2>5, ObserveAllIsGrid DEF FillCells
  <2> QED BY <1>13, <2>2, <2>6 DEF Minimize, EndAttempt
<1>14. CASE JudgeUnknown
  BY <1>14 DEF JudgeUnknown
<1>15. CASE EndLoop
  BY <1>15 DEF EndLoop
<1>16. CASE WriteRecord
  BY <1>16 DEF WriteRecord
<1>17. CASE MergeShared
  BY <1>17, MergeIsGrid DEF MergeShared
<1>18. CASE SaveSlice
  BY <1>18, SliceIsGrid DEF SaveSlice
<1>19. CASE Reload
  BY <1>19 DEF Reload, MayGenerate
<1>20. CASE RunnerFails
  BY <1>20 DEF RunnerFails, MayGenerate
<1>21. CASE GeneratorFails
  BY <1>21 DEF GeneratorFails, MayGenerate
<1>22. CASE Killed
  BY <1>22 DEF Killed, MayGenerate
<1>23. CASE UNCHANGED vars
  BY <1>23 DEF vars
<1> QED
  BY <1>1, <1>2, <1>3, <1>4, <1>5, <1>6, <1>7, <1>8, <1>9, <1>10, <1>11,
     <1>12, <1>13, <1>14, <1>15, <1>16, <1>17, <1>18, <1>19, <1>20, <1>21, <1>22, <1>23
  DEF Next, Attempting, Ending, World

(* TypeOK holds of every campaign run.                                     *)
THEOREM TypeCorrect == Spec => []TypeOK
<1>1. TypeOK /\ FlightOK /\ [Next]_vars => TypeOK' /\ FlightOK'
  BY TypeNext
<1> QED BY TypeInit, <1>1, PTL DEF Spec

-----------------------------------------------------------------------------
(* The verdict of every attempt.                                           *)

Correct(t) == t.verdict = Verdict(Answer[t.diff], Threshold, Expected, ModeGap)

(* What makes VerdictsReproducible inductive: the analysis starts from the *)
(* declared database, and its report is the diff's own until it is judged. *)
Measured ==
  ~ Accumulate =>
    /\ pc = "analyze" => db = "declared"
    /\ pc = "judge" => report = Answer[cur]
    /\ \A i \in DOMAIN traces : traces[i].status \in Reached => Correct(traces[i])

LEMMA MeasuredAdd ==
  ASSUME TypeOK, ~ Accumulate, Measured,
         NEW d, NEW s, NEW v, NEW t, Add(d, s, v, t),
         s \in Reached => v = Verdict(Answer[d], Threshold, Expected, ModeGap)
  PROVE  \A i \in DOMAIN traces' :
           traces'[i].status \in Reached => Correct(traces'[i])
<1> TAKE i \in DOMAIN traces'
<1> DEFINE new == [diff |-> d, status |-> s, verdict |-> v, stage |-> t]
<1>1. traces' = Append(traces, new) /\ traces \in Seq(Trace)
  BY DEF Add, TypeOK
<1>2. CASE i \in DOMAIN traces
  <2>1. traces'[i] = traces[i]
    BY <1>1, <1>2
  <2> QED BY <1>2, <2>1 DEF Measured
<1>3. CASE i = Len(traces) + 1
  <2>1. traces'[i] = new
    BY <1>1, <1>3
  <2> QED BY <2>1 DEF Correct
<1>4. i \in DOMAIN traces \/ i = Len(traces) + 1
  BY <1>1
<1> QED BY <1>2, <1>3, <1>4

LEMMA MeasuredNext ==
  ASSUME TypeOK, Measured, [Next]_vars
  PROVE  Measured'
<1> SUFFICES ASSUME ~ Accumulate PROVE Measured'
  BY DEF Measured
<1> USE DEF Goto, Stop, instrument, gates, recorder, published
<1>1. CASE \E d \in Diff : Refuse(d)
  <2> PICK d \in Diff : Refuse(d)
    BY <1>1
  <2>1. StageStatus(d, StageOf(d)) \notin Reached
    BY StageStatusType DEF Refuse, Reached, ReportStatus, EarlyStatus
  <2>2. pc' = "loop"
    BY DEF Refuse, MayGenerate
  <2> QED BY <2>1, <2>2, MeasuredAdd DEF Refuse, Measured
<1>2. CASE AnalyzeFails
  <2>1. "harness_error" \notin Reached
    BY DEF Reached, ReportStatus
  <2>2. pc' \notin {"analyze", "judge"}
    BY <1>2 DEF AnalyzeFails
  <2> QED BY <1>2, <2>1, <2>2, MeasuredAdd DEF AnalyzeFails, Measured
<1>3. CASE JudgeKnown \/ JudgeNew \/ Minimize
  <2>1. JudgedAs = Verdict(Answer[cur], Threshold, Expected, ModeGap)
    BY <1>3 DEF JudgeKnown, JudgeNew, Minimize, Measured, JudgedAs
  <2>2. pc' = "loop" /\ \E s : Add(cur, s, JudgedAs, "admitted")
    BY <1>3 DEF JudgeKnown, JudgeNew, Minimize, EndAttempt
  <2> QED BY <2>1, <2>2, MeasuredAdd DEF Measured
<1>4. CASE Analyze
  BY <1>4 DEF Analyze, Measured
<1>5. CASE Boot \/ AdoptCanary \/ AdoptFingerprint \/ Restore \/ Canary \/ RestoreAgain
  BY <1>5 DEF Boot, AdoptCanary, AdoptFingerprint, Restore, Canary, RestoreAgain, Measured
<1>6. CASE \E d \in Diff : Admit(d)
  BY <1>6 DEF Admit, Measured
<1>7. CASE JudgeUnknown \/ Ending
  BY <1>7 DEF JudgeUnknown, Ending, EndLoop, WriteRecord, MergeShared, SaveSlice, Measured
<1>8. CASE World
  BY <1>8 DEF World, Reload, RunnerFails, GeneratorFails, Killed, Measured
<1>9. CASE UNCHANGED vars
  BY <1>9 DEF vars, Measured
<1> QED BY <1>1, <1>2, <1>3, <1>4, <1>5, <1>6, <1>7, <1>8, <1>9 DEF Next, Attempting

(* Unless the campaign declares that its database accumulates, every verdict *)
(* in the evidence is the one that the declared database and the adopted     *)
(* configuration give (the restore, canary, restore, fingerprint protocol).  *)
THEOREM Reproducible == Spec => []VerdictsReproducible
<1>1. Init => Measured
  BY DEF Init, Measured
<1>2. Measured => VerdictsReproducible
  BY DEF Measured, VerdictsReproducible, With, Correct
<1>3. TypeOK /\ Measured /\ [Next]_vars => Measured'
  BY MeasuredNext
<1> QED BY TypeCorrect, <1>1, <1>2, <1>3, PTL DEF Spec

-----------------------------------------------------------------------------
(* The declared stop.                                                      *)

(* An attempt in flight was generated below the declared count.            *)
BelowStop ==
  StopAfter > 0 =>
    /\ Len(finds) <= StopAfter
    /\ pc \in InFlight => Len(finds) < StopAfter

LEMMA BelowStopAdd ==
  ASSUME TypeOK, NEW d, NEW s, NEW v, NEW t, Add(d, s, v, t)
  PROVE  /\ Len(finds') <= Len(finds) + 1
         /\ s # "bypass" => Len(finds') = Len(finds)
  BY DEF Add, TypeOK

LEMMA BelowStopNext ==
  ASSUME TypeOK, BelowStop, [Next]_vars
  PROVE  BelowStop'
<1> SUFFICES ASSUME StopAfter > 0 PROVE BelowStop'
  BY DEF BelowStop
<1> USE DEF Goto, Stop, instrument, gates, recorder, published, InFlight
<1>0. StopAfter \in Nat /\ Len(finds) \in Nat
  BY CampaignAssumption DEF TypeOK
<1>1. CASE \E d \in Diff : Refuse(d)
  <2> PICK d \in Diff : Refuse(d)
    BY <1>1
  <2>1. StageStatus(d, StageOf(d)) # "bypass"
    BY StageStatusType DEF Refuse, EarlyStatus
  <2>2. Len(finds') = Len(finds) /\ pc' = "loop"
    BY <2>1, BelowStopAdd DEF Refuse, MayGenerate
  <2> QED BY <2>2 DEF BelowStop
<1>2. CASE \E d \in Diff : Admit(d)
  BY <1>0, <1>2 DEF Admit, MayGenerate, BelowStop
<1>3. CASE AnalyzeFails
  <2>1. Len(finds') = Len(finds)
    BY <1>3, BelowStopAdd DEF AnalyzeFails
  <2> QED BY <1>3, <2>1 DEF AnalyzeFails, BelowStop
<1>4. CASE JudgeKnown \/ JudgeNew \/ Minimize
  <2>1. Len(finds') <= Len(finds) + 1 /\ pc' = "loop"
    BY <1>4, BelowStopAdd DEF JudgeKnown, JudgeNew, Minimize, EndAttempt
  <2> QED BY <1>0, <1>4, <2>1 DEF JudgeKnown, JudgeNew, Minimize, BelowStop
<1>5. CASE \/ Boot \/ AdoptCanary \/ AdoptFingerprint \/ Restore \/ Canary
           \/ RestoreAgain \/ Analyze
  BY <1>5 DEF Boot, AdoptCanary, AdoptFingerprint, Restore, Canary, RestoreAgain,
              Analyze, BelowStop
<1>6. CASE JudgeUnknown \/ Ending
  BY <1>6 DEF JudgeUnknown, Ending, EndLoop, WriteRecord, MergeShared, SaveSlice, BelowStop
<1>7. CASE World
  BY <1>7 DEF World, Reload, RunnerFails, GeneratorFails, Killed, BelowStop
<1>8. CASE UNCHANGED vars
  BY <1>8 DEF vars, BelowStop
<1> QED BY <1>1, <1>2, <1>3, <1>4, <1>5, <1>6, <1>7, <1>8 DEF Next, Attempting

(* The number of confirmed bypasses never passes the pre-registered stop.  *)
THEOREM StopIsHonoured == Spec => []StopHonoured
<1>1. Init => BelowStop
  BY CampaignAssumption DEF Init, BelowStop, InFlight
<1>2. BelowStop => StopHonoured
  BY DEF BelowStop, StopHonoured
<1>3. TypeOK /\ BelowStop /\ [Next]_vars => BelowStop'
  BY BelowStopNext
<1> QED BY TypeCorrect, <1>1, <1>2, <1>3, PTL DEF Spec

-----------------------------------------------------------------------------
(* A refused run publishes nothing.                                        *)

Unpublished == record = NoRecord /\ shared \in InitialGrids /\ own = EmptyGrid

(* Only the three steps that end a run which was not refused publish.      *)
RefusedEarly ==
  /\ pc # "stopped" => outcome = "running"
  /\ pc \notin {"merge", "slice", "stopped"} => Unpublished
  /\ outcome \in {"rate", "drift", "unknown", "runner", "generator"} => Unpublished

LEMMA RefusedEarlyNext ==
  ASSUME RefusedEarly, [Next]_vars
  PROVE  RefusedEarly'
<1> USE DEF Goto, Stop, instrument, gates, recorder, published, Unpublished, RefusedEarly
<1>1. CASE Boot \/ AdoptCanary \/ AdoptFingerprint
  BY <1>1 DEF Boot, AdoptCanary, AdoptFingerprint
<1>2. CASE \E d \in Diff : Refuse(d) \/ Admit(d)
  BY <1>2 DEF Refuse, Admit, MayGenerate
<1>3. CASE Restore \/ Canary \/ RestoreAgain \/ Analyze \/ AnalyzeFails
  BY <1>3 DEF Restore, Canary, RestoreAgain, Analyze, AnalyzeFails
<1>4. CASE JudgeKnown \/ JudgeNew \/ JudgeUnknown \/ Minimize
  BY <1>4 DEF JudgeKnown, JudgeNew, JudgeUnknown, Minimize, EndAttempt
<1>5. CASE Ending
  BY <1>5 DEF Ending, EndLoop, WriteRecord, MergeShared, SaveSlice
<1>6. CASE World
  BY <1>6 DEF World, Reload, RunnerFails, GeneratorFails, Killed, MayGenerate
<1>7. CASE UNCHANGED vars
  BY <1>7 DEF vars
<1> QED BY <1>1, <1>2, <1>3, <1>4, <1>5, <1>6, <1>7 DEF Next, Attempting

(* A run refused for its error rate, a drift, an unknown verdict or a dead  *)
(* worker leaves no record and no cell behind.                              *)
THEOREM RefusalsPublishNothing == Spec => []RefusedRunsPublishNothing
<1>1. Init => RefusedEarly
  BY DEF Init, RefusedEarly, Unpublished
<1>2. RefusedEarly => RefusedRunsPublishNothing
  BY DEF RefusedEarly, RefusedRunsPublishNothing, Unpublished
<1>3. RefusedEarly /\ [Next]_vars => RefusedEarly'
  BY RefusedEarlyNext
<1> QED BY <1>1, <1>2, <1>3, PTL DEF Spec

-----------------------------------------------------------------------------
(* The evidence after one more line: a recorder's list and what is read    *)
(* from it, before and after an append.                                    *)

Extended(q, e, r) == (\E S : q \in Seq(S)) /\ r = Append(q, e)
Entries(tr, st) == {i \in DOMAIN tr : tr[i].status \in st}
Diffs(tr, st) == {tr[i].diff : i \in Entries(tr, st)}
Listed(q) == {q[i] : i \in DOMAIN q}
PatchOf(t) == [diff |-> t.diff, patch |-> PatchStatus(t.verdict), original |-> Origin[t.diff]]
Patches(tr) == {PatchOf(tr[i]) : i \in Entries(tr, {"known_bypass_match"})}

LEMMA OneMore ==
  ASSUME NEW q, NEW e, NEW r, Extended(q, e, r)
  PROVE  /\ Len(q) \in Nat /\ Len(r) = Len(q) + 1 /\ Len(r) \in Nat
         /\ DOMAIN q = 1..Len(q) /\ DOMAIN r = DOMAIN q \cup {Len(r)}
         /\ Len(r) \notin DOMAIN q /\ IsFiniteSet(DOMAIN q)
         /\ \A i \in DOMAIN q : r[i] = q[i]
         /\ r[Len(r)] = e
<1>1. /\ Len(q) \in Nat /\ Len(r) = Len(q) + 1 /\ Len(r) \in Nat
      /\ DOMAIN q = 1..Len(q) /\ DOMAIN r = DOMAIN q \cup {Len(r)}
      /\ Len(r) \notin DOMAIN q
      /\ \A i \in DOMAIN q : r[i] = q[i]
      /\ r[Len(r)] = e
  BY DEF Extended
<1>2. IsFiniteSet(1..Len(q))
  <2>1. 1 \in Int /\ Len(q) \in Int
    BY <1>1
  <2> QED BY <2>1, FS_Interval
<1> QED BY <1>1, <1>2

LEMMA EntriesAppend ==
  ASSUME NEW q, NEW e, NEW r, Extended(q, e, r), NEW st
  PROVE  /\ e.status \in st => Entries(r, st) = Entries(q, st) \cup {Len(r)}
         /\ e.status \notin st => Entries(r, st) = Entries(q, st)
         /\ Entries(q, st) \subseteq DOMAIN q
         /\ Len(r) \notin Entries(q, st)
         /\ IsFiniteSet(Entries(q, st))
         /\ e.status \in st => Cardinality(Entries(r, st)) = Cardinality(Entries(q, st)) + 1
<1> DEFINE n == Len(r)
<1>1. /\ DOMAIN r = DOMAIN q \cup {n} /\ n \notin DOMAIN q /\ IsFiniteSet(DOMAIN q)
      /\ (\A i \in DOMAIN q : r[i] = q[i]) /\ r[n] = e
  <2>1. DOMAIN r = DOMAIN q \cup {n} /\ n \notin DOMAIN q
    BY OneMore
  <2>2. IsFiniteSet(DOMAIN q) /\ r[n] = e
    BY OneMore
  <2>3. \A i \in DOMAIN q : r[i] = q[i]
    BY DEF Extended
  <2> QED BY <2>1, <2>2, <2>3
<1> HIDE DEF n
<1>2. Entries(q, st) \subseteq DOMAIN q /\ n \notin Entries(q, st)
  BY <1>1 DEF Entries
<1>3. IsFiniteSet(Entries(q, st))
  BY <1>1, <1>2, FS_Subset
<1>4. ASSUME e.status \in st PROVE Entries(r, st) = Entries(q, st) \cup {n}
  BY <1>1, <1>4 DEF Entries
<1>5. ASSUME e.status \notin st PROVE Entries(r, st) = Entries(q, st)
  BY <1>1, <1>5 DEF Entries
<1>6. Cardinality(Entries(q, st) \cup {n}) = Cardinality(Entries(q, st)) + 1
  BY <1>2, <1>3, FS_AddElement
<1> QED BY <1>2, <1>3, <1>4, <1>5, <1>6 DEF n

LEMMA DiffsAppend ==
  ASSUME NEW q, NEW e, NEW r, Extended(q, e, r), NEW st
  PROVE  /\ e.status \in st => Diffs(r, st) = Diffs(q, st) \cup {e.diff}
         /\ e.status \notin st => Diffs(r, st) = Diffs(q, st)
<1> DEFINE n == Len(r)
<1>1. (\A i \in DOMAIN q : r[i] = q[i]) /\ r[n] = e
  BY DEF Extended
<1>2. /\ e.status \in st => Entries(r, st) = Entries(q, st) \cup {n}
      /\ e.status \notin st => Entries(r, st) = Entries(q, st)
      /\ Entries(q, st) \subseteq DOMAIN q
  BY EntriesAppend
<1> HIDE DEF n
<1>3. \A i \in Entries(q, st) : r[i] = q[i]
  BY <1>1, <1>2
<1> QED BY <1>1, <1>2, <1>3 DEF Diffs

LEMMA PatchesAppend ==
  ASSUME NEW q, NEW e, NEW r, Extended(q, e, r)
  PROVE  /\ e.status = "known_bypass_match" => Patches(r) = Patches(q) \cup {PatchOf(e)}
         /\ e.status # "known_bypass_match" => Patches(r) = Patches(q)
<1> DEFINE n == Len(r)
           st == {"known_bypass_match"}
<1>1. (\A i \in DOMAIN q : r[i] = q[i]) /\ r[n] = e
  BY DEF Extended
<1>2. /\ e.status \in st => Entries(r, st) = Entries(q, st) \cup {n}
      /\ e.status \notin st => Entries(r, st) = Entries(q, st)
      /\ Entries(q, st) \subseteq DOMAIN q
  BY EntriesAppend
<1> HIDE DEF n
<1>3. \A i \in Entries(q, st) : r[i] = q[i]
  BY <1>1, <1>2
<1> QED BY <1>1, <1>2, <1>3 DEF Patches

LEMMA ListedAppend ==
  ASSUME NEW q, NEW e, NEW r, Extended(q, e, r)
  PROVE  Listed(r) = Listed(q) \cup {e}
<1> DEFINE n == Len(r)
<1>1. DOMAIN r = DOMAIN q \cup {n} /\ r[n] = e
  BY OneMore
<1>2. \A i \in DOMAIN q : r[i] = q[i]
  BY DEF Extended
<1> HIDE DEF n
<1> QED BY <1>1, <1>2 DEF Listed

LEMMA LinesType ==
  ASSUME TypeOK
  PROVE  /\ traces \in Seq(Trace) /\ finds \in Seq(Diff)
         /\ \E S : matches \in Seq(S)
         /\ \A i \in DOMAIN traces : traces[i] \in Trace
<1>1. traces \in Seq(Trace) /\ finds \in Seq(Diff) /\ \E S : matches \in Seq(S)
  BY DEF TypeOK
<1> QED BY <1>1

(* Which line an attempt writes, and which of its status.                  *)
LEMMA RefusedLine ==
  ASSUME NEW d \in Diff, Refuse(d)
  PROVE  \E s \in EarlyStatus : Add(d, s, s, StageOf(d)) /\ s \notin {"bypass", "known_bypass_match"}
  BY StageStatusType DEF Refuse, EarlyStatus

LEMMA JudgedLine ==
  ASSUME TypeOK, FlightOK, JudgeNew
  PROVE  /\ cur \in Diff /\ cur \notin DOMAIN Origin
         /\ Add(cur, JudgedAs, JudgedAs, "admitted") /\ JudgedAs # "known_bypass_match"
  BY VerdictType DEF JudgeNew, EndAttempt, JudgedAs, ReportStatus, Unknown, FlightOK, InFlight

-----------------------------------------------------------------------------
(* Finds are counted once.                                                 *)

(* FindsAreNew of a recorder's three lists.                                *)
CountedOnce(tr, fs, ms) ==
  /\ Len(fs) = Cardinality(Entries(tr, {"bypass"}))
  /\ Listed(fs) = Diffs(tr, {"bypass"})
  /\ \A i, j \in DOMAIN fs : i # j => fs[i] # fs[j]
  /\ \A i \in DOMAIN fs : fs[i] \notin DOMAIN Origin
  /\ Patches(tr) = Listed(ms)
  /\ Len(ms) = Cardinality(Entries(tr, {"known_bypass_match"}))

(* Every find has passed the hash gate, and the attempt in flight, which   *)
(* has passed it too, is none of them yet.                                 *)
FindsSeen ==
  /\ \A i \in DOMAIN finds : finds[i] \in seen
  /\ pc \in InFlight => cur \in seen /\ \A i \in DOMAIN finds : finds[i] # cur

FindsInv == FindsSeen /\ CountedOnce(traces, finds, matches)

(* A line that is neither a find nor a known bypass changes nothing.       *)
LEMMA PlainLine ==
  ASSUME TypeOK, CountedOnce(traces, finds, matches),
         NEW d, NEW s, NEW v, NEW t, Add(d, s, v, t),
         s \notin {"bypass", "known_bypass_match"}, matches' = matches
  PROVE  CountedOnce(traces', finds', matches') /\ finds' = finds
<1> DEFINE e == [diff |-> d, status |-> s, verdict |-> v, stage |-> t]
<1>1. Extended(traces, e, traces') /\ finds' = finds
  BY LinesType DEF Add, Extended
<1>2. e.status = s
  OBVIOUS
<1> HIDE DEF e
<1>3. Entries(traces', {"bypass"}) = Entries(traces, {"bypass"})
  BY <1>1, <1>2, EntriesAppend
<1>4. Entries(traces', {"known_bypass_match"}) = Entries(traces, {"known_bypass_match"})
  BY <1>1, <1>2, EntriesAppend
<1>5. Diffs(traces', {"bypass"}) = Diffs(traces, {"bypass"})
  BY <1>1, <1>2, DiffsAppend
<1>6. Patches(traces') = Patches(traces)
  BY <1>1, <1>2, PatchesAppend
<1> QED BY <1>1, <1>3, <1>4, <1>5, <1>6 DEF CountedOnce

(* A find joins the finds, and was none of them.                           *)
LEMMA FindLine ==
  ASSUME TypeOK, FindsInv, pc \in InFlight, cur \notin DOMAIN Origin,
         NEW v, NEW t, Add(cur, "bypass", v, t), matches' = matches
  PROVE  CountedOnce(traces', finds', matches')
<1> DEFINE e == [diff |-> cur, status |-> "bypass", verdict |-> v, stage |-> t]
           m == Len(finds')
<1>1. Extended(traces, e, traces') /\ Extended(finds, cur, finds')
  BY LinesType DEF Add, Extended
<1>2. e.status = "bypass" /\ e.diff = cur
  OBVIOUS
<1> HIDE DEF e
<1>3. Cardinality(Entries(traces', {"bypass"})) = Cardinality(Entries(traces, {"bypass"})) + 1
  BY <1>1, <1>2, EntriesAppend
<1>4. Entries(traces', {"known_bypass_match"}) = Entries(traces, {"known_bypass_match"})
  BY <1>1, <1>2, EntriesAppend
<1>5. Diffs(traces', {"bypass"}) = Diffs(traces, {"bypass"}) \cup {cur}
  BY <1>1, <1>2, DiffsAppend
<1>6. Patches(traces') = Patches(traces)
  BY <1>1, <1>2, PatchesAppend
<1>7. Listed(finds') = Listed(finds) \cup {cur}
  BY <1>1, ListedAppend
<1>8. /\ m = Len(finds) + 1 /\ DOMAIN finds' = DOMAIN finds \cup {m} /\ m \notin DOMAIN finds
      /\ (\A i \in DOMAIN finds : finds'[i] = finds[i]) /\ finds'[m] = cur
  BY <1>1, OneMore
<1> HIDE DEF m
<1>9. \A i, j \in DOMAIN finds' : i # j => finds'[i] # finds'[j]
  BY <1>8 DEF FindsInv, CountedOnce, FindsSeen
<1>10. \A i \in DOMAIN finds' : finds'[i] \notin DOMAIN Origin
  BY <1>8 DEF FindsInv, CountedOnce
<1>11. m = Cardinality(Entries(traces', {"bypass"}))
  BY <1>3, <1>8 DEF FindsInv, CountedOnce
<1> QED BY <1>4, <1>5, <1>6, <1>7, <1>9, <1>10, <1>11 DEF FindsInv, CountedOnce, m

(* A known bypass joins the patch verifications.                           *)
LEMMA KnownLine ==
  ASSUME TypeOK, FindsInv, JudgeKnown
  PROVE  CountedOnce(traces', finds', matches') /\ finds' = finds
<1> DEFINE e == [diff |-> cur, status |-> "known_bypass_match", verdict |-> JudgedAs,
                 stage |-> "admitted"]
           new == [diff |-> cur, patch |-> PatchStatus(JudgedAs), original |-> Origin[cur]]
<1>1. Extended(traces, e, traces') /\ finds' = finds /\ Extended(matches, new, matches')
  BY LinesType DEF JudgeKnown, EndAttempt, Add, Extended
<1>2. e.status = "known_bypass_match" /\ PatchOf(e) = new
  BY DEF PatchOf
<1> HIDE DEF e, new
<1>3. Cardinality(Entries(traces', {"known_bypass_match"}))
        = Cardinality(Entries(traces, {"known_bypass_match"})) + 1
  BY <1>1, <1>2, EntriesAppend
<1>4. Entries(traces', {"bypass"}) = Entries(traces, {"bypass"})
  BY <1>1, <1>2, EntriesAppend
<1>5. Diffs(traces', {"bypass"}) = Diffs(traces, {"bypass"})
  BY <1>1, <1>2, DiffsAppend
<1>6. Patches(traces') = Patches(traces) \cup {new}
  BY <1>1, <1>2, PatchesAppend
<1>7. Listed(matches') = Listed(matches) \cup {new} /\ Len(matches') = Len(matches) + 1
  BY <1>1, ListedAppend, OneMore
<1> QED BY <1>1, <1>3, <1>4, <1>5, <1>6, <1>7 DEF FindsInv, CountedOnce

LEMMA FindsInvNext ==
  ASSUME TypeOK, FlightOK, FindsInv, [Next]_vars
  PROVE  FindsInv'
<1> USE DEF Goto, Stop, instrument, gates, recorder, published, InFlight
<1>1. CASE \E d \in Diff : Refuse(d)
  <2> PICK d \in Diff : Refuse(d)
    BY <1>1
  <2>1. CountedOnce(traces', finds', matches') /\ finds' = finds
    <3>1. matches' = matches
      BY DEF Refuse
    <3> QED BY <3>1, RefusedLine, PlainLine DEF FindsInv
  <2>2. pc' = "loop" /\ seen \subseteq seen'
    BY DEF Refuse, MayGenerate, Validate
  <2> QED BY <2>1, <2>2 DEF FindsInv, FindsSeen
<1>2. CASE \E d \in Diff : Admit(d)
  <2> PICK d \in Diff : Admit(d)
    BY <1>2
  <2>1. StageOf(d) = "admitted" /\ d \notin seen
    BY DEF Admit, StageOf
  <2>2. seen' = seen \cup {d} /\ cur' = d /\ traces' = traces /\ finds' = finds /\ matches' = matches
    BY <2>1 DEF Admit, Validate
  <2> QED BY <2>1, <2>2 DEF FindsInv, FindsSeen
<1>3. CASE AnalyzeFails
  <2>1. CountedOnce(traces', finds', matches') /\ finds' = finds
    BY <1>3, PlainLine DEF AnalyzeFails, FindsInv
  <2> QED BY <1>3, <2>1 DEF AnalyzeFails, FindsInv, FindsSeen
<1>4. CASE JudgeKnown
  <2>1. CountedOnce(traces', finds', matches') /\ finds' = finds
    BY <1>4, KnownLine
  <2> QED BY <1>4, <2>1 DEF JudgeKnown, EndAttempt, FindsInv, FindsSeen
<1>5. CASE JudgeNew \/ Minimize
  <2>1. PICK s : /\ Add(cur, s, JudgedAs, "admitted") /\ s # "known_bypass_match"
                 /\ cur \notin DOMAIN Origin /\ matches' = matches
    BY <1>5, JudgedLine DEF JudgeNew, Minimize, EndAttempt
  <2>2. pc \in InFlight /\ pc' = "loop" /\ seen' = seen
    BY <1>5 DEF JudgeNew, Minimize, EndAttempt
  <2>3. CountedOnce(traces', finds', matches')
    <3>1. CASE s = "bypass"
      BY <2>1, <2>2, <3>1, FindLine
    <3>2. CASE s # "bypass"
      BY <2>1, <3>2, PlainLine DEF FindsInv
    <3> QED BY <3>1, <3>2
  <2>4. \A i \in DOMAIN finds' : finds'[i] \in seen
    <3>1. cur \in seen /\ finds \in Seq(Diff)
      BY <2>2, LinesType DEF FindsInv, FindsSeen
    <3>2. CASE s = "bypass"
      <4>1. Extended(finds, cur, finds')
        BY <2>1, <3>1, <3>2 DEF Add, Extended
      <4>2. Listed(finds') = Listed(finds) \cup {cur}
        BY <4>1, <3>1, ListedAppend
      <4> QED BY <4>2, <3>1 DEF Listed, FindsInv, FindsSeen
    <3>3. CASE s # "bypass"
      BY <2>1, <3>3 DEF FindsInv, FindsSeen, Add
    <3> QED BY <3>2, <3>3
  <2> QED BY <2>2, <2>3, <2>4 DEF FindsInv, FindsSeen
<1>6. CASE UNCHANGED <<seen, traces, finds, matches>> /\ (pc' \in InFlight => pc \in InFlight /\ cur' = cur)
  BY <1>6 DEF FindsInv, FindsSeen
<1>7. CASE Boot \/ AdoptCanary \/ AdoptFingerprint \/ Restore \/ Canary \/ RestoreAgain \/ Analyze
  BY <1>6, <1>7 DEF Boot, AdoptCanary, AdoptFingerprint, Restore, Canary, RestoreAgain, Analyze
<1>8. CASE JudgeUnknown \/ Ending \/ World \/ UNCHANGED vars
  BY <1>6, <1>8 DEF JudgeUnknown, Ending, EndLoop, WriteRecord, MergeShared, SaveSlice, World,
                    Reload, RunnerFails, GeneratorFails, Killed, vars
<1> QED BY <1>1, <1>2, <1>3, <1>4, <1>5, <1>7, <1>8 DEF Next, Attempting

LEMMA TypeAndFlight == Spec => [](TypeOK /\ FlightOK)
<1>1. TypeOK /\ FlightOK /\ [Next]_vars => TypeOK' /\ FlightOK'
  BY TypeNext
<1> QED BY TypeInit, <1>1, PTL DEF Spec

(* A bypass counts as a find once and only if no record knew it, however    *)
(* the attempts fail, repeat each other or meet known bypasses; and every   *)
(* known bypass that was analysed is a patch verification.                  *)
THEOREM FindsCountOnce == Spec => []FindsAreNew
<1>1. Init => FindsInv
  <2> SUFFICES ASSUME Init PROVE FindsInv
    OBVIOUS
  <2>1. traces = <<>> /\ finds = <<>> /\ matches = <<>> /\ pc = "boot"
    BY DEF Init
  <2>2. \A st : Entries(<<>>, st) = {}
    BY DEF Entries
  <2>3. Diffs(<<>>, {"bypass"}) = {} /\ Patches(<<>>) = {}
    BY <2>2 DEF Diffs, Patches
  <2>4. Listed(<<>>) = {} /\ Len(<<>>) = 0 /\ Cardinality({}) = 0
    BY FS_EmptySet DEF Listed
  <2>5. DOMAIN <<>> = {}
    OBVIOUS
  <2>6. CountedOnce(<<>>, <<>>, <<>>)
    BY <2>2, <2>3, <2>4, <2>5 DEF CountedOnce
  <2> QED BY <2>1, <2>5, <2>6 DEF FindsInv, FindsSeen, InFlight
<1>2. TypeOK /\ FlightOK /\ FindsInv /\ [Next]_vars => FindsInv'
  BY FindsInvNext
<1>3. FindsInv => FindsAreNew
  <2>1. Entries(traces, {"bypass"}) = With({"bypass"})
          /\ Entries(traces, {"known_bypass_match"}) = With({"known_bypass_match"})
    BY DEF Entries, With
  <2> QED BY <2>1 DEF FindsInv, FindsAreNew, CountedOnce, Listed, Diffs, Patches, PatchOf
<1> QED BY TypeAndFlight, <1>1, <1>2, <1>3, PTL DEF Spec

-----------------------------------------------------------------------------
(* A finished run is published whole.                                      *)

(* Every cell of every find is filled and holds the find's own observation. *)
Observed(tr, g, f) ==
  \A i \in Entries(tr, {"bypass"}) : \A c \in CellsOf[tr[i].diff] :
    c \in f /\ TraceOf(i) \in ObsOf(g, c)

Grows(g, h) == \A c \in Cell : ObsOf(g, c) \subseteq ObsOf(h, c)

(* What makes PublishedWhole inductive: the record, the shared grid and the *)
(* run's own grid are written one after the other from a memory that no     *)
(* step changes any more.                                                   *)
Published ==
  /\ pc # "stopped" => outcome = "running"
  /\ pc = "boot" => traces = <<>> /\ filled = {}
  /\ Observed(traces, grid, filled)
  /\ filled \subseteq DOMAIN grid
  /\ pc \in {"merge", "slice"} \/ outcome = "done" =>
       record.bypasses = finds /\ record.attempts = Len(traces)
  /\ pc = "slice" \/ outcome = "done" => Grows(grid, shared)
  /\ outcome = "done" => own = Slice(grid, filled)

LEMMA ObservedLine ==
  ASSUME NEW q, NEW e, NEW r, Extended(q, e, r), NEW g, NEW h, NEW f, NEW k,
         \A i \in DOMAIN q : q[i].diff \in Diff,
         Observed(q, g, f), Grows(g, h), f \subseteq k,
         e.status = "bypass" =>
           \A c \in CellsOf[e.diff] : c \in k /\ TraceOf(Len(r)) \in ObsOf(h, c)
  PROVE  Observed(r, h, k)
<1> SUFFICES ASSUME NEW i \in Entries(r, {"bypass"}), NEW c \in CellsOf[r[i].diff]
             PROVE  c \in k /\ TraceOf(i) \in ObsOf(h, c)
  BY DEF Observed
<1> DEFINE n == Len(r)
<1>1. (\A j \in DOMAIN q : r[j] = q[j]) /\ r[n] = e
  BY DEF Extended
<1>2. /\ e.status \in {"bypass"} => Entries(r, {"bypass"}) = Entries(q, {"bypass"}) \cup {n}
      /\ e.status \notin {"bypass"} => Entries(r, {"bypass"}) = Entries(q, {"bypass"})
      /\ Entries(q, {"bypass"}) \subseteq DOMAIN q
  BY EntriesAppend
<1> HIDE DEF n
<1>3. CASE i \in Entries(q, {"bypass"})
  <2>1. r[i] = q[i] /\ q[i].diff \in Diff
    BY <1>1, <1>2, <1>3
  <2>2. c \in CellsOf[q[i].diff] /\ c \in Cell
    BY <2>1, CampaignAssumption
  <2>3. c \in f /\ TraceOf(i) \in ObsOf(g, c)
    BY <1>3, <2>2 DEF Observed
  <2> QED BY <2>2, <2>3 DEF Grows
<1>4. CASE i = n /\ e.status = "bypass"
  <2>1. c \in CellsOf[e.diff]
    BY <1>1, <1>4
  <2> QED BY <2>1, <1>4 DEF n
<1> QED BY <1>2, <1>3, <1>4

LEMMA DiffsType ==
  ASSUME TypeOK
  PROVE  \A i \in DOMAIN traces : traces[i].diff \in Diff
  BY LinesType DEF Trace

LEMMA GrowsSame == \A g : Grows(g, g)
  BY DEF Grows

LEMMA GridAssumed ==
  /\ Me \in CampaignName /\ Installed \in Version /\ Degraded \in BOOLEAN
  /\ \A d \in Diff : CellsOf[d] \in SUBSET Cell /\ Size[d] \in Nat
  BY CampaignAssumption

(* What the gates do to the grid: they add no observation and drop no cell. *)
LEMMA ValidateGrid ==
  ASSUME TypeOK, NEW d \in Diff, Validate(d)
  PROVE  /\ \A c \in Cell : ObsOf(grid', c) = ObsOf(grid, c)
         /\ DOMAIN grid \subseteq DOMAIN grid'
<1>1. IsGrid(grid) /\ CellsOf[d] \in SUBSET Cell /\ Installed \in Version
  BY GridAssumed DEF TypeOK
<1>2. \A c \in Cell : ObsOf(NoteAll(grid, CellsOf[d], Installed), c) = ObsOf(grid, c)
  BY <1>1, NoteAllObs
<1>3. DOMAIN grid \subseteq DOMAIN NoteAll(grid, CellsOf[d], Installed)
  BY DEF NoteAll
<1>4. grid' = NoteAll(grid, CellsOf[d], Installed) \/ grid' = grid
  BY DEF Validate
<1> QED BY <1>2, <1>3, <1>4

(* What a find does to the grid, and where it leaves its observation.       *)
LEMMA MinimizeGrid ==
  ASSUME TypeOK, FlightOK, Minimize
  PROVE  /\ cur \in Diff /\ CellsOf[cur] \in SUBSET Cell
         /\ Add(cur, "bypass", JudgedAs, "admitted")
         /\ filled' = filled \cup CellsOf[cur]
         /\ DOMAIN grid' = DOMAIN grid \cup CellsOf[cur]
         /\ \A c \in Cell : ObsOf(grid', c) = IF c \in CellsOf[cur]
                                                THEN ObsOf(grid, c) \cup {TraceOf(Len(traces'))}
                                                ELSE ObsOf(grid, c)
<1>1. cur \in Diff /\ CellsOf[cur] \in SUBSET Cell /\ Degraded \in BOOLEAN
  BY GridAssumed DEF Minimize, FlightOK, InFlight
<1>2. PICK size \in 1..Size[cur] : FillCells(size)
  BY DEF Minimize
<1>3. Add(cur, "bypass", JudgedAs, "admitted")
  BY DEF Minimize, EndAttempt
<1>4. Len(traces') - 1 = Len(traces)
  <2>1. \E e : Extended(traces, e, traces')
    BY <1>3, LinesType DEF Add, Extended
  <2>2. Len(traces') = Len(traces) + 1 /\ Len(traces) \in Nat
    BY <2>1, OneMore
  <2> QED BY <2>2
<1> DEFINE o == TraceOf(Len(traces'))
           S == CellsOf[cur]
<1>5. grid' = ObserveAll(grid, S, o, size, Degraded)
  BY <1>2, <1>4 DEF FillCells, Attempt, TraceOf
<1>6. IsGrid(grid) /\ S \in SUBSET Cell
  BY <1>1 DEF TypeOK
<1>7. filled' = filled \cup S
  BY <1>2 DEF FillCells
<1> HIDE DEF o, S
<1>8. \A c \in Cell : ObsOf(grid', c) = IF c \in S THEN ObsOf(grid, c) \cup {o} ELSE ObsOf(grid, c)
  BY <1>1, <1>5, <1>6, ObserveAllObs
<1>9. DOMAIN grid' = DOMAIN grid \cup S
  <2>1. DOMAIN ObserveAll(grid, S, o, size, Degraded) = DOMAIN grid \cup S
    BY DEF ObserveAll
  <2> QED BY <1>5, <2>1
<1> QED BY <1>1, <1>3, <1>7, <1>8, <1>9 DEF o, S

LEMMA PublishedNext ==
  ASSUME TypeOK, FlightOK, Published, [Next]_vars
  PROVE  Published'
<1> USE DEF Goto, Stop, instrument, gates, recorder, published
<1>1. CASE \E d \in Diff : Refuse(d)
  <2> PICK d \in Diff : Refuse(d)
    BY <1>1
  <2>1. PICK s : Add(d, s, s, StageOf(d)) /\ s # "bypass"
    BY RefusedLine
  <2> DEFINE e == [diff |-> d, status |-> s, verdict |-> s, stage |-> StageOf(d)]
  <2>2. Extended(traces, e, traces') /\ e.status # "bypass"
    BY <2>1, LinesType DEF Add, Extended
  <2>3. Grows(grid, grid') /\ DOMAIN grid \subseteq DOMAIN grid'
    BY ValidateGrid DEF Refuse, Grows
  <2>4. filled' = filled /\ pc' = "loop" /\ outcome' = "running"
    BY DEF Refuse, MayGenerate, Published
  <2> HIDE DEF e
  <2>5. Observed(traces', grid', filled')
    BY <2>2, <2>3, <2>4, ObservedLine, DiffsType DEF Published
  <2> QED BY <2>3, <2>4, <2>5 DEF Published
<1>2. CASE \E d \in Diff : Admit(d)
  <2>1. UNCHANGED <<traces, grid, filled>> /\ pc' = "restore" /\ outcome' = "running"
    BY <1>2 DEF Admit, Validate, MayGenerate, Published
  <2> QED BY <2>1 DEF Published
<1>3. CASE AnalyzeFails \/ JudgeKnown \/ JudgeNew
  <2>1. PICK s, v : Add(cur, s, v, "admitted") /\ (s # "bypass" \/ CellsOf[cur] = {})
    BY <1>3 DEF AnalyzeFails, JudgeKnown, JudgeNew, EndAttempt
  <2>2. /\ UNCHANGED <<grid, filled>> /\ pc' \in {"loop", "stopped"}
        /\ pc' = "loop" => outcome' = "running"
        /\ outcome' # "done"
    BY <1>3 DEF AnalyzeFails, JudgeKnown, JudgeNew, EndAttempt, Published
  <2> DEFINE e == [diff |-> cur, status |-> s, verdict |-> v, stage |-> "admitted"]
  <2>3. Extended(traces, e, traces') /\ (e.status # "bypass" \/ CellsOf[e.diff] = {})
    BY <2>1, LinesType DEF Add, Extended
  <2> HIDE DEF e
  <2>4. Observed(traces', grid', filled')
    BY <2>2, <2>3, ObservedLine, DiffsType, GrowsSame DEF Published
  <2> QED BY <2>2, <2>4 DEF Published
<1>4. CASE Minimize
  <2> DEFINE e == [diff |-> cur, status |-> "bypass", verdict |-> JudgedAs, stage |-> "admitted"]
  <2>1. /\ cur \in Diff /\ CellsOf[cur] \in SUBSET Cell /\ filled' = filled \cup CellsOf[cur]
        /\ DOMAIN grid' = DOMAIN grid \cup CellsOf[cur]
        /\ Add(cur, "bypass", JudgedAs, "admitted")
    BY <1>4, MinimizeGrid
  <2>2. \A c \in Cell : ObsOf(grid', c) = IF c \in CellsOf[cur]
                                            THEN ObsOf(grid, c) \cup {TraceOf(Len(traces'))}
                                            ELSE ObsOf(grid, c)
    BY <1>4, MinimizeGrid
  <2>3. Extended(traces, e, traces') /\ e.diff = cur
    BY <2>1, LinesType DEF Add, Extended
  <2> HIDE DEF e
  <2>4. Grows(grid, grid')
    BY <2>2 DEF Grows
  <2>5. \A c \in CellsOf[cur] : c \in filled' /\ TraceOf(Len(traces')) \in ObsOf(grid', c)
    BY <2>1, <2>2
  <2>6. Observed(traces', grid', filled')
    BY <2>1, <2>3, <2>4, <2>5, ObservedLine, DiffsType DEF Published
  <2>7. pc' = "loop" /\ outcome' = "running"
    BY <1>4 DEF Minimize, EndAttempt, Published
  <2> QED BY <2>1, <2>6, <2>7 DEF Published
<1>5. CASE Boot
  <2>1. traces' = <<>> /\ filled' = {} /\ pc' = "canary0" /\ outcome' = "running"
    BY <1>5 DEF Boot, Published
  <2>2. Observed(<<>>, grid', {})
    BY DEF Observed, Entries
  <2> QED BY <2>1, <2>2 DEF Published
<1>6. CASE WriteRecord
  <2>1. /\ record'.bypasses = finds /\ record'.attempts = Len(traces)
        /\ UNCHANGED <<traces, finds, grid, filled>> /\ pc' = "merge" /\ outcome' = "running"
    BY <1>6 DEF WriteRecord, Published
  <2> QED BY <2>1 DEF Published
<1>7. CASE MergeShared
  <2>1. /\ UNCHANGED <<traces, finds, grid, filled, record, own>>
        /\ pc' = "slice" => outcome' = "running" /\ shared' = Merge(shared, grid)
        /\ pc' \in {"slice", "stopped"} /\ outcome' # "done" /\ pc = "merge"
    BY <1>7 DEF MergeShared, Published
  <2>2. Grows(grid, Merge(shared, grid))
    BY MergeObs DEF Grows
  <2> QED BY <2>1, <2>2 DEF Published
<1>8. CASE SaveSlice
  <2>1. /\ UNCHANGED <<traces, finds, grid, filled, record, shared>>
        /\ pc = "slice" /\ pc' = "stopped" /\ own' = Slice(grid, filled)
    BY <1>8 DEF SaveSlice
  <2> QED BY <2>1 DEF Published
<1>9. CASE /\ UNCHANGED <<traces, finds, grid, filled, record, shared, own>>
           /\ pc' # "boot" \/ pc = "boot"
           /\ pc' # "stopped" => outcome' = outcome /\ pc # "stopped"
           /\ pc' \in {"merge", "slice"} => pc' = pc
           /\ outcome' = "done" => outcome = "done"
  BY <1>9 DEF Published
<1>10. CASE AdoptCanary \/ AdoptFingerprint \/ Restore \/ Canary \/ RestoreAgain \/ Analyze
  BY <1>9, <1>10 DEF AdoptCanary, AdoptFingerprint, Restore, Canary, RestoreAgain, Analyze
<1>11. CASE JudgeUnknown \/ EndLoop \/ World \/ UNCHANGED vars
  BY <1>9, <1>11 DEF JudgeUnknown, EndLoop, World, Reload, RunnerFails, GeneratorFails, Killed, vars
<1> QED BY <1>1, <1>2, <1>3, <1>4, <1>5, <1>6, <1>7, <1>8, <1>10, <1>11 DEF Next, Attempting, Ending

(* A run that finishes has published every find it counted: in its record,  *)
(* and as an observation in the shared archive and in its own.              *)
THEOREM FinishedWhole == Spec => []PublishedWhole
<1>1. Init => Published
  BY DEF Init, Published, Observed, Entries
<1>2. TypeOK /\ Published => PublishedWhole
  <2> SUFFICES ASSUME TypeOK, Published, outcome = "done" PROVE PublishedWhole
    BY DEF PublishedWhole
  <2>1. /\ record.bypasses = finds /\ record.attempts = Attempt
        /\ Grows(grid, shared) /\ own = Slice(grid, filled) /\ filled \subseteq DOMAIN grid
    BY DEF Published, Attempt
  <2>2. DOMAIN own = filled
    BY <2>1 DEF Slice
  <2>3. ASSUME NEW i \in With({"bypass"}), NEW c \in CellsOf[traces[i].diff]
        PROVE  TraceOf(i) \in DOMAIN shared[c].obs /\ TraceOf(i) \in DOMAIN own[c].obs
    <3>1. i \in Entries(traces, {"bypass"}) /\ c \in Cell
      BY <2>3, DiffsType, CampaignAssumption DEF With, Entries
    <3>2. c \in filled /\ TraceOf(i) \in ObsOf(grid, c)
      BY <3>1 DEF Published, Observed
    <3>3. TraceOf(i) \in ObsOf(shared, c) /\ TraceOf(i) \in ObsOf(own, c)
      BY <2>1, <3>1, <3>2, SliceObs DEF Grows
    <3> QED BY <3>3 DEF ObsOf
  <2> QED BY <2>1, <2>2, <2>3 DEF PublishedWhole
<1>3. TypeOK /\ FlightOK /\ Published /\ [Next]_vars => Published'
  BY PublishedNext
<1> QED BY TypeAndFlight, <1>1, <1>2, <1>3, PTL DEF Spec

-----------------------------------------------------------------------------
(* The cells of a grid are earned.                                         *)

(* CellsAreEarned of an evidence, a grid and the filled cells; and the      *)
(* reason why the next attempt's observation is new: every observation of   *)
(* this campaign at this version is numbered by a line already written.     *)
Earned(tr, g, f) ==
  /\ f = UNION {CellsOf[d] : d \in Diffs(tr, {"bypass"})}
  /\ \A c \in Cell : \A i \in DOMAIN tr :
       TraceOf(i) \in ObsOf(g, c) <=> i \in Entries(tr, {"bypass"}) /\ c \in CellsOf[tr[i].diff]
  /\ \A c \in Cell : \A o \in ObsOf(g, c) :
       o.campaign = Me /\ o.version = Installed => o.attempt \in 0..(Len(tr) - 1)

EarnedInv ==
  /\ pc = "boot" => traces = <<>> /\ filled = {} /\ shared \in InitialGrids
  /\ Earned(traces, grid, filled)

LEMMA EarnedLine ==
  ASSUME NEW q, NEW e, NEW r, Extended(q, e, r), NEW g, NEW h, NEW f, NEW k,
         Earned(q, g, f),
         k = IF e.status = "bypass" THEN f \cup CellsOf[e.diff] ELSE f,
         \A c \in Cell : ObsOf(h, c) = IF e.status = "bypass" /\ c \in CellsOf[e.diff]
                                         THEN ObsOf(g, c) \cup {TraceOf(Len(r))}
                                         ELSE ObsOf(g, c)
  PROVE  Earned(r, h, k)
<1> DEFINE n == Len(r)
           B(x) == Entries(x, {"bypass"})
<1>1. (\A j \in DOMAIN q : r[j] = q[j]) /\ r[n] = e
  BY DEF Extended
<1>2. /\ Len(q) \in Nat /\ n = Len(q) + 1 /\ DOMAIN r = DOMAIN q \cup {n} /\ n \notin DOMAIN q
      /\ DOMAIN q \subseteq Nat
  <2>1. Len(q) \in Nat /\ n = Len(q) + 1
    BY OneMore
  <2>2. DOMAIN r = DOMAIN q \cup {n} /\ n \notin DOMAIN q
    BY OneMore
  <2>3. DOMAIN q \subseteq Nat
    BY DEF Extended
  <2> QED BY <2>1, <2>2, <2>3
<1>3. /\ e.status \in {"bypass"} => B(r) = B(q) \cup {n}
      /\ e.status \notin {"bypass"} => B(r) = B(q)
      /\ B(q) \subseteq DOMAIN q
  BY EntriesAppend
<1>4. /\ e.status \in {"bypass"} => Diffs(r, {"bypass"}) = Diffs(q, {"bypass"}) \cup {e.diff}
      /\ e.status \notin {"bypass"} => Diffs(r, {"bypass"}) = Diffs(q, {"bypass"})
  BY DiffsAppend
<1>5. k = UNION {CellsOf[d] : d \in Diffs(r, {"bypass"})}
  BY <1>4 DEF Earned
<1> HIDE DEF n, B
<1>6. \A i, j \in Nat : i # j => TraceOf(i) # TraceOf(j)
  <2> SUFFICES ASSUME NEW i \in Nat, NEW j \in Nat, TraceOf(i) = TraceOf(j) PROVE i = j
    OBVIOUS
  <2>1. TraceOf(i).attempt = i - 1 /\ TraceOf(j).attempt = j - 1
    BY DEF TraceOf
  <2> QED BY <2>1
<1>7. \A c \in Cell : ObsOf(h, c) = IF e.status = "bypass" /\ c \in CellsOf[e.diff]
                                      THEN ObsOf(g, c) \cup {TraceOf(n)}
                                      ELSE ObsOf(g, c)
  BY DEF n
<1>8. ASSUME NEW c \in Cell, NEW i \in DOMAIN r
      PROVE  TraceOf(i) \in ObsOf(h, c) <=> i \in B(r) /\ c \in CellsOf[r[i].diff]
  <2>1. CASE i \in DOMAIN q
    <3>1. r[i] = q[i] /\ i # n /\ (i \in B(r) <=> i \in B(q))
      BY <1>1, <1>2, <1>3, <2>1
    <3>2. TraceOf(i) # TraceOf(n)
      BY <1>2, <1>6, <2>1, <3>1
    <3>3. TraceOf(i) \in ObsOf(h, c) <=> TraceOf(i) \in ObsOf(g, c)
      BY <1>7, <3>2
    <3>4. TraceOf(i) \in ObsOf(g, c) <=> i \in B(q) /\ c \in CellsOf[q[i].diff]
      BY <2>1 DEF Earned, B
    <3> QED BY <3>1, <3>3, <3>4
  <2>2. CASE i = n
    <3>1. TraceOf(n) \notin ObsOf(g, c)
      <4>1. /\ TraceOf(n).attempt = Len(q)
            /\ TraceOf(n).campaign = Me /\ TraceOf(n).version = Installed
        BY <1>2 DEF TraceOf
      <4>2. TraceOf(n).attempt \notin 0..(Len(q) - 1)
        BY <1>2, <4>1
      <4> QED BY <4>1, <4>2 DEF Earned
    <3>2. i \in B(r) <=> e.status = "bypass"
      BY <1>2, <1>3, <2>2
    <3>3. TraceOf(n) \in ObsOf(h, c) <=> e.status = "bypass" /\ c \in CellsOf[e.diff]
      BY <1>7, <3>1
    <3> QED BY <1>1, <2>2, <3>2, <3>3
  <2> QED BY <1>2, <2>1, <2>2
<1>9. ASSUME NEW c \in Cell, NEW o \in ObsOf(h, c), o.campaign = Me, o.version = Installed
      PROVE  o.attempt \in 0..(n - 1)
  <2>1. CASE o \in ObsOf(g, c)
    <3>1. o.attempt \in 0..(Len(q) - 1)
      BY <1>9, <2>1 DEF Earned
    <3> QED BY <1>2, <3>1
  <2>2. CASE o = TraceOf(n)
    <3>1. o.attempt = n - 1
      BY <2>2 DEF TraceOf
    <3> QED BY <1>2, <3>1
  <2> QED BY <1>7, <1>9, <2>1, <2>2
<1> QED BY <1>5, <1>8, <1>9 DEF Earned, n, B

LEMMA EarnedSame ==
  ASSUME NEW q, NEW g, NEW h, NEW f, Earned(q, g, f),
         \A c \in Cell : ObsOf(h, c) = ObsOf(g, c)
  PROVE  Earned(q, h, f)
  BY DEF Earned

LEMMA EarnedStart ==
  ASSUME FreshStart, NEW g, \/ g = EmptyGrid
                            \/ g \in InitialGrids /\ g # Corrupt
  PROVE  Earned(<<>>, g, {})
<1>1. Entries(<<>>, {"bypass"}) = {}
  BY DEF Entries
<1>2. {} = UNION {CellsOf[d] : d \in Diffs(<<>>, {"bypass"})}
  BY <1>1 DEF Diffs
<1>3. \A c \in Cell : \A o \in ObsOf(g, c) : ~ (o.campaign = Me /\ o.version = Installed)
  BY DEF FreshStart, ObsOf, EmptyGrid, Known
<1>4. DOMAIN <<>> = {}
  OBVIOUS
<1> QED BY <1>2, <1>3, <1>4 DEF Earned

LEMMA EarnedNext ==
  ASSUME FreshStart, TypeOK, FlightOK, EarnedInv, [Next]_vars
  PROVE  EarnedInv'
<1> USE DEF Goto, Stop, instrument, gates, recorder, published
<1>1. CASE \E d \in Diff : Refuse(d)
  <2> PICK d \in Diff : Refuse(d)
    BY <1>1
  <2>1. PICK s : Add(d, s, s, StageOf(d)) /\ s # "bypass"
    BY RefusedLine
  <2> DEFINE e == [diff |-> d, status |-> s, verdict |-> s, stage |-> StageOf(d)]
  <2>2. Extended(traces, e, traces') /\ e.status # "bypass"
    BY <2>1, LinesType DEF Add, Extended
  <2>3. \A c \in Cell : ObsOf(grid', c) = ObsOf(grid, c)
    BY ValidateGrid DEF Refuse
  <2>4. filled' = filled /\ pc' = "loop"
    BY DEF Refuse, MayGenerate
  <2> HIDE DEF e
  <2>5. Earned(traces', grid', filled')
    BY <2>2, <2>3, <2>4, EarnedLine DEF EarnedInv
  <2> QED BY <2>4, <2>5 DEF EarnedInv
<1>2. CASE \E d \in Diff : Admit(d)
  <2>1. UNCHANGED <<traces, grid, filled>> /\ pc' = "restore"
    BY <1>2 DEF Admit, Validate, MayGenerate
  <2> QED BY <2>1 DEF EarnedInv
<1>3. CASE AnalyzeFails \/ JudgeKnown \/ JudgeNew
  <2>1. PICK s, v : Add(cur, s, v, "admitted") /\ (s # "bypass" \/ CellsOf[cur] = {})
    BY <1>3 DEF AnalyzeFails, JudgeKnown, JudgeNew, EndAttempt
  <2>2. UNCHANGED <<grid, filled>> /\ pc' \in {"loop", "stopped"}
    BY <1>3 DEF AnalyzeFails, JudgeKnown, JudgeNew, EndAttempt
  <2> DEFINE e == [diff |-> cur, status |-> s, verdict |-> v, stage |-> "admitted"]
  <2>3. Extended(traces, e, traces') /\ (e.status # "bypass" \/ CellsOf[e.diff] = {})
    BY <2>1, LinesType DEF Add, Extended
  <2> HIDE DEF e
  <2>4. Earned(traces', grid', filled')
    BY <2>2, <2>3, EarnedLine DEF EarnedInv
  <2> QED BY <2>2, <2>4 DEF EarnedInv
<1>4. CASE Minimize
  <2> DEFINE e == [diff |-> cur, status |-> "bypass", verdict |-> JudgedAs, stage |-> "admitted"]
  <2>1. /\ filled' = filled \cup CellsOf[cur]
        /\ Add(cur, "bypass", JudgedAs, "admitted")
    BY <1>4, MinimizeGrid
  <2>2. \A c \in Cell : ObsOf(grid', c) = IF c \in CellsOf[cur]
                                            THEN ObsOf(grid, c) \cup {TraceOf(Len(traces'))}
                                            ELSE ObsOf(grid, c)
    BY <1>4, MinimizeGrid
  <2>3. Extended(traces, e, traces') /\ e.diff = cur /\ e.status = "bypass"
    BY <2>1, LinesType DEF Add, Extended
  <2> HIDE DEF e
  <2>4. Earned(traces', grid', filled')
    BY <2>1, <2>2, <2>3, EarnedLine DEF EarnedInv
  <2>5. pc' = "loop"
    BY <1>4 DEF Minimize, EndAttempt
  <2> QED BY <2>4, <2>5 DEF EarnedInv
<1>5. CASE Boot
  <2>1. /\ traces' = <<>> /\ filled' = {} /\ pc' = "canary0"
        /\ grid' = EmptyGrid \/ (grid' \in InitialGrids /\ grid' # Corrupt)
    BY <1>5 DEF Boot, EarnedInv
  <2>2. Earned(<<>>, grid', {})
    BY <2>1, EarnedStart
  <2> QED BY <2>1, <2>2 DEF EarnedInv
<1>6. CASE /\ UNCHANGED <<traces, grid, filled>>
           /\ pc' = "boot" => pc = "boot" /\ shared' = shared
  BY <1>6 DEF EarnedInv
<1>7. CASE AdoptCanary \/ AdoptFingerprint \/ Restore \/ Canary \/ RestoreAgain \/ Analyze
  BY <1>6, <1>7 DEF AdoptCanary, AdoptFingerprint, Restore, Canary, RestoreAgain, Analyze
<1>8. CASE JudgeUnknown \/ Ending \/ World \/ UNCHANGED vars
  BY <1>6, <1>8 DEF JudgeUnknown, Ending, EndLoop, WriteRecord, MergeShared, SaveSlice,
                    World, Reload, RunnerFails, GeneratorFails, Killed, vars
<1> QED BY <1>1, <1>2, <1>3, <1>4, <1>5, <1>7, <1>8 DEF Next, Attempting

(* The grid holds what this run found and nothing else, each find under its *)
(* own observation in each of its cells, for a campaign of which the        *)
(* archive holds no earlier observation.                                    *)
THEOREM EveryCellEarned ==
  ASSUME FreshStart
  PROVE  Spec => []CellsAreEarned
<1>1. Init => EarnedInv
  BY EarnedStart DEF Init, EarnedInv
<1>2. TypeOK /\ FlightOK /\ EarnedInv /\ [Next]_vars => EarnedInv'
  BY EarnedNext
<1>3. EarnedInv => CellsAreEarned
  <2> SUFFICES ASSUME EarnedInv PROVE CellsAreEarned
    OBVIOUS
  <2>1. With({"bypass"}) = Entries(traces, {"bypass"}) /\ With({"bypass"}) \subseteq DOMAIN traces
    BY DEF With, Entries
  <2>2. filled = UNION {CellsOf[traces[i].diff] : i \in With({"bypass"})}
    BY <2>1 DEF EarnedInv, Earned, Diffs
  <2>3. ASSUME NEW c \in Cell, NEW i \in DOMAIN traces
        PROVE  (i \in With({"bypass"}) /\ c \in CellsOf[traces[i].diff])
                 <=> (Known(grid, c) /\ TraceOf(i) \in DOMAIN grid[c].obs)
    <3>1. TraceOf(i) \in ObsOf(grid, c)
            <=> i \in With({"bypass"}) /\ c \in CellsOf[traces[i].diff]
      BY <2>1 DEF EarnedInv, Earned
    <3> QED BY <3>1 DEF ObsOf
  <2> QED BY <2>1, <2>2, <2>3 DEF CellsAreEarned
<1> QED BY TypeAndFlight, <1>1, <1>2, <1>3, PTL DEF Spec

-----------------------------------------------------------------------------
(* One analysis per semantic key.                                          *)

Picked(tr, S) == {i \in DOMAIN tr : tr[i] \in S}
KeyedTrace == {t \in Trace : t.stage = "admitted" /\ CellsOf[t.diff] # {}}
AvoidedTrace == {t \in Trace : t.stage = "semantic"}
Flight(d) == IF d # NoDiff /\ CellsOf[d] # {} THEN 1 ELSE 0

(* OneAnalysisPerKey, for the attempt in flight as well as for the lines:   *)
(* an admission claims at least one new key before its line is written.     *)
KeysInv ==
  /\ pc \notin InFlight /\ pc # "stopped" => cur = NoDiff
  /\ IsFiniteSet(claimed)
  /\ semantic.observations - semantic.duplicates
       = Cardinality(Picked(traces, KeyedTrace)) + Flight(cur)
  /\ Cardinality(Picked(traces, KeyedTrace)) + Flight(cur) <= Cardinality(claimed)
  /\ semantic.duplicates = Cardinality(Picked(traces, AvoidedTrace))

LEMMA PickedAppend ==
  ASSUME NEW q, NEW e, NEW r, Extended(q, e, r), NEW S
  PROVE  /\ Cardinality(Picked(q, S)) \in Nat
         /\ e \in S => Cardinality(Picked(r, S)) = Cardinality(Picked(q, S)) + 1
         /\ e \notin S => Picked(r, S) = Picked(q, S)
<1> DEFINE n == Len(r)
<1>1. (\A j \in DOMAIN q : r[j] = q[j]) /\ r[n] = e
  BY DEF Extended
<1>2. DOMAIN r = DOMAIN q \cup {n} /\ n \notin DOMAIN q
  BY OneMore
<1>3. IsFiniteSet(DOMAIN q)
  BY OneMore
<1> HIDE DEF n
<1>4. Picked(q, S) \subseteq DOMAIN q /\ n \notin Picked(q, S)
  BY <1>2 DEF Picked
<1>5. IsFiniteSet(Picked(q, S))
  BY <1>3, <1>4, FS_Subset
<1>6. Cardinality(Picked(q, S)) \in Nat
  BY <1>5, FS_CardinalityType
<1>7. ASSUME e \in S PROVE Cardinality(Picked(r, S)) = Cardinality(Picked(q, S)) + 1
  <2>1. Picked(r, S) = Picked(q, S) \cup {n}
    BY <1>1, <1>2, <1>7 DEF Picked
  <2>2. Cardinality(Picked(q, S) \cup {n}) = Cardinality(Picked(q, S)) + 1
    BY <1>4, <1>5, FS_AddElement
  <2> QED BY <2>1, <2>2
<1>8. ASSUME e \notin S PROVE Picked(r, S) = Picked(q, S)
  BY <1>1, <1>2, <1>8 DEF Picked
<1> QED BY <1>6, <1>7, <1>8

LEMMA KeysFinite ==
  ASSUME NEW d \in Diff
  PROVE  IsFiniteSet(Keys(d))
<1>1. IsFiniteSet(CellsOf[d])
  BY CampaignAssumption
<1>2. IsFiniteSet({Chain[d], "shaped"})
  <2>1. IsFiniteSet({"shaped"}) /\ {Chain[d], "shaped"} = {"shaped"} \cup {Chain[d]}
    BY FS_Singleton
  <2> QED BY <2>1, FS_AddElement
<1>3. IsFiniteSet(CellsOf[d] \X {Chain[d], "shaped"})
  BY <1>1, <1>2, FS_Product
<1>4. Keys(d) \subseteq CellsOf[d] \X {Chain[d], "shaped"}
  BY DEF Keys, Key
<1> QED BY <1>3, <1>4, FS_Subset

(* A set that takes in something new grows.                                *)
LEMMA GrowsByOne ==
  ASSUME NEW S, NEW K, IsFiniteSet(S), IsFiniteSet(K)
  PROVE  /\ IsFiniteSet(S \cup K)
         /\ Cardinality(S) \in Nat /\ Cardinality(S \cup K) \in Nat
         /\ Cardinality(S) <= Cardinality(S \cup K)
         /\ ~ (K \subseteq S) => Cardinality(S) + 1 <= Cardinality(S \cup K)
<1>1. IsFiniteSet(S \cup K)
  BY FS_Union
<1>2. Cardinality(S) \in Nat /\ Cardinality(S \cup K) \in Nat
  BY <1>1, FS_CardinalityType
<1>3. Cardinality(S) <= Cardinality(S \cup K)
  <2>1. S \subseteq S \cup K
    OBVIOUS
  <2> QED BY <1>1, <2>1, FS_Subset
<1>4. ASSUME NEW k \in K, k \notin S PROVE Cardinality(S) + 1 <= Cardinality(S \cup K)
  <2>1. Cardinality(S \cup {k}) = Cardinality(S) + 1
    BY <1>4, FS_AddElement
  <2>2. S \cup {k} \subseteq S \cup K
    OBVIOUS
  <2>3. Cardinality(S \cup {k}) <= Cardinality(S \cup K)
    BY <1>1, <2>2, FS_Subset
  <2> QED BY <2>1, <2>3
<1> QED BY <1>1, <1>2, <1>3, <1>4

(* The line of an attempt that was admitted takes its place in flight.     *)
LEMMA AdmittedLine ==
  ASSUME TypeOK, KeysInv, cur \in Diff, NEW s \in Status, NEW v \in Status,
         Add(cur, s, v, "admitted"), cur' = NoDiff, UNCHANGED gates
  PROVE  KeysInv'
<1> DEFINE e == [diff |-> cur, status |-> s, verdict |-> v, stage |-> "admitted"]
<1>1. Extended(traces, e, traces')
  BY LinesType DEF Add, Extended
<1>2. e \in Trace /\ e.diff = cur /\ e.stage = "admitted"
  BY DEF Trace, Stage
<1>3. e \notin AvoidedTrace /\ (e \in KeyedTrace <=> CellsOf[cur] # {})
  BY <1>2 DEF AvoidedTrace, KeyedTrace
<1>4. Flight(cur) = (IF CellsOf[cur] # {} THEN 1 ELSE 0) /\ Flight(cur') = 0
  BY CampaignAssumption DEF Flight
<1> HIDE DEF e
<1>5. Picked(traces', AvoidedTrace) = Picked(traces, AvoidedTrace)
  BY <1>1, <1>3, PickedAppend
<1>6. Cardinality(Picked(traces', KeyedTrace)) + Flight(cur')
        = Cardinality(Picked(traces, KeyedTrace)) + Flight(cur)
  <2>1. Cardinality(Picked(traces, KeyedTrace)) \in Nat
    BY <1>1, PickedAppend
  <2>2. CASE CellsOf[cur] # {}
    <3>1. Cardinality(Picked(traces', KeyedTrace)) = Cardinality(Picked(traces, KeyedTrace)) + 1
      BY <1>1, <1>3, <2>2, PickedAppend
    <3> QED BY <1>4, <2>1, <2>2, <3>1
  <2>3. CASE CellsOf[cur] = {}
    <3>1. Picked(traces', KeyedTrace) = Picked(traces, KeyedTrace)
      BY <1>1, <1>3, <2>3, PickedAppend
    <3> QED BY <1>4, <2>1, <2>3, <3>1
  <2> QED BY <2>2, <2>3
<1>7. semantic' = semantic /\ claimed' = claimed
  BY DEF gates
<1> QED BY <1>5, <1>6, <1>7 DEF KeysInv

(* A refusal is counted as avoided when the semantic gate made it.          *)
LEMMA RefusalCounted ==
  ASSUME TypeOK, KeysInv, NEW d \in Diff, Refuse(d)
  PROVE  KeysInv'
<1>0. PICK s \in EarlyStatus : Add(d, s, s, StageOf(d))
  BY RefusedLine
<1> DEFINE e == [diff |-> d, status |-> s, verdict |-> s, stage |-> StageOf(d)]
<1>1. Extended(traces, e, traces')
  BY <1>0, LinesType DEF Add, Extended
<1>2. StageOf(d) # "admitted" /\ StageOf(d) \in Stage /\ s \in Status
  BY DEF Refuse, StageOf, Stage, Status
<1>3. e \in Trace /\ e.stage = StageOf(d)
  BY <1>2 DEF Trace
<1>4. e \notin KeyedTrace /\ (e \in AvoidedTrace <=> StageOf(d) = "semantic")
  BY <1>2, <1>3 DEF AvoidedTrace, KeyedTrace
<1>5. StageOf(d) = "semantic" => CellsOf[d] # {}
  BY DEF StageOf
<1>6. /\ cur' = cur /\ pc' = pc /\ claimed' = claimed
      /\ StageOf(d) = "semantic" => /\ semantic'.observations = semantic.observations + 1
                                    /\ semantic'.duplicates = semantic.duplicates + 1
      /\ StageOf(d) # "semantic" => /\ semantic'.observations = semantic.observations
                                    /\ semantic'.duplicates = semantic.duplicates
  BY <1>2, <1>5 DEF Refuse, Validate, TypeOK
<1>7. semantic.observations \in Nat /\ semantic.duplicates \in Nat
  BY DEF TypeOK
<1> HIDE DEF e
<1>8. Picked(traces', KeyedTrace) = Picked(traces, KeyedTrace)
  BY <1>1, <1>4, PickedAppend
<1>9. semantic'.duplicates = Cardinality(Picked(traces', AvoidedTrace))
  <2>1. CASE StageOf(d) = "semantic"
    <3>1. Cardinality(Picked(traces', AvoidedTrace)) = Cardinality(Picked(traces, AvoidedTrace)) + 1
      BY <1>1, <1>4, <2>1, PickedAppend
    <3> QED BY <1>6, <2>1, <3>1 DEF KeysInv
  <2>2. CASE StageOf(d) # "semantic"
    <3>1. Picked(traces', AvoidedTrace) = Picked(traces, AvoidedTrace)
      BY <1>1, <1>4, <2>2, PickedAppend
    <3> QED BY <1>6, <2>2, <3>1 DEF KeysInv
  <2> QED BY <2>1, <2>2
<1>10. semantic'.observations - semantic'.duplicates = semantic.observations - semantic.duplicates
  BY <1>6, <1>7
<1> QED BY <1>6, <1>8, <1>9, <1>10 DEF KeysInv

(* An admission of a diff with cells claims a key that nobody had claimed.  *)
LEMMA AdmissionClaims ==
  ASSUME TypeOK, KeysInv, NEW d \in Diff, Admit(d)
  PROVE  KeysInv'
<1>1. /\ pc = "loop" /\ pc' = "restore" /\ cur' = d /\ traces' = traces /\ StageOf(d) = "admitted"
      /\ claimed' = claimed \cup Keys(d)
      /\ semantic'.observations = semantic.observations + (IF CellsOf[d] # {} THEN 1 ELSE 0)
      /\ semantic'.duplicates = semantic.duplicates
  <2>1. /\ pc = "loop" /\ pc' = "restore" /\ cur' = d /\ traces' = traces /\ StageOf(d) = "admitted"
        /\ Validate(d)
    BY DEF Admit, MayGenerate, Goto, recorder
  <2>2. semantic.duplicates \in Nat
    BY DEF TypeOK
  <2>3. /\ claimed' = claimed \cup Keys(d)
        /\ semantic'.observations = semantic.observations + (IF CellsOf[d] # {} THEN 1 ELSE 0)
        /\ semantic'.duplicates = semantic.duplicates + 0
    BY <2>1 DEF Validate
  <2> QED BY <2>1, <2>2, <2>3
<1>2. cur = NoDiff /\ Flight(cur) = 0
  BY <1>1 DEF KeysInv, InFlight, Flight
<1>3. Flight(d) = IF CellsOf[d] # {} THEN 1 ELSE 0
  BY CampaignAssumption DEF Flight
<1>4. CellsOf[d] # {} => ~ (Keys(d) \subseteq claimed)
  BY <1>1 DEF StageOf
<1>5. /\ IsFiniteSet(claimed') /\ Cardinality(claimed) \in Nat /\ Cardinality(claimed') \in Nat
      /\ Cardinality(claimed) <= Cardinality(claimed')
      /\ CellsOf[d] # {} => Cardinality(claimed) + 1 <= Cardinality(claimed')
  <2>1. IsFiniteSet(claimed) /\ IsFiniteSet(Keys(d))
    BY KeysFinite DEF KeysInv
  <2> QED BY <1>1, <1>4, <2>1, GrowsByOne
<1>6. semantic.observations \in Nat /\ semantic.duplicates \in Nat
  BY DEF TypeOK
<1> DEFINE k == Cardinality(Picked(traces, KeyedTrace))
<1>7. k \in Nat
  <2>1. Extended(traces, 0, Append(traces, 0))
    BY LinesType DEF Extended
  <2> QED BY <2>1, PickedAppend
<1> QED BY <1>1, <1>2, <1>3, <1>5, <1>6, <1>7 DEF KeysInv, InFlight

LEMMA KeysNext ==
  ASSUME TypeOK, FlightOK, KeysInv, [Next]_vars
  PROVE  KeysInv'
<1> USE DEF Goto, Stop, instrument, gates, recorder, published
<1>1. CASE \E d \in Diff : Refuse(d)
  BY <1>1, RefusalCounted
<1>2. CASE \E d \in Diff : Admit(d)
  BY <1>2, AdmissionClaims
<1>3. CASE AnalyzeFails \/ JudgeKnown \/ JudgeNew \/ Minimize
  <2>1. cur \in Diff
    BY <1>3 DEF AnalyzeFails, JudgeKnown, JudgeNew, Minimize, FlightOK, InFlight
  <2>2. \E s, v \in Status : Add(cur, s, v, "admitted")
    BY <1>3, VerdictType DEF AnalyzeFails, JudgeKnown, JudgeNew, Minimize, EndAttempt, JudgedAs,
                             Status, ReportStatus
  <2>3. cur' = NoDiff /\ UNCHANGED <<seen, claimed, semantic>>
    BY <1>3 DEF AnalyzeFails, JudgeKnown, JudgeNew, Minimize, EndAttempt
  <2> QED BY <2>1, <2>2, <2>3, AdmittedLine
<1>4. CASE /\ UNCHANGED <<claimed, semantic, traces, cur>>
           /\ pc' \in InFlight \cup {"stopped"} \/ pc \notin InFlight \cup {"stopped"}
  BY <1>4 DEF KeysInv
<1>5. CASE \/ Boot \/ AdoptCanary \/ AdoptFingerprint \/ Restore \/ Canary \/ RestoreAgain
           \/ Analyze
  BY <1>4, <1>5 DEF Boot, AdoptCanary, AdoptFingerprint, Restore, Canary, RestoreAgain,
                    Analyze, InFlight
<1>6. CASE JudgeUnknown \/ Ending
  BY <1>4, <1>6 DEF JudgeUnknown, Ending, EndLoop, WriteRecord, MergeShared, SaveSlice, InFlight
<1>7. CASE World
  BY <1>4, <1>7 DEF World, Reload, RunnerFails, GeneratorFails, Killed, MayGenerate, InFlight
<1>8. CASE UNCHANGED vars
  BY <1>4, <1>8 DEF vars
<1> QED BY <1>1, <1>2, <1>3, <1>5, <1>6, <1>7, <1>8 DEF Next, Attempting

(* A run analyses at most one attempt per semantic key, and the analyses    *)
(* it reports as avoided are the attempts its semantic gate refused.        *)
THEOREM AnalysedOncePerKey == Spec => []OneAnalysisPerKey
<1>1. Init => KeysInv
  <2> SUFFICES ASSUME Init PROVE KeysInv
    OBVIOUS
  <2>1. /\ pc = "boot" /\ cur = NoDiff /\ claimed = {} /\ traces = <<>>
        /\ semantic.observations = 0 /\ semantic.duplicates = 0
    BY DEF Init
  <2>2. IsFiniteSet({}) /\ Cardinality({}) = 0
    BY FS_EmptySet
  <2>3. \A S : Picked(<<>>, S) = {}
    BY DEF Picked
  <2>4. Flight(NoDiff) = 0
    BY DEF Flight
  <2>5. /\ Cardinality(Picked(traces, KeyedTrace)) = 0 /\ Cardinality(Picked(traces, AvoidedTrace)) = 0
        /\ Cardinality(claimed) = 0 /\ Flight(cur) = 0
    BY <2>1, <2>2, <2>3, <2>4
  <2>6. IsFiniteSet(claimed)
    BY <2>1, <2>2
  <2> QED BY <2>1, <2>5, <2>6 DEF KeysInv
<1>2. TypeOK /\ FlightOK /\ KeysInv /\ [Next]_vars => KeysInv'
  BY KeysNext
<1>3. TypeOK /\ KeysInv => OneAnalysisPerKey
  <2> SUFFICES ASSUME TypeOK, KeysInv PROVE OneAnalysisPerKey
    OBVIOUS
  <2>1. \A i \in DOMAIN traces : traces[i] \in Trace
    BY LinesType
  <2>2. Picked(traces, KeyedTrace) = {i \in DOMAIN traces : traces[i].stage = "admitted"
                                                           /\ CellsOf[traces[i].diff] # {}}
    BY <2>1 DEF Picked, KeyedTrace
  <2>3. Picked(traces, AvoidedTrace) = {i \in DOMAIN traces : traces[i].stage = "semantic"}
    BY <2>1 DEF Picked, AvoidedTrace
  <2> QED BY <2>2, <2>3 DEF KeysInv, OneAnalysisPerKey, Flight
<1> QED BY TypeAndFlight, <1>1, <1>2, <1>3, PTL DEF Spec

-----------------------------------------------------------------------------
(* Saturation.                                                             *)

(* StartsBelow of one grid.                                                *)
Below(g) ==
  \A c \in DOMAIN g :
    /\ IsFiniteSet(Verified(g[c], Installed))
    /\ Alone(c) => VerifiedCount(g[c], Installed) <= Saturation

(* SaturationHolds, and the room that the gate saw is still there when the  *)
(* attempt it let through turns out to be a bypass.                         *)
Room(g, d) ==
  \A c \in CellsOf[d] :
    Alone(c) /\ Known(g, c) => VerifiedCount(g[c], Installed) < Saturation

SaturationInv ==
  /\ pc = "boot" => shared \in InitialGrids
  /\ Below(grid)
  /\ pc \in InFlight => Room(grid, cur)

LEMMA VerifiedSame ==
  ASSUME NEW e, NEW f, e.obs = f.obs
  PROVE  /\ Verified(e, Installed) = Verified(f, Installed)
         /\ VerifiedCount(e, Installed) = VerifiedCount(f, Installed)
  BY DEF Verified, VerifiedCount

LEMMA VerifiedNew ==
  ASSUME NEW d
  PROVE  /\ IsFiniteSet(Verified(NewEntry(d), Installed))
         /\ VerifiedCount(NewEntry(d), Installed) = 0
<1>1. NewEntry(d).obs = NoObs
  BY DEF NewEntry
<1>2. DOMAIN NoObs = {}
  BY DEF NoObs
<1>3. Verified(NewEntry(d), Installed) = {}
  BY <1>1, <1>2 DEF Verified
<1> QED BY <1>3, FS_EmptySet DEF VerifiedCount

LEMMA BelowNote ==
  ASSUME NEW g, IsGrid(g), Below(g), NEW S \in SUBSET Cell
  PROVE  Below(NoteAll(g, S, Installed))
<1> DEFINE h == NoteAll(g, S, Installed)
<1> SUFFICES ASSUME NEW c \in DOMAIN h
             PROVE  /\ IsFiniteSet(Verified(h[c], Installed))
                    /\ Alone(c) => VerifiedCount(h[c], Installed) <= Saturation
  BY DEF Below
<1>1. c \in DOMAIN g \cup S /\ Installed \in Version /\ Saturation \in Nat
  BY CampaignAssumption DEF NoteAll
<1>2. CASE c \in S
  <2>1. h[c] = NoteDuplicate(g, c, Installed)[c]
    BY <1>2 DEF NoteAll
  <2>2. h[c].obs = EntryOr(g, c, NewEntry(FALSE)).obs
    BY <1>1, <1>2, <2>1, NoteBag
  <2> HIDE DEF h
  <2>3. CASE c \in DOMAIN g
    <3>1. h[c].obs = g[c].obs
      BY <2>2, <2>3 DEF EntryOr, Known
    <3> QED BY <2>3, <3>1, VerifiedSame DEF Below
  <2>4. CASE c \notin DOMAIN g
    <3>1. h[c].obs = NewEntry(FALSE).obs
      BY <2>2, <2>4 DEF EntryOr, Known
    <3>2. /\ Verified(h[c], Installed) = Verified(NewEntry(FALSE), Installed)
          /\ VerifiedCount(h[c], Installed) = VerifiedCount(NewEntry(FALSE), Installed)
      BY <3>1, VerifiedSame
    <3>3. /\ IsFiniteSet(Verified(NewEntry(FALSE), Installed))
          /\ VerifiedCount(NewEntry(FALSE), Installed) = 0
      BY VerifiedNew
    <3>4. IsFiniteSet(Verified(h[c], Installed)) /\ VerifiedCount(h[c], Installed) = 0
      BY <3>2, <3>3
    <3> QED BY <1>1, <3>4
  <2> QED BY <2>3, <2>4
<1>3. CASE c \notin S
  <2>1. c \in DOMAIN g /\ h[c] = g[c]
    BY <1>1, <1>3 DEF NoteAll
  <2> HIDE DEF h
  <2> QED BY <2>1 DEF Below
<1> QED BY <1>2, <1>3

LEMMA BelowObserve ==
  ASSUME NEW g, IsGrid(g), Below(g), NEW S \in SUBSET Cell,
         NEW o \in Obs, o.version = Installed, NEW size \in Nat, NEW d \in BOOLEAN,
         \A c \in S : Alone(c) /\ Known(g, c) => VerifiedCount(g[c], Installed) < Saturation
  PROVE  Below(ObserveAll(g, S, o, size, d))
<1> DEFINE h == ObserveAll(g, S, o, size, d)
<1> SUFFICES ASSUME NEW c \in DOMAIN h
             PROVE  /\ IsFiniteSet(Verified(h[c], Installed))
                    /\ Alone(c) => VerifiedCount(h[c], Installed) <= Saturation
  BY DEF Below
<1>1. c \in DOMAIN g \cup S /\ Saturation \in Nat \ {0}
  BY CampaignAssumption DEF ObserveAll
<1>2. CASE c \in S
  <2> DEFINE e == EntryOr(g, c, NewEntry(d))
  <2>1. h[c] = Observe(g, c, o, size, d)[c]
    BY <1>2 DEF ObserveAll
  <2>2. h[c].obs = BagAdd(e.obs, o)
    BY <1>2, <2>1, ObserveBag
  <2>3. IsObsBag(e.obs)
    BY <1>2, EntryOrIsEntry DEF IsEntry
  <2>4. IsFiniteSet(Verified(e, Installed))
          /\ (Alone(c) => VerifiedCount(e, Installed) + 1 <= Saturation)
    <3>1. CASE c \in DOMAIN g
      <4>1. e = g[c] /\ Known(g, c)
        BY <3>1 DEF EntryOr, Known
      <4>2. IsFiniteSet(Verified(e, Installed))
        BY <3>1, <4>1 DEF Below
      <4>3. VerifiedCount(e, Installed) \in Nat
        BY <4>2, FS_CardinalityType DEF VerifiedCount
      <4>4. Alone(c) => VerifiedCount(e, Installed) < Saturation
        BY <1>2, <4>1
      <4> QED BY <1>1, <4>2, <4>3, <4>4
    <3>2. CASE c \notin DOMAIN g
      <4>1. e = NewEntry(d)
        BY <3>2 DEF EntryOr, Known
      <4> QED BY <1>1, <4>1, VerifiedNew
    <3> QED BY <3>1, <3>2
  <2> HIDE DEF h, e
  <2>5. /\ IsFiniteSet(Verified(h[c], Installed))
        /\ VerifiedCount(h[c], Installed) = VerifiedCount(e, Installed) + 1
    BY <2>2, <2>3, <2>4, VerifiedAdd
  <2> QED BY <2>4, <2>5
<1>3. CASE c \notin S
  <2>1. c \in DOMAIN g /\ h[c] = g[c]
    BY <1>1, <1>3 DEF ObserveAll
  <2> HIDE DEF h
  <2> QED BY <2>1 DEF Below
<1> QED BY <1>2, <1>3

LEMMA SaturationNext ==
  ASSUME StartsBelow, TypeOK, FlightOK, SaturationInv, [Next]_vars
  PROVE  SaturationInv'
<1> USE DEF Goto, Stop, instrument, gates, recorder, published
<1>1. CASE \E d \in Diff : Refuse(d)
  <2> PICK d \in Diff : Refuse(d)
    BY <1>1
  <2>1. Below(NoteAll(grid, CellsOf[d], Installed))
    BY BelowNote, GridAssumed DEF SaturationInv, TypeOK
  <2>2. grid' = NoteAll(grid, CellsOf[d], Installed) \/ grid' = grid
    BY DEF Refuse, Validate
  <2>3. pc' = "loop"
    BY DEF Refuse, MayGenerate
  <2>4. Below(grid)'
    BY <2>1, <2>2 DEF SaturationInv, Below
  <2> QED BY <2>3, <2>4 DEF SaturationInv, InFlight
<1>2. CASE \E d \in Diff : Admit(d)
  <2> PICK d \in Diff : Admit(d)
    BY <1>2
  <2>1. StageOf(d) = "admitted" /\ grid' = grid /\ cur' = d /\ pc' = "restore"
    BY DEF Admit, Validate
  <2>2. ASSUME NEW c \in CellsOf[d], Alone(c), Known(grid, c)
        PROVE  VerifiedCount(grid[c], Installed) < Saturation
    <3>1. CellsOf[d] = {c}
      BY <2>2 DEF Alone
    <3>2. ~ IsClosed(grid, c, Installed, Saturation)
      BY <2>1, <3>1 DEF StageOf
    <3>3. VerifiedCount(grid[c], Installed) \in Nat /\ Saturation \in Nat
      BY <2>2, FS_CardinalityType, CampaignAssumption DEF SaturationInv, Below, Known, VerifiedCount
    <3> QED BY <2>2, <3>2, <3>3 DEF IsClosed
  <2>3. Room(grid, d)
    BY <2>2 DEF Room
  <2> QED BY <2>1, <2>3 DEF SaturationInv
<1>3. CASE Minimize
  <2>1. cur \in Diff /\ Room(grid, cur)
    BY <1>3 DEF Minimize, FlightOK, SaturationInv, InFlight
  <2>2. PICK size \in 1..Size[cur] : FillCells(size)
    BY <1>3 DEF Minimize
  <2> DEFINE o == [campaign |-> Me, attempt |-> Len(traces), version |-> Installed]
  <2>3. grid' = ObserveAll(grid, CellsOf[cur], o, size, Degraded)
    BY <2>2 DEF FillCells, Attempt
  <2>4. o \in Obs /\ o.version = Installed
    BY GridAssumed, LinesType DEF Obs
  <2>5. size \in Nat /\ Degraded \in BOOLEAN /\ CellsOf[cur] \in SUBSET Cell /\ IsGrid(grid)
    BY <2>1, <2>2, GridAssumed DEF TypeOK
  <2>6. pc' = "loop"
    BY <1>3 DEF Minimize, EndAttempt
  <2> HIDE DEF o
  <2>7. Below(ObserveAll(grid, CellsOf[cur], o, size, Degraded))
    BY <2>1, <2>4, <2>5, BelowObserve DEF Room, SaturationInv
  <2>8. Below(grid)'
    BY <2>3, <2>7 DEF Below
  <2> QED BY <2>6, <2>8 DEF SaturationInv, InFlight
<1>4. CASE Boot
  <2>1. /\ pc' = "canary0"
        /\ grid' = EmptyGrid \/ (grid' \in InitialGrids /\ grid' # Corrupt)
    BY <1>4 DEF Boot, SaturationInv
  <2>2. Below(EmptyGrid)
    BY DEF Below, EmptyGrid
  <2>3. Below(grid)'
    BY <2>1, <2>2 DEF StartsBelow, Below
  <2> QED BY <2>1, <2>3 DEF SaturationInv, InFlight
<1>5. CASE /\ UNCHANGED grid
           /\ pc' = "boot" => pc = "boot" /\ shared' = shared
           /\ pc' \in InFlight => pc \in InFlight /\ cur' = cur
  BY <1>5 DEF SaturationInv
<1>6. CASE AdoptCanary \/ AdoptFingerprint \/ Restore \/ Canary \/ RestoreAgain \/ Analyze
  BY <1>5, <1>6 DEF AdoptCanary, AdoptFingerprint, Restore, Canary, RestoreAgain, Analyze, InFlight
<1>7. CASE AnalyzeFails \/ JudgeKnown \/ JudgeNew
  BY <1>5, <1>7 DEF AnalyzeFails, JudgeKnown, JudgeNew, EndAttempt, InFlight
<1>8. CASE JudgeUnknown \/ Ending \/ World \/ UNCHANGED vars
  BY <1>5, <1>8 DEF JudgeUnknown, Ending, EndLoop, WriteRecord, MergeShared, SaveSlice,
                    World, Reload, RunnerFails, GeneratorFails, Killed, vars, InFlight
<1> QED BY <1>1, <1>2, <1>3, <1>4, <1>6, <1>7, <1>8 DEF Next, Attempting

(* A cell that single-cell diffs fill never takes more confirmed bypasses   *)
(* at the pinned version than the declared saturation, when the archive it  *)
(* starts from did not hold more already.                                   *)
THEOREM SaturationKept ==
  ASSUME StartsBelow
  PROVE  Spec => []SaturationHolds
<1>1. Init => SaturationInv
  BY DEF Init, SaturationInv, Below, EmptyGrid, InFlight
<1>2. TypeOK /\ FlightOK /\ SaturationInv /\ [Next]_vars => SaturationInv'
  BY SaturationNext
<1>3. SaturationInv => SaturationHolds
  BY DEF SaturationInv, SaturationHolds, Below, Alone
<1> QED BY TypeAndFlight, <1>1, <1>2, <1>3, PTL DEF Spec

(***************************************************************************)
(* The minimiser (Ddmin).                                                  *)
(***************************************************************************)
LEMMA Constants ==
  /\ \A p \in Problem : p.units \in Seq(Nat) /\ Distinct(p.units)
  /\ Budget \in Nat /\ MaxUnits \in Nat /\ MaxFailures \in Nat
  BY DdminAssumption

(* How the lines are cut into chunks: a pass that has not ended has a      *)
(* chunk of at least one line before it, and of one line only once the     *)
(* granularity has reached the number of lines.                            *)
LEMMA CeilingBounds ==
  ASSUME NEW n \in Nat, n >= 1, NEW g \in Nat, g >= 1
  PROVE  /\ (n + g - 1) \div g \in Nat
         /\ (n + g - 1) \div g >= 1
         /\ g >= n => (n + g - 1) \div g = 1
<1> DEFINE q == (n + g - 1) \div g
           r == (n + g - 1) % g
<1>1. q \in Int /\ r \in 0..(g - 1) /\ n + g - 1 = g * q + r
  BY Z3
<1>2. q >= 1
  <2> SUFFICES ASSUME q =< 0 PROVE FALSE
    BY <1>1
  <2>1. g * q =< 0
    BY <1>1, Z3
  <2> QED BY <1>1, <2>1
<1>3. ASSUME g >= n PROVE q = 1
  <2> SUFFICES ASSUME q >= 2 PROVE FALSE
    BY <1>1, <1>2
  <2>1. g * q >= g * 2
    BY <1>1, Z3
  <2> QED BY <1>1, <1>3, <2>1
<1> HIDE DEF q
<1>4. q \in Nat
  BY <1>1, <1>2
<1> QED BY <1>2, <1>3, <1>4 DEF q

LEMMA ChunkBounds ==
  ASSUME SearchTypeOK, InPass
  PROVE  /\ Chunk \in Nat /\ Chunk >= 1
         /\ granularity >= Len(current) => Chunk = 1
         /\ Width \in 1 .. Len(current) - start /\ Width =< Chunk
         /\ start + Chunk >= Len(current) \/ Width = Chunk
<1>1. /\ Len(current) \in Nat /\ Len(current) >= 2 /\ granularity \in Nat /\ granularity >= 1
      /\ start \in Nat /\ start < Len(current)
  BY DEF SearchTypeOK, InPass
<1>2. Chunk \in Nat /\ Chunk >= 1 /\ (granularity >= Len(current) => Chunk = 1)
  BY <1>1, CeilingBounds DEF Chunk
<1> QED BY <1>1, <1>2 DEF Width

(* Dropping a slice: what is left are the other lines, each once.          *)
LEMMA RestIsTheComplement ==
  ASSUME SearchTypeOK, InPass
  PROVE  /\ Rest \in Seq(Nat) /\ Distinct(Rest)
         /\ Lines(Rest) = Lines(current) \ Victim
<1> DEFINE n == Len(current)
           w == Width
           m == n - w
<1>1. n \in Nat /\ w \in 1 .. n - start /\ start \in Nat /\ m \in Nat /\ start =< m
  BY ChunkBounds DEF SearchTypeOK, InPass
<1>2. /\ current \in Seq(Nat) /\ DOMAIN current = 1..n /\ \A i \in 1..n : current[i] \in Nat
      /\ \A i, j \in 1..n : current[i] = current[j] => i = j
  BY DEF SearchTypeOK, Distinct
<1>3. /\ Rest = [i \in 1..m |-> IF i =< start THEN current[i] ELSE current[i + w]]
      /\ Victim = {current[i] : i \in start + 1 .. start + w}
  BY DEF Rest, Victim
<1> HIDE DEF n, w, m
<1>4. \A i \in 1..m : i + w \in 1..n /\ i \in 1..n
  BY <1>1 DEF m
<1>5. Rest \in Seq(Nat) /\ DOMAIN Rest = 1..m
  <2>1. DOMAIN Rest = 1..m
    BY <1>3
  <2>2. Rest \in [1..m -> Nat]
    BY <1>2, <1>3, <1>4
  <2> QED BY <1>1, <2>1, <2>2
<1>6. Distinct(Rest)
  <2> SUFFICES ASSUME NEW i \in 1..m, NEW j \in 1..m, Rest[i] = Rest[j]
               PROVE  i = j
    BY <1>5 DEF Distinct
  <2> DEFINE at(k) == IF k =< start THEN k ELSE k + w
  <2>1. /\ at(i) \in 1..n /\ at(j) \in 1..n
        /\ Rest[i] = current[at(i)] /\ Rest[j] = current[at(j)]
    BY <1>3, <1>4
  <2>2. at(i) = at(j)
    BY <1>2, <2>1
  <2> QED BY <1>1, <2>2
<1>7. ASSUME NEW x \in Lines(Rest) PROVE x \in Lines(current) \ Victim
  <2>1. PICK i \in 1..m : x = Rest[i]
    BY <1>5 DEF Lines
  <2>2. PICK k \in 1..n : x = current[k] /\ (k =< start \/ k > start + w)
    BY <1>1, <1>3, <1>4, <2>1
  <2>3. ASSUME NEW v \in start + 1 .. start + w PROVE current[v] # x
    <3>1. v \in 1..n /\ v # k
      BY <1>1, <2>2
    <3> QED BY <1>2, <2>2, <3>1
  <2> QED BY <1>2, <1>3, <2>2, <2>3 DEF Lines
<1>8. ASSUME NEW x \in Lines(current) \ Victim PROVE x \in Lines(Rest)
  <2>1. PICK k \in 1..n : x = current[k]
    BY <1>2 DEF Lines
  <2>2. k \notin start + 1 .. start + w
    BY <1>3, <2>1
  <2>3. CASE k =< start
    <3>1. k \in 1..m /\ Rest[k] = x
      BY <1>1, <1>3, <2>1, <2>3
    <3> QED BY <1>5, <3>1 DEF Lines
  <2>4. CASE k > start + w
    <3>1. k - w \in 1..m /\ k - w > start /\ (k - w) + w = k
      BY <1>1, <2>4 DEF m
    <3>2. Rest[k - w] = x
      BY <1>1, <1>3, <2>1, <3>1
    <3> QED BY <1>5, <3>1, <3>2 DEF Lines
  <2> QED BY <1>1, <2>2, <2>3, <2>4
<1> QED BY <1>5, <1>6, <1>7, <1>8

-----------------------------------------------------------------------------
(* Types.                                                                  *)

LEMMA InitType == SearchInit => SearchTypeOK
<1> SUFFICES ASSUME SearchInit PROVE SearchTypeOK
  OBVIOUS
<1>1. current \in Seq(Nat) /\ Distinct(current)
  <2>1. problem \in Problem /\ current = problem.units
    BY DEF SearchInit
  <2> QED BY <2>1, Constants
<1>2. MaxFailures \in Nat
  BY Constants
<1>3. partial \in BOOLEAN
  BY Zenon DEF SearchInit
<1>4. /\ phase = "begin" /\ problem \in Problem /\ granularity = 2 /\ start = 0
      /\ calls = 0 /\ result = "none" /\ spend = 0 /\ asked = 0 /\ failures = 0
  BY DEF SearchInit
<1> HIDE DEF Distinct
<1> QED BY <1>1, <1>2, <1>3, <1>4 DEF SearchTypeOK

LEMMA StepType == SearchTypeOK /\ [SearchNext]_searchVars => SearchTypeOK'
<1> SUFFICES ASSUME SearchTypeOK, [SearchNext]_searchVars PROVE SearchTypeOK'
  OBVIOUS
<1> USE Constants
<1>1. CASE Begin
  BY <1>1 DEF Begin, SearchTypeOK
<1>2. CASE BudgetOut
  BY <1>2 DEF BudgetOut, InPass, SearchTypeOK
<1>3. CASE Reduce
  <2>1. InPass /\ Rest \in Seq(Nat) /\ Distinct(Rest)
    BY <1>3, RestIsTheComplement DEF Reduce
  <2>2. current' \in Seq(Nat) /\ Distinct(current')
    BY <1>3, <2>1 DEF Reduce, Distinct
  <2>3. granularity' \in Nat \ {0} /\ start' \in Nat /\ calls' \in Nat /\ asked' \in Nat
    BY <1>3 DEF Reduce, SearchTypeOK
  <2>4. /\ UNCHANGED <<phase, problem, partial, result, spend, failures>>
    BY <1>3 DEF Reduce
  <2> HIDE DEF Distinct
  <2> QED BY <2>2, <2>3, <2>4 DEF SearchTypeOK
<1>4. CASE Reject
  <2>1. Chunk \in Nat
    BY <1>4, ChunkBounds DEF Reject
  <2>2. start' \in Nat /\ calls' \in Nat /\ asked' \in Nat /\ failures' \in 0..MaxFailures
    BY <1>4, <2>1 DEF Reject, SearchTypeOK
  <2>3. UNCHANGED <<phase, problem, current, granularity, partial, result, spend>>
    BY <1>4 DEF Reject
  <2> QED BY <2>2, <2>3 DEF SearchTypeOK, Distinct
<1>5. CASE NextPass
  <2>1. Len(current) \in Nat
    BY DEF SearchTypeOK
  <2> QED BY <1>5, <2>1 DEF NextPass, SearchTypeOK, Distinct
<1>6. CASE OneLeft
  BY <1>6 DEF OneLeft, SearchTypeOK, Distinct
<1>7. CASE Raise
  BY <1>7 DEF Raise, InPass, SearchTypeOK, Distinct
<1>8. CASE Unreduced
  BY <1>8 DEF Unreduced, SearchTypeOK, Distinct
<1>9. CASE Confirm
  BY <1>9 DEF Confirm, SearchTypeOK, Distinct
<1>10. CASE Refute
  BY <1>10 DEF Refute, SearchTypeOK, Distinct
<1>11. CASE RaiseInCheck
  BY <1>11 DEF RaiseInCheck, SearchTypeOK, Distinct
<1>12. CASE UNCHANGED searchVars
  BY <1>12 DEF searchVars, SearchTypeOK, Distinct
<1> QED BY <1>1, <1>2, <1>3, <1>4, <1>5, <1>6, <1>7, <1>8, <1>9, <1>10, <1>11, <1>12
        DEF SearchNext

\* The minimiser's variables keep their types: what is left of a diff is a
\* sequence of its change lines, none of them twice (harness/minimize.py ddmin).
THEOREM SearchTypeCorrect == SearchSpec => []SearchTypeOK
  BY InitType, StepType, PTL DEF SearchSpec

-----------------------------------------------------------------------------
(* What is kept has been accepted.                                         *)

\* Whatever the budget, the pipeline and its failures, the diff that replaces
\* a representative is the diff itself or a reduction the pipeline accepted
\* (harness/campaign.py _minimize): the slices a search drops are exactly
\* those it asked about.
THEOREM Accepted == SearchSpec => []KeptIsAccepted
<1>1. SearchInit => KeptIsAccepted
  BY DEF SearchInit, KeptIsAccepted
<1>2. SearchTypeOK /\ KeptIsAccepted /\ [SearchNext]_searchVars => KeptIsAccepted'
  <2> SUFFICES ASSUME SearchTypeOK, KeptIsAccepted, [SearchNext]_searchVars PROVE KeptIsAccepted'
    OBVIOUS
  <2>1. CASE Reduce
    <3>1. Lines(Rest) = Lines(current) \ Victim
      BY <2>1, RestIsTheComplement DEF Reduce
    <3>2. Lines(current)' \in problem'.accepted
      BY <2>1, <3>1 DEF Reduce, Accepts, Lines
    <3> QED BY <3>2 DEF KeptIsAccepted, Accepts
  <2>2. CASE UNCHANGED <<problem, current>>
    BY <2>2 DEF KeptIsAccepted, Accepts, Lines
  <2> QED BY <2>1, <2>2 DEF SearchNext, searchVars, Begin, BudgetOut, Reject, NextPass, OneLeft,
             Raise, Unreduced, Confirm, Refute, RaiseInCheck
<1> QED BY <1>1, <1>2, SearchTypeCorrect, PTL DEF SearchSpec

-----------------------------------------------------------------------------
(* The spend.                                                              *)

\* Until it ends, a minimisation has counted what it asked, within its budget.
Accounted ==
  /\ phase # "done" => asked = calls /\ calls =< Budget /\ result = "none"
  /\ SpendIsTrue

LEMMA InitAccounted == SearchInit => Accounted
  BY Constants DEF SearchInit, Accounted, SpendIsTrue

LEMMA StepAccounted == SearchTypeOK /\ Accounted /\ [SearchNext]_searchVars => Accounted'
<1> SUFFICES ASSUME SearchTypeOK, Accounted, [SearchNext]_searchVars PROVE Accounted'
  OBVIOUS
<1>0. calls \in Nat /\ asked \in Nat /\ Budget \in Nat
  BY Constants DEF SearchTypeOK
<1> USE <1>0 DEF Accounted, SpendIsTrue
<1>1. CASE Begin \/ BudgetOut \/ NextPass \/ OneLeft
  BY <1>1 DEF Begin, BudgetOut, InPass, NextPass, OneLeft
<1>2. CASE Reduce \/ Reject
  BY <1>2 DEF Reduce, Reject, InPass
<1>3. CASE Raise \/ Refute \/ RaiseInCheck
  BY <1>3 DEF Raise, Refute, RaiseInCheck, InPass
<1>4. CASE Unreduced \/ Confirm
  BY <1>4 DEF Unreduced, Confirm
<1>5. CASE UNCHANGED searchVars
  BY <1>5 DEF searchVars
<1> QED BY <1>1, <1>2, <1>3, <1>4, <1>5 DEF SearchNext

\* The analyses a campaign records for a minimised diff are the ones that were
\* made, and the re-check is the only one beyond the declared budget
\* (harness/campaign.py _minimize, harness/minimize.py ddmin).
THEOREM SpendCounted == SearchSpec => []SpendIsTrue
<1>1. Accounted => SpendIsTrue
  BY DEF Accounted
<1> QED BY <1>1, InitAccounted, StepAccounted, SearchTypeCorrect, PTL DEF SearchSpec

-----------------------------------------------------------------------------
(* One-minimality.                                                         *)

Needed(i) == ~ Accepts(Lines(current) \ {current[i]})

\* A pass over single lines has found every line behind it to be needed, and
\* a search that ends by itself ends with such a pass.
Searched ==
  /\ phase = "begin" => ~ partial /\ start = 0
  /\ phase = "search" => ~ partial
  /\ phase = "search" /\ failures = 0 /\ granularity >= Len(current) =>
       \A i \in 1 .. Len(current) : i =< start => Needed(i)
  /\ phase = "check" /\ ~ partial /\ failures = 0 /\ Len(current) >= 2 =>
       \A i \in 1 .. Len(current) : Needed(i)
  /\ OneMinimal

LEMMA InitSearched == SearchInit => Searched
  BY DEF SearchInit, Searched, OneMinimal

LEMMA StepSearched == SearchTypeOK /\ Accounted /\ Searched /\ [SearchNext]_searchVars => Searched'
<1> SUFFICES ASSUME SearchTypeOK, Accounted, Searched, [SearchNext]_searchVars PROVE Searched'
  OBVIOUS
<1>0. /\ Len(current) \in Nat /\ DOMAIN current = 1 .. Len(current)
      /\ start \in Nat /\ granularity \in Nat /\ failures \in Nat
      /\ phase # "done" => result = "none"
  BY Constants DEF SearchTypeOK, Accounted
<1>1. CASE Begin
  <2>1. /\ start' = 0 /\ result' = "none"
        /\ UNCHANGED <<current, problem, failures>>
    BY <1>0, <1>1 DEF Begin, Searched
  <2>2. CASE Len(current) < 2
    BY <1>0, <1>1, <2>1, <2>2 DEF Begin, Searched, OneMinimal
  <2>3. CASE Len(current) >= 2 /\ Len(current) > MaxUnits
    BY <1>1, <2>1, <2>3 DEF Begin, Searched, OneMinimal
  <2>4. CASE Len(current) >= 2 /\ ~ (Len(current) > MaxUnits)
    <3>0. ~ (Len(current) < 2 \/ Len(current) > MaxUnits)
      BY Constants, <1>0, <2>4
    <3>1. phase' = "search" /\ ~ partial'
      <4>1. phase' = "search"
        BY <1>1, <3>0 DEF Begin
      <4>2. ~ partial'
        BY <1>1, <2>4, Zenon DEF Begin
      <4> QED BY <4>1, <4>2
    <3>2. \A i \in 1 .. Len(current') : ~ (i =< start')
      BY <2>1
    <3> QED BY <2>1, <3>1, <3>2 DEF Searched, OneMinimal
  <2> QED BY <1>0, <2>2, <2>3, <2>4
<1>2. CASE BudgetOut
  BY <1>0, <1>2 DEF BudgetOut, InPass, Searched, OneMinimal
<1>3. CASE Reduce
  <2>1. Rest \in Seq(Nat) /\ start' = 0 /\ current' = Rest
    BY <1>3, RestIsTheComplement DEF Reduce
  <2>2. \A i \in 1 .. Len(current') : ~ (i =< start')
    BY <2>1
  <2>3. phase' = "search" /\ ~ partial' /\ result' = "none"
    BY <1>0, <1>3 DEF Reduce, InPass, Searched
  <2> QED BY <2>2, <2>3 DEF Searched, OneMinimal
<1>4. CASE Reject
  <2>1. phase' = "search" /\ ~ partial' /\ result' = "none"
    BY <1>0, <1>4 DEF Reject, InPass, Searched
  <2>2. ASSUME failures' = 0, granularity' >= Len(current'),
               NEW i \in 1 .. Len(current), i =< start'
        PROVE  Needed(i)'
    <3>1. failures = 0 /\ granularity >= Len(current) /\ InPass
          /\ ~ Accepts(Lines(current) \ Victim) /\ start' = start + Chunk
      BY <1>0, <1>4, <2>2 DEF Reject
    <3>2. Chunk = 1 /\ Width = 1
      BY <3>1, ChunkBounds, <1>0
    <3>3. Victim = {current[start + 1]}
      BY <1>0, <3>2 DEF Victim
    <3>4. Needed(i)
      <4>1. CASE i =< start
        BY <3>1, <4>1 DEF Searched, InPass
      <4>2. CASE i = start + 1
        BY <3>1, <3>3, <4>2 DEF Needed
      <4> QED BY <1>0, <2>2, <3>1, <3>2, <4>1, <4>2
    <3> QED BY <1>4, <3>4 DEF Reject, Needed, Accepts, Lines
  <2>3. UNCHANGED current
    BY <1>4 DEF Reject
  <2> QED BY <2>1, <2>2, <2>3 DEF Searched, OneMinimal
<1>5. CASE NextPass
  <2>1. UNCHANGED <<current, problem, partial, failures>> /\ result' = "none" /\ ~ partial
    BY <1>0, <1>5 DEF NextPass, Searched
  <2>2. CASE granularity >= Len(current)
    <3>1. phase' = "check" /\ start >= Len(current)
      BY <1>5, <2>2 DEF NextPass
    <3>2. failures = 0 => \A i \in 1 .. Len(current) : Needed(i)
      BY <1>0, <1>5, <2>2, <3>1 DEF NextPass, Searched
    <3>3. failures' = 0 => \A i \in 1 .. Len(current') : Needed(i)'
      BY <2>1, <3>2 DEF Needed, Accepts, Lines
    <3> QED BY <2>1, <3>1, <3>3 DEF Searched, OneMinimal
  <2>3. CASE ~ (granularity >= Len(current))
    <3>1. phase' = "search" /\ start' = 0
      BY <1>5, <2>3 DEF NextPass
    <3>2. \A i \in 1 .. Len(current') : ~ (i =< start')
      BY <3>1
    <3> QED BY <2>1, <3>1, <3>2 DEF Searched, OneMinimal
  <2> QED BY <2>2, <2>3
<1>6. CASE OneLeft
  BY <1>0, <1>6 DEF OneLeft, Searched, OneMinimal
<1>7. CASE Raise \/ Refute \/ RaiseInCheck
  <2>1. phase' = "done" /\ result' # "kept"
    BY <1>7 DEF Raise, Refute, RaiseInCheck
  <2> QED BY <2>1 DEF Searched, OneMinimal
<1>8. CASE Unreduced \/ Confirm
  <2>1. /\ phase = "check" /\ phase' = "done"
        /\ UNCHANGED <<current, problem, partial, failures>>
    BY <1>8 DEF Unreduced, Confirm
  <2>2. ~ partial /\ failures = 0 /\ Len(current) >= 2 =>
          \A i \in DOMAIN current : ~ Accepts(Lines(current) \ {current[i]})
    BY <1>0, <2>1 DEF Searched, Needed
  <2>3. OneMinimal'
    BY <2>1, <2>2 DEF OneMinimal, Accepts, Lines
  <2> QED BY <2>1, <2>3 DEF Searched
<1>9. CASE UNCHANGED searchVars
  <2>1. UNCHANGED <<phase, problem, current, granularity, start, partial, result, failures>>
    BY <1>9 DEF searchVars
  <2>2. OneMinimal'
    BY <2>1 DEF Searched, OneMinimal, Accepts, Lines
  <2>3. \A i \in 1 .. Len(current) : Needed(i)' <=> Needed(i)
    BY <2>1 DEF Needed, Accepts, Lines
  <2> QED BY <2>1, <2>2, <2>3 DEF Searched
<1> QED BY <1>1, <1>2, <1>3, <1>4, <1>5, <1>6, <1>7, <1>8, <1>9 DEF SearchNext

\* A search that had the budget it needed and no failed analysis returns a
\* diff none of whose change lines can be dropped (harness/minimize.py ddmin:
\* "the standard 1-minimal search").
THEOREM Minimal == SearchSpec => []OneMinimal
<1>1. Searched => OneMinimal
  BY DEF Searched
<1> QED BY <1>1, InitAccounted, StepAccounted, InitSearched, StepSearched,
           SearchTypeCorrect, PTL DEF SearchSpec

==============================================================================
