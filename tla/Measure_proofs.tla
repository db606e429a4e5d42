--------------------------- MODULE Measure_proofs ---------------------------
(***************************************************************************)
(* The instrument and the readings of it, for any environment blocks,      *)
(* thresholds, vocabularies, reports, archives and campaign suites and any *)
(* number of kills: what an analysis finds, what a bypass says, that       *)
(* evidence never hides evidence, and what each pass over a measurement    *)
(* can be relied on for.                                                   *)
(***************************************************************************)
EXTENDS Measure, ServerTools, Readings, Matrix, Probe, Evidence, AurCache,
        FiniteSetTheorems, TLAPS

(***************************************************************************)
(* The store: what is written is what is read next.                        *)
(***************************************************************************)
StoreOK ==
  /\ env \in Raw
  /\ file \in [File -> Content] /\ path \in File \cup {None} /\ conn \in File \cup {None}

LEMMA FileFacts == None \notin File /\ 1 \in File /\ 2 \in File
  BY DEF None, File

LEMMA EmptyIsContent == Empty \in Content
  BY DEF Empty, Content

LEMMA HeldIsContent ==
  ASSUME StoreOK
  PROVE  Held \in Content /\ Opened \in File
  BY FileFacts, EmptyIsContent DEF StoreOK, Held, Opened

LEMMA BlockTypes ==
  ASSUME StoreOK
  PROVE  env.ioc \in BOOLEAN /\ env.accumulate \in BOOLEAN
  BY MeasureAssumption DEF StoreOK

LEMMA WriteThenRead ==
  ASSUME StoreOK, NEW content \in Content, Through(content), env' = env
  PROVE  StoreOK' /\ Held' = content /\ conn' \in File
<1>1. Opened \in File
  BY HeldIsContent
<1>2. conn' = Opened /\ file' = [file EXCEPT ![Opened] = content]
  BY DEF Through
<1>3. path' \in File \cup {None}
  BY <1>1 DEF Through, StoreOK
<1>4. Opened' = conn'
  BY <1>1, <1>2, FileFacts DEF Opened
<1>5. file'[Opened'] = content
  BY <1>1, <1>2, <1>4 DEF StoreOK
<1>6. Held' = content
  BY <1>1, <1>2, <1>5, FileFacts DEF Held
<1> QED BY <1>1, <1>2, <1>3, <1>6 DEF StoreOK

LEMMA StoreInit == MeasureInit => StoreOK
<1> SUFFICES ASSUME MeasureInit PROVE StoreOK
  OBVIOUS
<1>1. [Empty EXCEPT !.observed = TRUE] \in Content
  BY DEF Empty, Content
<1> QED BY <1>1, EmptyIsContent, FileFacts DEF MeasureInit, StoreOK

(***************************************************************************)
(* How far a restore has got.                                              *)
(***************************************************************************)
Restored ==
  /\ at = "fill" => IF env.state = "snapshot" THEN conn = None ELSE Held = Empty
  /\ at = "import" => Held = [Declared EXCEPT !.ioc = FALSE]
  /\ at = "ready" => Held = Declared
  /\ at \in {"analyze", "judged"} => sees = Declared

DeclaredNow == ~env.accumulate => Restored

LEMMA SameContent ==
  ASSUME NEW c \in Content, NEW d \in Content,
         c.base = d.base, c.ioc = d.ioc, c.observed = d.observed
  PROVE  c = d
  BY DEF Content

LEMMA DeclaredIsContent ==
  ASSUME StoreOK
  PROVE  /\ Declared \in Content /\ [Declared EXCEPT !.ioc = FALSE] \in Content
         /\ Declared.ioc = env.ioc /\ Declared.observed = FALSE
         /\ [Declared EXCEPT !.ioc = FALSE].base = Declared.base
         /\ [Declared EXCEPT !.ioc = FALSE].ioc = FALSE
         /\ [Declared EXCEPT !.ioc = FALSE].observed = FALSE
<1>1. Declared \in Content /\ Declared.ioc = env.ioc /\ Declared.observed = FALSE
  BY BlockTypes DEF Declared, Content
<1> QED BY <1>1 DEF Content

LEMMA ImportedIsDeclared ==
  ASSUME StoreOK, Held = [Declared EXCEPT !.ioc = FALSE]
  PROVE  [Held EXCEPT !.ioc = @ \/ env.ioc] = Declared
<1>1. Held \in Content /\ Held.base = Declared.base /\ Held.ioc = FALSE /\ Held.observed = FALSE
  BY DeclaredIsContent
<1>2. (Held.ioc \/ env.ioc) = env.ioc
  BY <1>1, BlockTypes
<1>3. /\ [Held EXCEPT !.ioc = env.ioc] \in Content
      /\ [Held EXCEPT !.ioc = env.ioc].base = Held.base
      /\ [Held EXCEPT !.ioc = env.ioc].ioc = env.ioc
      /\ [Held EXCEPT !.ioc = env.ioc].observed = Held.observed
  BY <1>1, BlockTypes DEF Content
<1>4. [Held EXCEPT !.ioc = env.ioc] = Declared
  BY <1>1, <1>3, SameContent, DeclaredIsContent
<1> QED BY <1>2, <1>4

LEMMA FilledIsDeclared ==
  ASSUME StoreOK, NEW base \in {"empty", "seed", "snapshot"}, base = Declared.base
  PROVE  [Empty EXCEPT !.base = base] = [Declared EXCEPT !.ioc = FALSE]
<1>1. /\ [Empty EXCEPT !.base = base] \in Content
      /\ [Empty EXCEPT !.base = base].base = base
      /\ [Empty EXCEPT !.base = base].ioc = FALSE
      /\ [Empty EXCEPT !.base = base].observed = FALSE
  BY DEF Empty, Content
<1> QED BY <1>1, SameContent, DeclaredIsContent

LEMMA DeclaredBase ==
  /\ env.state = "cold" => Declared.base = "empty"
  /\ env.state = "seeded" => Declared.base = "seed"
  /\ env.state = "snapshot" => Declared.base = "snapshot"
  BY DEF Declared

LEMMA Quiet ==
  ASSUME StoreOK, UNCHANGED <<env, file, path, conn>>
  PROVE  StoreOK' /\ Held' = Held /\ Declared' = Declared
  BY DEF StoreOK, Held, Opened, Declared

LEMMA StepBind ==
  ASSUME StoreOK, NEW profiled \in BOOLEAN, Bind(profiled)
  PROVE  StoreOK' /\ Restored'
<1>1. at' = "restore" /\ env' = env
  BY DEF Bind
<1>2. CASE env.ioc
  <2>1. [Held EXCEPT !.ioc = TRUE] \in Content
    BY HeldIsContent DEF Content
  <2>2. Through([Held EXCEPT !.ioc = TRUE])
    BY <1>2 DEF Bind
  <2> QED BY <1>1, <2>1, <2>2, WriteThenRead DEF Restored
<1>3. CASE ~env.ioc
  <2>1. UNCHANGED <<env, file, path, conn>>
    BY <1>3 DEF Bind, store
  <2> QED BY <1>1, <2>1, Quiet DEF Restored
<1> QED BY <1>2, <1>3

LEMMA StepClear ==
  ASSUME StoreOK, Clear
  PROVE  StoreOK' /\ Restored'
<1>1. /\ path' = None /\ conn' = None /\ at' = "fill" /\ env' = env
      /\ file' = [f \in File |-> Empty]
  BY DEF Clear, config
<1>2. Held' = Empty
  BY <1>1 DEF Held
<1>3. StoreOK'
  BY <1>1, EmptyIsContent DEF StoreOK
<1> QED BY <1>1, <1>2, <1>3 DEF Restored

LEMMA StepSeed ==
  ASSUME StoreOK, DeclaredNow, Seed
  PROVE  StoreOK' /\ DeclaredNow'
<1>1. at = "fill" /\ env.state = "seeded" /\ env' = env
  BY DEF Seed, config
<1>2. CASE env.seed = "matching"
  <2>1. Through([Held EXCEPT !.base = "seed"]) /\ at' = "import"
    BY <1>2 DEF Seed
  <2>2. [Held EXCEPT !.base = "seed"] \in Content
    BY HeldIsContent DEF Content
  <2>3. StoreOK' /\ Held' = [Held EXCEPT !.base = "seed"]
    BY <1>1, <2>1, <2>2, WriteThenRead
  <2>4. ASSUME ~env.accumulate PROVE Held' = [Declared EXCEPT !.ioc = FALSE]
    <3>1. Held = Empty
      BY <1>1, <2>4 DEF DeclaredNow, Restored
    <3> QED BY <1>1, <2>3, <3>1, FilledIsDeclared, DeclaredBase
  <2>5. Declared' = Declared
    BY <1>1 DEF Declared
  <2> QED BY <1>1, <2>1, <2>3, <2>4, <2>5 DEF DeclaredNow, Restored
<1>3. CASE env.seed # "matching"
  <2>1. Through(Held) /\ at' = "refused"
    BY <1>3 DEF Seed
  <2> QED BY <1>1, <2>1, HeldIsContent, WriteThenRead DEF DeclaredNow, Restored
<1> QED BY <1>2, <1>3

LEMMA StepCopy ==
  ASSUME StoreOK, DeclaredNow, Copy
  PROVE  StoreOK' /\ DeclaredNow'
<1>1. at = "fill" /\ env.state = "snapshot" /\ env' = env /\ conn' = conn
  BY DEF Copy, config
<1>2. PICK f \in File \ {conn}, copied \in {"torn", "snapshot"} :
        /\ path' = f /\ file' = [file EXCEPT ![f] = [Empty EXCEPT !.base = copied]]
        /\ at' = IF env.snapshot # "whole" THEN "refused" ELSE IF copied = "torn" THEN "fill" ELSE "import"
        /\ env.snapshot # "whole" => copied = "torn"
  BY DEF Copy
<1>3. [Empty EXCEPT !.base = copied] \in Content
  BY DEF Empty, Content
<1>4. StoreOK'
  BY <1>1, <1>2, <1>3 DEF StoreOK
<1>5. at' \in {"refused", "fill", "import"} /\ (at' = "import" => copied = "snapshot")
  BY <1>2
<1>6. ASSUME ~env.accumulate, at' = "import" PROVE Held' = [Declared EXCEPT !.ioc = FALSE]
  <2>1. conn' = None
    BY <1>1, <1>6 DEF DeclaredNow, Restored
  <2>2. path' = f /\ f \in File /\ file'[f] = [Empty EXCEPT !.base = "snapshot"]
    BY <1>2, <1>5, <1>6 DEF StoreOK
  <2>3. Held' = [Empty EXCEPT !.base = "snapshot"]
    BY <2>1, <2>2, FileFacts DEF Held, Opened
  <2> QED BY <1>1, <2>3, FilledIsDeclared, DeclaredBase
<1>7. Declared' = Declared
  BY <1>1 DEF Declared
<1>8. ASSUME ~env.accumulate, at' = "fill" PROVE conn' = None
  BY <1>1, <1>8 DEF DeclaredNow, Restored
<1> QED BY <1>1, <1>4, <1>5, <1>6, <1>7, <1>8 DEF DeclaredNow, Restored

LEMMA StepImport ==
  ASSUME StoreOK, DeclaredNow, Import
  PROVE  StoreOK' /\ DeclaredNow'
<1> DEFINE imported == [Held EXCEPT !.ioc = @ \/ env.ioc]
<1>1. Through(imported) /\ at' = "ready" /\ env' = env
  BY DEF Import, config
<1>2. imported \in Content
  BY HeldIsContent, BlockTypes DEF Content
<1> HIDE DEF imported
<1>3. StoreOK' /\ Held' = imported
  BY <1>1, <1>2, WriteThenRead
<1>4. ASSUME ~env.accumulate PROVE imported = Declared
  <2>1. Held = [Declared EXCEPT !.ioc = FALSE]
    <3>1. CASE at = "import"
      BY <1>4, <3>1 DEF DeclaredNow, Restored
    <3>2. CASE at # "import"
      <4>1. at = "fill" /\ env.state = "cold"
        BY <3>2 DEF Import
      <4>2. Held = Empty
        BY <1>4, <4>1 DEF DeclaredNow, Restored
      <4>3. [Empty EXCEPT !.base = "empty"] = [Declared EXCEPT !.ioc = FALSE]
        BY <4>1, FilledIsDeclared, DeclaredBase
      <4> QED BY <4>2, <4>3 DEF Empty
    <3> QED BY <3>1, <3>2
  <2> QED BY <2>1, ImportedIsDeclared DEF imported
<1>5. Declared' = Declared
  BY <1>1 DEF Declared
<1> QED BY <1>1, <1>3, <1>4, <1>5 DEF DeclaredNow, Restored

LEMMA StepAnalyze ==
  ASSUME StoreOK, DeclaredNow, Analyze
  PROVE  StoreOK' /\ DeclaredNow'
<1>1. /\ at = "ready" /\ at' = "analyze" /\ sees' = Held /\ env' = env
      /\ Through([Held EXCEPT !.observed = TRUE])
  BY DEF Analyze, config
<1>2. [Held EXCEPT !.observed = TRUE] \in Content
  BY HeldIsContent DEF Content
<1>3. StoreOK'
  BY <1>1, <1>2, WriteThenRead
<1>4. Declared' = Declared
  BY <1>1 DEF Declared
<1> QED BY <1>1, <1>3, <1>4 DEF DeclaredNow, Restored

LEMMA StepStore ==
  ASSUME StoreOK, DeclaredNow, [MeasureNext]_<<measureVars, walkVars>>
  PROVE  StoreOK' /\ DeclaredNow'
<1> USE DEF measureVars, store, config
<1>1. CASE Load \/ Accumulate \/ Accrue \/ Check \/ NextAttempt \/ Reload
  <2>1. UNCHANGED <<env, file, path, conn, sees>>
    BY <1>1 DEF Load, Accumulate, Accrue, Check, NextAttempt, Reload
  <2>2. /\ ~env.accumulate =>
             \/ at' \in {"bind", "refused", "restore"} \/ at' = at
             \/ at = "analyze" /\ at' = "judged"
    BY <1>1 DEF Load, Accumulate, Accrue, Check, NextAttempt, Reload
  <2> QED BY <2>1, <2>2, Quiet DEF DeclaredNow, Restored
<1>2. CASE \E profiled \in BOOLEAN : Bind(profiled)
  BY <1>2, StepBind DEF DeclaredNow
<1>3. CASE Clear
  BY <1>3, StepClear DEF DeclaredNow
<1>4. CASE Seed
  BY <1>4, StepSeed
<1>5. CASE Copy
  BY <1>5, StepCopy
<1>6. CASE Import
  BY <1>6, StepImport
<1>7. CASE Analyze
  BY <1>7, StepAnalyze
<1>8. CASE Restart
  <2>1. at' = "load" /\ conn' = None /\ UNCHANGED <<env, file, path>>
    BY <1>8 DEF Restart
  <2> QED BY <2>1 DEF StoreOK, DeclaredNow, Restored
<1>9. CASE UNCHANGED <<measureVars, walkVars>>
  <2>1. UNCHANGED <<env, file, path, conn, sees, at>>
    BY <1>9
  <2> QED BY <2>1, Quiet DEF DeclaredNow, Restored
<1> QED BY <1>1, <1>2, <1>3, <1>4, <1>5, <1>6, <1>7, <1>8, <1>9 DEF MeasureNext

\* An analysis that does not accumulate finds exactly the database its block
\* declares, whatever earlier attempts and earlier runs left in the directory
\* and wherever they were killed.
THEOREM DeclaredForever == MeasureSpec => []MeasuredFromDeclared
<1>1. MeasureInit => StoreOK /\ DeclaredNow
  BY StoreInit DEF MeasureInit, DeclaredNow, Restored
<1>2. StoreOK /\ DeclaredNow /\ [MeasureNext]_<<measureVars, walkVars>> => StoreOK' /\ DeclaredNow'
  BY StepStore
<1>3. DeclaredNow => MeasuredFromDeclared
  BY DEF DeclaredNow, Restored, MeasuredFromDeclared
<1> QED BY <1>1, <1>2, <1>3, PTL DEF MeasureSpec

(***************************************************************************)
(* The verdict and the configuration it was reached under.                 *)
(***************************************************************************)
\* A configuration that was vouched for is the run's, and the report that is
\* judged under it, or that says its threshold, was made under the judge's.
Vouches ==
  /\ vouched \in BOOLEAN /\ (vouched => adopted = Threshold) /\ (at = "load" => ~vouched)
  /\ at = "judged" /\ (vouched \/ "threshold" \in shown) => made = Threshold

LEMMA ThresholdIsFingerprint == Threshold # NoFingerprint
  BY WalkAssumption DEF NoFingerprint

LEMMA StepCheck ==
  ASSUME Vouches, Check
  PROVE  Vouches'
<1>1. at = "analyze" /\ made' = made /\ shown' = shown
  BY DEF Check
<1>2. at' # "load" /\ (at' = "judged" => ~Refused)
  BY DEF Check
<1>3. vouched' = (vouched \/ (~Refused /\ shown = Says))
  BY DEF Check
<1>4. adopted' = IF adopted = NoFingerprint /\ ~Disagrees THEN Fingerprint ELSE adopted
  BY DEF Check
<1>5. ASSUME ~Refused, "threshold" \in shown PROVE made = Threshold
  BY <1>5 DEF Refused, Disagrees
<1>6. CASE vouched
  <2>1. adopted = Threshold /\ adopted' = Threshold
    BY <1>4, <1>6, ThresholdIsFingerprint DEF Vouches
  <2>2. ASSUME ~Refused PROVE made = Threshold
    BY <2>1, <2>2, ThresholdIsFingerprint DEF Refused, Fingerprint
  <2> QED BY <1>1, <1>2, <1>3, <1>6, <2>1, <2>2 DEF Vouches
<1>7. CASE ~vouched
  <2>1. ASSUME ~Refused, shown = Says PROVE adopted' = Threshold
    <3>1. made = Threshold /\ Fingerprint = made /\ ~Disagrees
      BY <1>5, <2>1 DEF Says, Refused, Fingerprint
    <3>2. adopted # NoFingerprint => adopted = Threshold
      BY <2>1, <3>1 DEF Refused
    <3> QED BY <1>4, <3>1, <3>2
  <2>2. at' = "judged" /\ (vouched' \/ "threshold" \in shown) => made = Threshold
    BY <1>2, <1>3, <1>5, <1>7 DEF Says
  <2>3. vouched' \in BOOLEAN /\ (vouched' => ~Refused /\ shown = Says)
    BY <1>3, <1>7
  <2> QED BY <1>1, <1>2, <2>1, <2>2, <2>3 DEF Vouches
<1> QED BY <1>6, <1>7 DEF Vouches

LEMMA BypassIsAtOrBelow ==
  ASSUME Verdict(report, Threshold, Expected, modeGaps) = "bypass"
  PROVE  report.score <= Threshold
  BY DEF Verdict, Unknown

\* A report that is judged a bypass is one the tool left UNFLAGGED under the
\* configuration it really ran with, reloads during the run included, when it
\* says its threshold or when an earlier report vouched for the configuration.
THEOREM BypassForever == MeasureSpec => []BypassIsUnflagged
<1>1. MeasureInit => Vouches
  BY DEF MeasureInit, Vouches
<1>2. Vouches /\ [MeasureNext]_<<measureVars, walkVars>> => Vouches'
  <2> SUFFICES ASSUME Vouches, [MeasureNext]_<<measureVars, walkVars>>
               PROVE  Vouches'
    OBVIOUS
  <2> USE DEF measureVars, store, config, identity
  <2>1. CASE Check
    BY <2>1, StepCheck
  <2>2. CASE Load
    BY <2>2 DEF Load, Vouches
  <2>3. CASE Restart
    BY <2>3 DEF Restart, Vouches
  <2>4. CASE Analyze
    BY <2>4 DEF Analyze, Vouches
  <2>5. ASSUME UNCHANGED <<adopted, vouched, made, shown>>,
               at' = at \/ at' \in {"restore", "fill", "import", "ready", "refused"}
        PROVE  Vouches'
    BY <2>5 DEF Vouches
  <2>6. CASE \E profiled \in BOOLEAN : Bind(profiled)
    BY <2>5, <2>6 DEF Bind
  <2>7. CASE Clear \/ Accumulate \/ Seed \/ Copy \/ Import
    BY <2>5, <2>7 DEF Clear, Accumulate, Seed, Copy, Import
  <2>8. CASE Accrue \/ NextAttempt \/ Reload \/ UNCHANGED <<measureVars, walkVars>>
    BY <2>5, <2>8 DEF Accrue, NextAttempt, Reload
  <2> QED BY <2>1, <2>2, <2>3, <2>4, <2>6, <2>7, <2>8 DEF MeasureNext
<1>3. Vouches => BypassIsUnflagged
  BY BypassIsAtOrBelow DEF Vouches, BypassIsUnflagged, status
<1> QED BY <1>1, <1>2, <1>3, PTL DEF MeasureSpec

(***************************************************************************)
(* Evidence.                                                               *)
(***************************************************************************)
\* judge: a report that says at least what another says is a bypass only if
\* the other one is: no finding, gap or point of score hides what was caught.
THEOREM VerdictIsMonotone ==
  ASSUME NEW less, NEW more, NEW expected, NEW modes, NEW threshold \in Int,
         less.findings \subseteq more.findings, less.gaps \subseteq more.gaps,
         less.score \in Int, more.score \in Int, less.score <= more.score,
         Verdict(more, threshold, expected, modes) = "bypass"
  PROVE  Verdict(less, threshold, expected, modes) = "bypass"
<1>1. /\ Understood(more, modes) /\ "FATAL" \notin Severities(more)
      /\ OwnGaps(more, modes) = {} /\ more.score <= threshold
  BY DEF Verdict, Unknown
<1>2. Severities(less) \subseteq Severities(more) /\ OwnGaps(less, modes) \subseteq OwnGaps(more, modes)
  BY DEF Severities, OwnGaps
<1>3. Understood(less, modes)
  BY <1>1, <1>2 DEF Understood
<1>4. less.score <= threshold
  BY <1>1
<1> QED BY <1>1, <1>2, <1>3, <1>4 DEF Verdict

\* patch_verification and the gate's _classify read a verdict alike: a replay
\* closes its bypass for the gate exactly when the campaign says of the same
\* status that the patch is verified.
THEOREM ReadingsAgree ==
  ASSUME NEW outcome \in ReportStatus, NEW found
  PROVE  GateState(outcome, found) = "closed" <=> PatchStatus(outcome) = "verified"
  BY DEF ReportStatus, GateState, PatchStatus

ReportOK ==
  /\ report = [findings |-> report.findings, gaps |-> report.gaps, score |-> report.score]
  /\ report.score \in Int

LEMMA ReportGrows ==
  ASSUME ReportOK, Next
  PROVE  /\ ReportOK'
         /\ report.findings \subseteq report'.findings /\ report.gaps \subseteq report'.gaps
         /\ report.score <= report'.score /\ modeGaps' = modeGaps
  BY DEF ReportOK, Next, AddFinding, AddGap, RaiseScore

LEMMA StepReport ==
  ASSUME ReportOK, [MeasureNext]_<<measureVars, walkVars>>
  PROVE  ReportOK'
<1>1. CASE Analyze
  BY <1>1 DEF Analyze, NoEvidence, ReportOK
<1>2. CASE Accrue
  BY <1>2, ReportGrows DEF Accrue
<1>3. CASE UNCHANGED report
  BY <1>3 DEF ReportOK
<1> QED BY <1>1, <1>2, <1>3 DEF MeasureNext, walkVars, Load, Bind, Clear, Accumulate, Seed, Copy, Import, Check,
           NextAttempt, Reload, Restart

\* The same of every step of a report that is being made.
THEOREM EvidenceForever == MeasureSpec => EvidenceNeverHides
<1>1. MeasureInit => ReportOK
  BY DEF MeasureInit, Init, ReportOK
<1>2. ReportOK /\ [MeasureNext]_<<measureVars, walkVars>> => ReportOK'
  BY StepReport
<1>3. ReportOK /\ [MeasureNext]_<<measureVars, walkVars>> =>
        [at' = "analyze" /\ at = "analyze" /\ Verdict(report', Threshold, Expected, modeGaps) = "bypass"
           => status = "bypass"]_walkVars
  <2> SUFFICES ASSUME ReportOK, [MeasureNext]_<<measureVars, walkVars>>, ~UNCHANGED walkVars,
                      at' = "analyze", at = "analyze",
                      Verdict(report', Threshold, Expected, modeGaps) = "bypass"
               PROVE  status = "bypass"
    OBVIOUS
  <2>1. Accrue
    BY DEF MeasureNext, walkVars, measureVars, Load, Bind, Clear, Accumulate, Seed, Copy, Import, Analyze, Check,
       NextAttempt, Reload, Restart
  <2>2. /\ report.findings \subseteq report'.findings /\ report.gaps \subseteq report'.gaps
        /\ report.score <= report'.score /\ report.score \in Int /\ report'.score \in Int
    BY <2>1, ReportGrows DEF Accrue, ReportOK
  <2>3. Threshold \in Int
    BY WalkAssumption
  <2> QED BY <2>2, <2>3, VerdictIsMonotone DEF status
<1> QED BY <1>1, <1>2, <1>3, PTL DEF MeasureSpec, EvidenceNeverHides

(***************************************************************************)
(* The server's tools.                                                     *)
(***************************************************************************)
\* validate_diff answers of a diff what the campaign's gates do, unless the
\* generator supplied the whole recipe: the tool then judges constraints and
\* behaviour on the hunks, and only the first two gates are sure to agree.
THEOREM ToolValidatesAlike ==
  ASSUME NEW d \in Proposal, NEW forbidden \in SUBSET Technique, NEW goal \in Goal,
         d.whole = {} \/ ValidateDiff(d, forbidden, goal, TRUE, TRUE) \in {"sanitization_failure", "syntax_error"}
  PROVE  ValidateAttempt(d, forbidden, goal) = {ValidateDiff(d, forbidden, goal, TRUE, TRUE)}
<1>1. ValidateDiff(d, forbidden, goal, TRUE, TRUE) = Checked(d, d.hunks, forbidden, goal)
  BY DEF ValidateDiff
<1>2. CASE d.whole = {}
  BY <1>1, <1>2 DEF ValidateAttempt
<1>3. CASE d.whole # {} /\ Checked(d, d.hunks, forbidden, goal) \in {"sanitization_failure", "syntax_error"}
  <2>1. ~d.clean \/ ~d.parses
    BY <1>3 DEF Checked, Passed
  <2>2. \A recipe : Checked(d, recipe, forbidden, goal) = Checked(d, d.hunks, forbidden, goal)
    BY <2>1 DEF Checked
  <2> QED BY <1>1, <1>3, <2>2 DEF ValidateAttempt
<1> QED BY <1>1, <1>2, <1>3

\* judge_verdict: a client that leaves the mode's gaps and the expected rules
\* at their defaults is never told of a bypass that a campaign would not see.
THEOREM DefaultsErrTowardsCaught ==
  ASSUME NEW r, NEW objects, r.findings \subseteq objects,
         NEW threshold, NEW expected, NEW modes,
         JudgeVerdict("", r, Part, objects, threshold, {}, {}) = "bypass"
  PROVE  Verdict(r, threshold, expected, modes) = "bypass"
<1> DEFINE rebuilt == Rebuilt(r, Part, objects)
<1>1. rebuilt.score = r.score /\ rebuilt.findings = r.findings /\ rebuilt.gaps = r.gaps
  BY DEF Rebuilt, Part
<1>2. Verdict(rebuilt, threshold, {}, {}) = "bypass"
  BY DEF JudgeVerdict, Error, Part
<1> HIDE DEF rebuilt
<1>3. /\ Understood(rebuilt, {}) /\ "FATAL" \notin Severities(rebuilt)
      /\ OwnGaps(rebuilt, {}) = {} /\ rebuilt.score <= threshold
  BY <1>2 DEF Verdict, Unknown
<1>4. Severities(rebuilt) = Severities(r)
  BY <1>1 DEF Severities
<1>5. OwnGaps(r, modes) = {}
  BY <1>1, <1>3 DEF OwnGaps
<1> QED BY <1>1, <1>3, <1>4, <1>5 DEF Verdict, Understood

\* judge_verdict asks for score, findings and gaps, and reads each that is left
\* out as absent evidence: it hides a catch, and never makes one.
THEOREM PartsNeverCatch ==
  ASSUME NEW r, r.score \in Int, 0 <= r.score, NEW parts, parts # {}, NEW objects,
         NEW threshold \in Int, NEW expected, NEW modes,
         Verdict(r, threshold, expected, modes) = "bypass"
  PROVE  JudgeVerdict("", r, parts, objects, threshold, expected, modes) = "bypass"
<1> DEFINE rebuilt == Rebuilt(r, parts, objects)
<1>1. rebuilt.findings \subseteq r.findings /\ rebuilt.gaps \subseteq r.gaps
  BY DEF Rebuilt
<1>2. rebuilt.score \in Int /\ rebuilt.score <= r.score
  BY DEF Rebuilt
<1>3. Verdict(rebuilt, threshold, expected, modes) = "bypass"
  <2> HIDE DEF rebuilt
  <2> QED BY <1>1, <1>2, VerdictIsMonotone
<1> QED BY <1>3 DEF JudgeVerdict, Unknown

(***************************************************************************)
(* The layer audit and the warm replay.                                    *)
(***************************************************************************)
LEMMA BlindnessOfALayer ==
  ASSUME NEW s \in Settings, NEW info \in LayerInfo, NEW l \in Layer
  PROVE  Reason(l, info, s) \in ConditionalReasons <=>
           /\ ~info.fired
           /\ \/ l \in s.removed
              \/ l = History /\ ~Warm(s)
              \/ l = Indicators /\ ~s.ioc
              \/ l = Correlation /\ info.coverage = "not_applicable"
  BY DEF Reason, ConditionalReasons

LEMMA BlindnessOfTheLane ==
  ASSUME NEW s \in Settings
  PROVE  LaneReason(s) \in ConditionalReasons <=> ~s.lane
  BY DEF LaneReason, ConditionalReasons

\* audit: "Observed status, never inferred traversal".  On the same report, or
\* one on which more layers fired, an instrument that is warmer and has less
\* removed is never blinder: no conditional layer appears.
THEOREM WarmingNeverBlinds ==
  ASSUME NEW s \in Settings, NEW t \in Settings,
         NEW cold \in [Layer -> LayerInfo], NEW warm \in [Layer -> LayerInfo],
         Warm(s) => Warm(t), s.ioc => t.ioc, s.lane => t.lane, t.removed \subseteq s.removed,
         \A l \in Layer : cold[l].fired => warm[l].fired,
         \A l \in Layer : warm[l].coverage = cold[l].coverage
  PROVE  Blinded(Audit(warm, t)) \subseteq Blinded(Audit(cold, s))
<1> SUFFICES ASSUME NEW l \in Blinded(Audit(warm, t))
             PROVE  l \in Blinded(Audit(cold, s))
  OBVIOUS
<1>1. l \in Layer \cup {BuildLane}
  BY DEF Blinded, Audit
<1>2. CASE l = BuildLane
  <2>1. LaneReason(t) \in ConditionalReasons
    BY <1>2 DEF Blinded, Audit
  <2>2. LaneReason(s) \in ConditionalReasons
    BY <2>1, BlindnessOfTheLane
  <2> QED BY <1>2, <2>2 DEF Blinded, Audit
<1>3. CASE l # BuildLane
  <2>1. l \in Layer /\ warm[l] \in LayerInfo /\ cold[l] \in LayerInfo
    BY <1>1, <1>3
  <2>2. Reason(l, warm[l], t) \in ConditionalReasons
    BY <1>3, <2>1 DEF Blinded, Audit
  <2>3. Reason(l, cold[l], s) \in ConditionalReasons
    BY <2>1, <2>2, BlindnessOfALayer
  <2> QED BY <1>3, <2>1, <2>3 DEF Blinded, Audit
<1> QED BY <1>2, <1>3

LEMMA NoLaneIsConditional ==
  ASSUME NEW s, LaneReason(s) = "lane_disabled", NEW layers
  PROVE  Classification(Audit(layers, s)) = "conditional"
<1>1. BuildLane \in Blinded(Audit(layers, s))
  BY DEF Blinded, Audit, ConditionalReasons
<1> QED BY <1>1 DEF Classification

\* With no build lane no bypass is FULL: a campaign audits every one as
\* conditional, and a warm replay confirms none as the worst case, whatever
\* the evidence and however warm the instrument.
THEOREM NothingIsConfirmedWithoutTheLane ==
  ASSUME NEW s \in Settings, NEW entries, NEW reports, NEW raises, NEW outcome, NEW layers, NEW suppressed, NEW empty
  PROVE  /\ \A audit \in BypassAudit(outcome, layers, s, suppressed, empty, TRUE) :
              Classification(audit) = "conditional"
         /\ \A lists \in RunReclassify(entries, reports, raises, s) : lists.confirmed_full = {}
<1>1. LaneReason(Replayed(s)) = "lane_disabled"
  BY DEF LaneReason, Replayed, Settings
<1> DEFINE t == [s EXCEPT !.lane = FALSE, !.removed = suppressed \cup empty]
<1>2. LaneReason(t) = "lane_disabled"
  BY DEF LaneReason, Settings
<1>3. \A audit \in BypassAudit(outcome, layers, s, suppressed, empty, TRUE) : audit = Audit(layers, t)
  BY DEF BypassAudit
<1> HIDE DEF t
<1>4. ASSUME NEW lists \in RunReclassify(entries, reports, raises, s) PROVE lists.confirmed_full = {}
  <2>1. lists = Reclassified(entries, reports, Replayed(s))
    BY DEF RunReclassify
  <2> QED BY <1>1, <2>1, NoLaneIsConditional DEF Reclassified, Bucket
<1> QED BY <1>2, <1>3, <1>4, NoLaneIsConditional

(***************************************************************************)
(* The coverage report.                                                    *)
(***************************************************************************)
\* A campaign's rule that the contract does not have counts as targeted: the
\* two counts of the report add up to the contract only with the unknown ones.
THEOREM CoverageAccounts ==
  ASSUME NEW campaigns, NEW contract, IsFiniteSet(contract), IsFiniteSet(Targeted(campaigns))
  PROVE  Cardinality(Targeted(campaigns)) + Cardinality(Untargeted(campaigns, contract))
           = Cardinality(contract) + Cardinality(UnknownExpected(campaigns, contract))
<1> DEFINE T == Targeted(campaigns)
           both == T \cap contract
<1> HIDE DEF T
<1>1. IsFiniteSet(T)
  BY DEF T
<1>2. contract \cap T = both
  OBVIOUS
<1>3. Cardinality(T \ contract) = Cardinality(T) - Cardinality(both)
  BY <1>1, FS_Difference
<1>4. Cardinality(contract \ T) = Cardinality(contract) - Cardinality(both)
  BY <1>2, FS_Difference
<1>5. Cardinality(T) \in Nat /\ Cardinality(contract) \in Nat /\ Cardinality(both) \in Nat
  BY <1>1, FS_CardinalityType, FS_Intersection
<1> HIDE DEF both
<1>6. Cardinality(T) + Cardinality(contract \ T) = Cardinality(contract) + Cardinality(T \ contract)
  BY <1>3, <1>4, <1>5
<1> QED BY <1>6 DEF T, Untargeted, UnknownExpected

(***************************************************************************)
(* The hardness matrix and the prompt map.                                 *)
(***************************************************************************)
\* A hardened row is one whose cells are all closed and all named.
THEOREM HardenedIsClosed ==
  ASSUME NEW g, NEW v, NEW n, NEW rule,
         RowState(HardnessMatrix(g, v, n), rule) = "hardened"
  PROVE  \A c \in DOMAIN g : RuleOf[c] = rule => IsClosed(g, c, v, n) /\ ~g[c].degraded
  BY DEF RowState, HardnessMatrix, CellsOfRule, CellState, Unresolved

\* A grid only grows, and then the diff of its matrices loses nothing: what is
\* unresolved now is what was, less the closed section, plus the opened one.
THEOREM DiffIsComplete ==
  ASSUME NEW old, NEW new, DOMAIN old \subseteq DOMAIN new,
         \A c \in DOMAIN new : new[c] \in Unresolved \cup {"closed"}
  PROVE  LET diff == MatrixDiff(old, new)
         IN /\ UnresolvedIn(new) = (UnresolvedIn(old) \ diff.closed) \cup diff.opened
            /\ diff.closed \subseteq UnresolvedIn(old) /\ diff.opened \cap UnresolvedIn(old) = {}
<1>1. "closed" \notin Unresolved
  BY DEF Unresolved
<1> QED BY <1>1 DEF MatrixDiff, UnresolvedIn

\* The matrices of the archive are such matrices.
LEMMA CellStates ==
  ASSUME NEW g, NEW v, NEW n
  PROVE  \A c \in DOMAIN HardnessMatrix(g, v, n) : HardnessMatrix(g, v, n)[c] \in Unresolved \cup {"closed"}
  BY DEF HardnessMatrix, CellState, Unresolved

\* matrix.py: "open (a bypass is confirmed)".  Not on a patched cell: a bypass
\* confirmed there later leaves it rendered closed at every version, until the
\* gate replays it.
THEOREM PatchedCellStaysClosed ==
  ASSUME NEW g, IsGrid(g), NEW c \in DOMAIN g, g[c].patch = "verified", ~g[c].degraded,
         NEW o, NEW size, NEW d \in BOOLEAN, NEW v, NEW n
  PROVE  CellState(Observe(g, c, o, size, d), c, v, n) = "closed"
<1> DEFINE h == Observe(g, c, o, size, d)
           e == [g[c] EXCEPT !.obs = BagAdd(@, o), !.degraded = @ /\ d,
                             !.rep = IF BetterRep(size, @) THEN size ELSE @]
<1>1. h = Put(g, c, e)
  BY DEF Observe, EntryOr, Known
<1>2. c \in DOMAIN h /\ h[c] = e
  BY <1>1 DEF Put
<1>3. IsEntry(g[c])
  BY DEF IsGrid
<1>4. e.patch = "verified" /\ ~e.degraded
  BY <1>3 DEF IsEntry
<1> HIDE DEF h, e
<1>5. CellState(h, c, v, n) = "closed"
  BY <1>2, <1>4 DEF CellState, IsClosed, Known
<1> QED BY <1>5 DEF h

\* The generator's map has each cell of a rule in one bucket, and agrees with
\* the matrix on every cell whose shape was named.
THEOREM PromptMapAgrees ==
  ASSUME NEW g, NEW v, NEW n, NEW rule
  PROVE  LET view == PromptMap(g, rule, v, n)
         IN /\ view.vocabulary = view.open \cup view.closed \cup view.unshaped
            /\ view.open \cap view.closed = {} /\ view.unshaped \cap (view.open \cup view.closed) = {}
            /\ \A c \in view.vocabulary : ~g[c].degraded =>
                 (c \in view.closed <=> CellState(g, c, v, n) = "closed")
  BY DEF PromptMap, CellState

(***************************************************************************)
(* Rule probes.                                                            *)
(***************************************************************************)
IsTrace(trace, cell, expected, selfGaps) ==
  \E answers \in {{}} \cup {{r} : r \in ProbeReport} :
     trace \in DiffAttempt(cell, expected, selfGaps, answers)

\* Whether a report was read at all.
WasRead(trace) == trace.status \in {"fail_closed_catch", "bypass", "partial_evasion", "detected"}

LEMMA TraceRead ==
  ASSUME NEW cell \in ProbeCell, NEW expected, NEW selfGaps, NEW trace,
         IsTrace(trace, cell, expected, selfGaps), WasRead(trace)
  PROVE  \E r \in ProbeReport :
           /\ trace.fired = ProbeFired(r) /\ trace.missing = Missing(cell, expected, r)
           /\ trace.negative = NegativeFailures(cell, r)
           /\ trace.status = IF r.gaps \ selfGaps # {} THEN "fail_closed_catch" ELSE Measured(cell, expected, r)
<1>1. PICK answers \in {{}} \cup {{r} : r \in ProbeReport} :
        trace \in DiffAttempt(cell, expected, selfGaps, answers)
  BY DEF IsTrace
<1>2. cell.defect = "none"
  BY <1>1 DEF DiffAttempt, Unread, WasRead, ProbeCell
<1>3. answers # {}
  BY <1>1, <1>2 DEF DiffAttempt, Unread, WasRead
<1>4. PICK r \in ProbeReport : answers = {r}
  BY <1>1, <1>3
<1>5. trace = Read(IF r.gaps \ selfGaps # {} THEN "fail_closed_catch" ELSE Measured(cell, expected, r),
                   cell, expected, r)
  BY <1>1, <1>2, <1>3, <1>4 DEF DiffAttempt
<1> QED BY <1>5 DEF Read

\* A probe that is detected fired every rule its cell is about and none that
\* the cell excludes, on a report with no gap of its own; one that is a bypass
\* left such a rule silent.
THEOREM ProbeVerdictIsTheCells ==
  ASSUME NEW cell \in ProbeCell, NEW expected, NEW selfGaps, NEW trace,
         IsTrace(trace, cell, expected, selfGaps)
  PROVE  /\ trace.status = "detected" =>
              Positive(cell, expected) \subseteq trace.fired /\ cell.absent \cap trace.fired = {}
         /\ trace.status = "bypass" => ~ (Positive(cell, expected) \subseteq trace.fired)
         /\ trace.status = "partial_evasion" =>
              Positive(cell, expected) \subseteq trace.fired /\ cell.absent \cap trace.fired # {}
<1>1. CASE trace.status \in {"detected", "bypass", "partial_evasion"}
  <2>1. PICK r \in ProbeReport :
          /\ trace.fired = ProbeFired(r)
          /\ trace.status = IF r.gaps \ selfGaps # {} THEN "fail_closed_catch" ELSE Measured(cell, expected, r)
    BY <1>1, TraceRead DEF WasRead
  <2>2. trace.status = Measured(cell, expected, r)
    BY <1>1, <2>1
  <2> QED BY <2>1, <2>2 DEF Measured, Missing, NegativeFailures
<1>2. CASE trace.status \notin {"detected", "bypass", "partial_evasion"}
  BY <1>2
<1> QED BY <1>1, <1>2

\* The record of a probe answers for every rule of a cell that was read: it is
\* listed as fired or as missing.  A cell that was refused, or whose worker
\* failed, lists neither, so an empty missing list is no proof that all fired.
THEOREM ProbeRecordAnswers ==
  ASSUME NEW N \in Nat, NEW cells \in [1..N -> ProbeCell], NEW expected, NEW selfGaps,
         NEW traces, DOMAIN traces = 1..N,
         \A i \in 1..N : IsTrace(traces[i], cells[i], expected, selfGaps)
  PROVE  LET record == ProbeRecord(expected, traces)
         IN /\ \A i \in 1..N : WasRead(traces[i]) =>
                 Positive(cells[i], expected) \subseteq record.fired \cup record.missing
            /\ \A i \in 1..N : ~WasRead(traces[i]) => traces[i].fired = {} /\ traces[i].missing = {}
<1>1. ASSUME NEW i \in 1..N, WasRead(traces[i])
      PROVE  Positive(cells[i], expected) \subseteq traces[i].fired \cup traces[i].missing
  BY <1>1, TraceRead DEF Missing
<1>2. ASSUME NEW i \in 1..N, ~WasRead(traces[i])
      PROVE  traces[i].fired = {} /\ traces[i].missing = {}
  <2>1. PICK answers \in {{}} \cup {{r} : r \in ProbeReport} :
          traces[i] \in DiffAttempt(cells[i], expected, selfGaps, answers)
    BY DEF IsTrace
  <2>2. CASE cells[i].defect # "none" \/ answers = {}
    BY <2>1, <2>2 DEF DiffAttempt, Unread
  <2>3. CASE cells[i].defect = "none" /\ answers # {}
    <3>1. PICK r \in ProbeReport : answers = {r}
      BY <2>3
    <3>2. traces[i].status = IF r.gaps \ selfGaps # {} THEN "fail_closed_catch" ELSE Measured(cells[i], expected, r)
      BY <2>1, <2>3, <3>1 DEF DiffAttempt, Read
    <3> QED BY <1>2, <3>2 DEF WasRead, Measured
  <2> QED BY <2>2, <2>3
<1> QED BY <1>1, <1>2 DEF ProbeRecord

(***************************************************************************)
(* The evidence of a false-positive verdict.                               *)
(***************************************************************************)
\* A finding is called contradicted by a source only if some URL of it is no
\* source in every reading of the recipe, and confirmed only if all are in
\* every reading: what the recipe hides never decides.
THEOREM MisclassifiedIsCertain ==
  ASSUME NEW finding \in Cite, NEW snapshot \in Snapshot, NEW real \in Possible(snapshot)
  PROVE  /\ Misclassified(finding, snapshot) = "yes" => ~ (finding.urls \subseteq real)
         /\ Misclassified(finding, snapshot) = "no" => finding.urls \subseteq real
<1> DEFINE answers == {InSource(url, snapshot) : url \in finding.urls}
<1>1. ASSUME Misclassified(finding, snapshot) = "yes"
      PROVE  ~ (finding.urls \subseteq real)
  <2>1. "no" \in answers
    BY <1>1 DEF Misclassified
  <2>2. PICK url \in finding.urls : InSource(url, snapshot) = "no"
    BY <2>1
  <2>3. url \notin snapshot.sources /\ ~snapshot.opaque
    BY <2>2 DEF InSource
  <2> QED BY <2>3 DEF Possible
<1>2. ASSUME Misclassified(finding, snapshot) = "no"
      PROVE  finding.urls \subseteq real
  <2>1. "no" \notin answers /\ "unknown" \notin answers
    BY <1>2 DEF Misclassified
  <2>2. \A url \in finding.urls : url \in snapshot.sources
    BY <2>1 DEF InSource
  <2> QED BY <2>2 DEF Possible
<1> QED BY <1>1, <1>2

(***************************************************************************)
(* The snapshot cache.                                                     *)
(***************************************************************************)
Step == {"idle", "look", "fetch", "store", "write", "done"}

\* What a label of the cache holds was current when the label was, or later.
CacheNotOlder == \A r \in Release : cache[r] # Unreadable => r <= cache[r] /\ cache[r] <= release

\* A caller's label was current once, and its files were fetched after it.
ClientNotOlder ==
  \A c \in Client :
    /\ client[c].at # "idle" => client[c].label \in Release /\ client[c].label <= release
    /\ client[c].at \in {"store", "write", "done"} => client[c].label <= client[c].files /\ client[c].files <= release

CacheInv == CacheTypeOK /\ CacheNotOlder /\ ClientNotOlder

LEMMA CacheStarts == CacheInit => CacheInv
  BY DEF CacheInit, CacheInv, CacheTypeOK, CacheNotOlder, ClientNotOlder, Release, Idle, Unreadable

\* What a step does to one caller leaves the others as they were.
LEMMA CallerSteps ==
  ASSUME CacheInv, NEW c \in Client, NEW now \in [at : Step, label : Nat, files : Nat],
         client' = [client EXCEPT ![c] = now], release' = release,
         now.at # "idle" => now.label \in Release /\ now.label <= release,
         now.at \in {"store", "write", "done"} => now.label <= now.files /\ now.files <= release
  PROVE  client' \in [Client -> [at : Step, label : Nat, files : Nat]] /\ ClientNotOlder'
<1>1. client' \in [Client -> [at : Step, label : Nat, files : Nat]]
  BY DEF CacheInv, CacheTypeOK, Step
<1>2. ASSUME NEW d \in Client
      PROVE  /\ client'[d].at # "idle" => client'[d].label \in Release /\ client'[d].label <= release
             /\ client'[d].at \in {"store", "write", "done"} => client'[d].label <= client'[d].files /\ client'[d].files <= release
  <2>1. CASE d = c
    <3>1. client'[d] = now
      BY <2>1 DEF CacheInv, CacheTypeOK
    <3> QED BY <3>1
  <2>2. CASE d # c
    <3>1. client'[d] = client[d]
      BY <2>2 DEF CacheInv, CacheTypeOK
    <3> QED BY <3>1 DEF CacheInv, ClientNotOlder
  <2> QED BY <2>1, <2>2
<1>3. ClientNotOlder'
  BY <1>2 DEF ClientNotOlder, Release
<1> QED BY <1>1, <1>3

LEMMA CacheSteps == CacheInv /\ [CacheNext]_cacheVars => CacheInv'
<1> SUFFICES ASSUME CacheInv, [CacheNext]_cacheVars PROVE CacheInv'
  OBVIOUS
<1>1. CASE Push
  BY <1>1 DEF Push, CacheInv, CacheTypeOK, CacheNotOlder, ClientNotOlder, Release, Unreadable
<1>2. CASE UNCHANGED cacheVars
  BY <1>2 DEF cacheVars, CacheInv, CacheTypeOK, CacheNotOlder, ClientNotOlder, Release, Unreadable
<1>3. ASSUME NEW c \in Client, Ask(c) \/ LookUp(c) \/ Fetch(c) \/ Uncached(c) \/ Leave(c)
      PROVE  CacheInv'
  <2> DEFINE now == client'[c]
  <2>1. cache' = cache /\ release' = release
    BY <1>3 DEF Ask, LookUp, Fetch, Uncached, Leave
  <2>2. /\ client[c] \in [at : Step, label : Nat, files : Nat] /\ release \in Release
        /\ \A r \in Release : cache[r] \in Nat
        /\ DOMAIN client = Client
    BY DEF CacheInv, CacheTypeOK, Step
  <2>3. /\ client[c].at # "idle" => client[c].label \in Release /\ client[c].label <= release
        /\ client[c].at \in {"store", "write", "done"} => client[c].label <= client[c].files /\ client[c].files <= release
    BY DEF CacheInv, ClientNotOlder
  <2>4. /\ client' = [client EXCEPT ![c] = now]
        /\ now \in [at : Step, label : Nat, files : Nat]
        /\ now.at # "idle" => now.label \in Release /\ now.label <= release
        /\ now.at \in {"store", "write", "done"} => now.label <= now.files /\ now.files <= release
    <3>1. CASE Ask(c)
      <4>1. now = [at |-> "look", label |-> release, files |-> Unreadable]
        BY <3>1, <2>2 DEF Ask
      <4> QED BY <3>1, <4>1, <2>2 DEF Ask, Step, Release, Unreadable
    <3>2. CASE LookUp(c)
      <4>1. client[c].label \in Release
        BY <3>2, <2>3 DEF LookUp
      <4>2. CASE cache[client[c].label] # Unreadable
        <5>1. now = [client[c] EXCEPT !.at = "done", !.files = cache[client[c].label]]
          BY <3>2, <4>2, <2>2 DEF LookUp
        <5>2. client[c].label <= cache[client[c].label] /\ cache[client[c].label] <= release
          BY <4>1, <4>2 DEF CacheInv, CacheNotOlder
        <5>3. now = [at |-> "done", label |-> client[c].label, files |-> cache[client[c].label]]
          BY <5>1, <2>2
        <5>4. client' = [client EXCEPT ![c] = now]
          BY <3>2, <2>2 DEF LookUp
        <5> QED BY <5>2, <5>3, <5>4, <4>1, <2>2, <2>3, <3>2 DEF Step, LookUp
      <4>3. CASE cache[client[c].label] = Unreadable
        <5>1. now = [at |-> "fetch", label |-> client[c].label, files |-> client[c].files]
          BY <3>2, <4>3, <2>2 DEF LookUp
        <5>2. client' = [client EXCEPT ![c] = now]
          BY <3>2, <2>2 DEF LookUp
        <5> QED BY <5>1, <5>2, <4>1, <2>2, <2>3, <3>2 DEF Step, LookUp
      <4> QED BY <4>2, <4>3
    <3>3. CASE Fetch(c)
      <4>1. now = [at |-> "store", label |-> client[c].label, files |-> release]
        BY <3>3, <2>2 DEF Fetch
      <4>2. client' = [client EXCEPT ![c] = now]
        BY <3>3, <2>2 DEF Fetch
      <4> QED BY <3>3, <4>1, <4>2, <2>2, <2>3 DEF Fetch, Step, Release
    <3>4. CASE Uncached(c)
      <4>1. now = [at |-> "done", label |-> client[c].label, files |-> client[c].files]
        BY <3>4, <2>2 DEF Uncached
      <4>2. client' = [client EXCEPT ![c] = now]
        BY <3>4, <2>2 DEF Uncached
      <4> QED BY <3>4, <4>1, <4>2, <2>2, <2>3 DEF Uncached, Step, Release
    <3>5. CASE Leave(c)
      BY <3>5, <2>2, <2>3 DEF Leave, Idle, Step, Release, Unreadable
    <3> QED BY <1>3, <3>1, <3>2, <3>3, <3>4, <3>5
  <2> HIDE DEF now
  <2>5. client' \in [Client -> [at : Step, label : Nat, files : Nat]] /\ ClientNotOlder'
    BY <2>1, <2>4, CallerSteps
  <2> QED BY <2>1, <2>2, <2>5 DEF CacheInv, CacheTypeOK, CacheNotOlder, Step
<1>4. ASSUME NEW c \in Client, Truncate(c) \/ Write(c)
      PROVE  CacheInv'
  <2> DEFINE now == client'[c]
             l == client[c].label
  <2>1. /\ client[c] \in [at : Step, label : Nat, files : Nat] /\ release \in Release /\ release' = release
        /\ cache \in [Release -> Nat] /\ DOMAIN client = Client
    BY <1>4 DEF CacheInv, CacheTypeOK, Step, Truncate, Write
  <2>2. l \in Release /\ l <= client[c].files /\ client[c].files <= release /\ l <= release
    BY <1>4 DEF CacheInv, ClientNotOlder, Truncate, Write
  <2>3. PICK left \in {client[c].files, Unreadable} : cache' = [cache EXCEPT ![l] = left]
    BY <1>4 DEF Truncate, Write
  <2>4. cache' \in [Release -> Nat] /\ CacheNotOlder'
    BY <2>1, <2>2, <2>3 DEF CacheInv, CacheNotOlder, Unreadable, Release
  <2>5. /\ client' = [client EXCEPT ![c] = now]
        /\ \E next \in {"write", "done"} : now = [at |-> next, label |-> l, files |-> client[c].files]
    BY <1>4, <2>1 DEF Truncate, Write
  <2>6. /\ now \in [at : Step, label : Nat, files : Nat]
        /\ now.at # "idle" => now.label \in Release /\ now.label <= release
        /\ now.at \in {"store", "write", "done"} => now.label <= now.files /\ now.files <= release
    BY <2>1, <2>2, <2>5 DEF Step
  <2> HIDE DEF now
  <2>7. client' \in [Client -> [at : Step, label : Nat, files : Nat]] /\ ClientNotOlder'
    BY <2>1, <2>5, <2>6, CallerSteps
  <2> QED BY <2>1, <2>4, <2>7 DEF CacheInv, CacheTypeOK, Step
<1> QED BY <1>1, <1>2, <1>3, <1>4 DEF CacheNext

\* pkgbuild: however callers, kills and pushes interleave over one cache
\* directory, the files answered under a version are of that version or of a
\* later one, and never of one that is not published yet.
THEOREM LabelsAreNeverOlder == CacheSpec => []NeverOlder
<1>1. CacheInv => NeverOlder
  BY DEF CacheInv, ClientNotOlder, NeverOlder
<1> QED BY <1>1, CacheStarts, CacheSteps, PTL DEF CacheSpec

\* _read_snapshot: a snapshot that is not refused lists every file of the
\* tarball, each of them safe and one the PKGBUILD, and keeps the text of the
\* listed text files only.
THEOREM SnapshotIsWhole ==
  ASSUME NEW tar \in Seq(Member), NEW withinCaps \in BOOLEAN,
         NEW snapshot \in ReadSnapshot(tar, withinCaps)
  PROVE  /\ withinCaps
         /\ \A i \in DOMAIN tar : tar[i].file => tar[i].safe /\ tar[i].path \in snapshot.files
         /\ \A name \in snapshot.files : \E i \in DOMAIN tar : tar[i].file /\ tar[i].path = name
         /\ "PKGBUILD" \in snapshot.files \ snapshot.texts
         /\ \A name \in snapshot.texts : \E i \in DOMAIN tar : tar[i].file /\ tar[i].text /\ tar[i].path = name
  BY DEF ReadSnapshot, Regular

=============================================================================
