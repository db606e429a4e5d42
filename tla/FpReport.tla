------------------------------ MODULE FpReport ------------------------------
(***************************************************************************)
(* A day's directory of false-positive reports: fp_triage.py gathers an    *)
(* alert's evidence, an agent judges its findings, fp_report.py merges the *)
(* judgments and a reproducer into benign/fp-<day>/, and fp_fix.py         *)
(* verifies, without a lock, what is registered there.                     *)
(*                                                                         *)
(* A report writes several files, each atomically and the mapping last; it *)
(* may be killed, or fail, between any two of them.                        *)
(***************************************************************************)
EXTENDS Naturals, Functions, FiniteSets

CONSTANTS
  Entry,       \* the (alert, package) pairs of the day
  Alert, Package, Base, \* what each is about, and the package's base
  Finding,     \* the findings of a package, by index
  Judgment,    \* the verdicts a report may carry for a package
  Diff,        \* the reproducers
  Passes,      \* those the current rules let through, analysed completely
  NoDiff, Everything,
  Version,     \* the releases of a base that evidence may be gathered from
  Writer,      \* the threads and processes that report
  MaxReports,  \* bound on reports
  MaxBreaks    \* bound on kills and failed writes

\* "benign" stands for FP, TP-but-benign and overweighted, "open" for TP and
\* uncertain; a judgment need not cover every finding.
Verdict == {"none", "benign", "open"}

ASSUME FpReportAssumption ==
  /\ Judgment \subseteq [Finding -> Verdict] /\ Passes \subseteq Range(Package) \X Diff /\ NoDiff \notin Diff
  /\ Everything \notin Entry /\ DOMAIN Package = Entry
  /\ Entry \cap (Range(Package) \X Diff) = {}  \* reports and reproducers have names of their own
  /\ "failed" \notin Version /\ MaxReports \in Nat /\ MaxBreaks \in Nat

VARIABLES
  mapping,  \* triage.json
  files,    \* the reports and reproducers in the directory
  lock,     \* the holders of .triage.lock
  writer,   \* each writer's step, request and merged mapping
  verifier, \* the verification in progress, with what it has read
  reports, breaks

vars == <<mapping, files, lock, writer, verifier, reports, breaks>>

Evidence == Version \cup {"failed"}
Corpus == Range(Package) \X Diff \* a reproducer's file is named for its package
Record == [evidence : Evidence, verdict : [Finding -> Verdict], corpus : SUBSET Corpus]
IsMapping(m) == DOMAIN m \subseteq Entry /\ \A e \in DOMAIN m : m[e] \in Record

Idle == [at |-> "idle", plan |-> <<>>, judged |-> <<>>, evidence |-> <<>>, diff |-> NoDiff]
Ready == [at |-> "idle", target |-> Everything, read |-> <<>>, listed |-> <<>>]

TypeOK ==
  /\ IsMapping(mapping) /\ files \subseteq Entry \cup Corpus
  /\ lock \subseteq Writer /\ reports \in 0..MaxReports /\ breaks \in 0..MaxBreaks
  /\ \A w \in Writer : writer[w].at \in {"idle", "lock", "merge", "report", "corpus", "map"}
  /\ verifier.at \in {"idle", "read", "list", "analyse", "verified", "refused"}

Init ==
  /\ mapping = <<>> /\ files = {} /\ lock = {}
  /\ writer = [w \in Writer |-> Idle] /\ verifier = Ready
  /\ reports = 0 /\ breaks = 0

Step(w, at) == writer' = [writer EXCEPT ![w].at = at]
Retire(w) == writer' = [writer EXCEPT ![w] = Idle] /\ lock' = lock \ {w}

(***************************************************************************)
(* Evidence and reports.                                                   *)
(***************************************************************************)
\* What triage_alert can have answered about packages of an alert, whenever
\* it was asked: a failure stays with its package, a base is fetched once.
Gathered(chosen) ==
  {evidence \in [chosen -> Evidence] :
     \A e, f \in chosen : Base[e] = Base[f] /\ "failed" \notin {evidence[e], evidence[f]} => evidence[e] = evidence[f]}

\* What _selection accepts: packages of one alert, each with a finding
\* judged, and a reproducer only for a single package.
Ask(w, chosen, diff) ==
  /\ writer[w].at = "idle" /\ reports < MaxReports
  /\ chosen # {} /\ Cardinality({Alert[e] : e \in chosen}) = 1
  /\ diff # NoDiff => Cardinality(chosen) = 1
  /\ \E judged \in [chosen -> Judgment], evidence \in Gathered(chosen) :
       writer' = [writer EXCEPT ![w] =
                    [at |-> "lock", plan |-> <<>>, judged |-> judged, evidence |-> evidence, diff |-> diff]]
  /\ reports' = reports + 1
  /\ UNCHANGED <<mapping, files, lock, verifier, breaks>>

\* Mutant: a writer that has waited long enough writes all the same.
LockImpatiently(w) ==
  /\ writer[w].at = "lock"
  /\ lock' = lock \cup {w} /\ Step(w, "merge")
  /\ UNCHANGED <<mapping, files, verifier, reports, breaks>>

Lock(w) ==
  /\ writer[w].at = "lock" /\ lock = {}
  /\ lock' = lock \cup {w} /\ Step(w, "merge")
  /\ UNCHANGED <<mapping, files, verifier, reports, breaks>>

TimesOut(w) ==
  /\ writer[w].at = "lock" /\ lock # {}
  /\ Retire(w)
  /\ UNCHANGED <<mapping, files, verifier, reports, breaks>>

Old(e) == IF e \in DOMAIN mapping THEN mapping[e] ELSE [verdict |-> [i \in Finding |-> "none"], corpus |-> {}]

Reproducer(request, e) == IF request.diff = NoDiff THEN {} ELSE {<<Package[e], request.diff>>}

\* The later verdict of a finding replaces the earlier one.
Merged(e, request) ==
  [evidence |-> request.evidence[e],
   verdict  |-> [i \in Finding |-> IF request.judged[e][i] # "none" THEN request.judged[e][i] ELSE Old(e).verdict[i]],
   corpus   |-> Old(e).corpus \cup Reproducer(request, e)]

Benign(verdict) == \A i \in Finding : verdict[i] = "benign"

\* Mutant: only a report that brings a reproducer must be benign.
AcceptedWhenNew(e, request) ==
  /\ e \in DOMAIN mapping => mapping[e].evidence = request.evidence[e]
  /\ request.diff # NoDiff => Benign(Merged(e, request).verdict)

\* Evidence may not change under the verdicts, and an entry with a reproducer
\* has every finding judged benign.
Accepted(e, request) ==
  /\ e \in DOMAIN mapping => mapping[e].evidence = request.evidence[e]
  /\ Merged(e, request).corpus # {} => Benign(Merged(e, request).verdict)

Merge(w) ==
  LET request == writer[w]
      chosen == DOMAIN request.judged
      plan == [e \in DOMAIN mapping \cup chosen |-> IF e \in chosen THEN Merged(e, request) ELSE mapping[e]]
  IN /\ writer[w].at = "merge"
     /\ IF \A e \in chosen : Accepted(e, request)
          THEN /\ writer' = [writer EXCEPT ![w] = [at |-> "report", plan |-> plan, judged |-> request.judged,
                                                   evidence |-> request.evidence, diff |-> request.diff]]
               /\ UNCHANGED lock
          ELSE Retire(w)
     /\ UNCHANGED <<mapping, files, verifier, reports, breaks>>

\* The reports one after the other, then the reproducer, then the mapping; a
\* report that is there already is replaced, which changes nothing here.
WriteReport(w, e) ==
  /\ writer[w].at = "report"
  /\ e \in DOMAIN writer[w].judged
  /\ files' = files \cup {e}
  /\ Step(w, IF DOMAIN writer[w].judged \subseteq files' THEN "corpus" ELSE "report")
  /\ UNCHANGED <<mapping, lock, verifier, reports, breaks>>

\* Mutant: the reproducer is written once the mapping names it.
WriteCorpusLate(w) ==
  /\ writer[w].at = "corpus"
  /\ mapping' = writer[w].plan
  /\ Step(w, "map")
  /\ UNCHANGED <<files, lock, verifier, reports, breaks>>

WriteCorpus(w) ==
  /\ writer[w].at = "corpus"
  /\ files' = files \cup UNION {Reproducer(writer[w], e) : e \in DOMAIN writer[w].judged}
  /\ Step(w, "map")
  /\ UNCHANGED <<mapping, lock, verifier, reports, breaks>>

WriteMapping(w) ==
  /\ writer[w].at = "map"
  /\ mapping' = writer[w].plan
  /\ Retire(w)
  /\ UNCHANGED <<files, verifier, reports, breaks>>

\* A kill, or a write that fails: the lock is released either way.
Break(w) ==
  /\ breaks < MaxBreaks /\ writer[w].at \in {"merge", "report", "corpus", "map"}
  /\ breaks' = breaks + 1
  /\ Retire(w)
  /\ UNCHANGED <<mapping, files, verifier, reports>>

(***************************************************************************)
(* verify_report, of the mapping or of one report.                         *)
(***************************************************************************)
Corpora(map, selected) == UNION {map[e].corpus : e \in selected}
Selected(v) == IF v.target = Everything THEN DOMAIN v.read ELSE {v.target} \cap DOMAIN v.read

Open(target) ==
  /\ verifier.at = "idle" /\ DOMAIN mapping # {}
  /\ target \in {Everything} \cup files
  /\ verifier' = [Ready EXCEPT !.at = "read", !.target = target, !.read = mapping]
  /\ UNCHANGED <<mapping, files, lock, writer, reports, breaks>>

\* Every entry's files must be there, and a selected entry must have some.
ReadFiles ==
  LET v == verifier
      whole == DOMAIN v.read \cup Corpora(v.read, DOMAIN v.read) \subseteq files
      some == Selected(v) # {} /\ \A e \in Selected(v) : v.read[e].corpus # {}
  IN /\ v.at = "read"
     /\ verifier' = [v EXCEPT !.at = IF whole /\ some THEN "list" ELSE "refused"]
     /\ UNCHANGED <<mapping, files, lock, writer, reports, breaks>>

\* Mutant: diffs that no entry names are ignored.
ListRegistered ==
  /\ verifier.at = "list"
  /\ verifier' = [verifier EXCEPT !.listed = mapping, !.at = "analyse"]
  /\ UNCHANGED <<mapping, files, lock, writer, reports, breaks>>

\* A reproducer that no entry names refuses the whole directory.
List ==
  /\ verifier.at = "list"
  /\ verifier' = [verifier EXCEPT !.listed = mapping,
                    !.at = IF files \ Entry \subseteq Corpora(verifier.read, DOMAIN verifier.read)
                             THEN "analyse" ELSE "refused"]
  /\ UNCHANGED <<mapping, files, lock, writer, reports, breaks>>

Analyse ==
  /\ verifier.at = "analyse"
  /\ verifier' = [verifier EXCEPT !.at = IF Corpora(verifier.read, Selected(verifier)) \subseteq Passes
                                           THEN "verified" ELSE "refused"]
  /\ UNCHANGED <<mapping, files, lock, writer, reports, breaks>>

Answer ==
  /\ verifier.at \in {"verified", "refused"}
  /\ verifier' = Ready
  /\ UNCHANGED <<mapping, files, lock, writer, reports, breaks>>

Writes(w) ==
  \/ (\E chosen \in SUBSET Entry, diff \in Diff \cup {NoDiff} : Ask(w, chosen, diff)) \/ Lock(w) \/ TimesOut(w) \/ Merge(w)
  \/ (\E e \in Entry : WriteReport(w, e)) \/ WriteCorpus(w) \/ WriteMapping(w) \/ Break(w)

Next ==
  \/ \E w \in Writer : Writes(w)
  \/ (\E target \in Entry \cup {Everything} : Open(target)) \/ ReadFiles \/ List \/ Analyse \/ Answer

Spec == Init /\ [][Next]_vars

(***************************************************************************)
(* Properties.                                                             *)
(***************************************************************************)
\* Whatever is killed, and wherever, the mapping names only files that are
\* in the directory, and an entry keeps a reproducer only while every one of
\* its findings is judged benign.
MappingHolds ==
  \A e \in DOMAIN mapping :
    {e} \cup mapping[e].corpus \subseteq files /\ (mapping[e].corpus # {} => Benign(mapping[e].verdict))

\* No report, however it interleaves with another, loses an entry, a verdict
\* or a reproducer of it, or the evidence its verdicts were given on.
NothingForgotten ==
  [][\A e \in DOMAIN mapping :
       /\ e \in DOMAIN mapping' /\ mapping'[e].evidence = mapping[e].evidence
       /\ mapping[e].corpus \subseteq mapping'[e].corpus
       /\ \A i \in Finding : mapping[e].verdict[i] # "none" => mapping'[e].verdict[i] # "none"]_vars

\* A verification that succeeds has analysed every reproducer registered for
\* its entries when it listed the directory, although it read the mapping
\* before and takes no lock; one that serves two alerts may be registered
\* for the second behind its back.
VerifiedMissesNone ==
  verifier.at = "verified" =>
    \A e \in DOMAIN verifier.listed :
      verifier.listed[e].corpus \subseteq Corpora(verifier.read, DOMAIN verifier.read)
      /\ (verifier.target = Everything => verifier.listed[e].corpus \subseteq Passes)

=============================================================================
