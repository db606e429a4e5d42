------------------------------ MODULE Readings ------------------------------
(***************************************************************************)
(* What a bypass and a suite are said to be after the verdict: the layers  *)
(* that never got a shot (harness/layer_audit.py), the warm replay of a    *)
(* record's bypasses (harness/reclassify.py), and the rules the suite      *)
(* sets out to test (harness/coverage.py).                                 *)
(***************************************************************************)
EXTENDS Integers, FiniteSets

Layer == 1..8          \* the evidence categories L1 to L8
History == 6           \* stored observations
Indicators == 7        \* the imported baseline
Correlation == 8       \* the pass over all packages
BuildLane == 9         \* L9, which is no evidence category

\* A layer's row of the report, and the run's recorded configuration.
LayerInfo == [fired : BOOLEAN, coverage : {"complete", "partial", "not_applicable"}]
Settings == [db : {"cold", "seeded", "snapshot"}, accumulate : BOOLEAN, ioc : BOOLEAN,
             lane : BOOLEAN, removed : SUBSET Layer]

Warm(settings) == settings.accumulate \/ settings.db \in {"seeded", "snapshot"}

\* audit: why a layer that did not fire was not exercised, in the order of
\* the tests.  The correlation pass is blind, not inapplicable.
Reason(layer, info, settings) ==
  IF info.fired THEN "exercised"
  ELSE IF layer \in settings.removed THEN "config"
  ELSE IF \/ layer = History /\ ~Warm(settings)
          \/ layer = Indicators /\ ~settings.ioc
          \/ layer = Correlation /\ info.coverage = "not_applicable" THEN "cold_state"
  ELSE IF info.coverage = "not_applicable" THEN "shape_inapplicable" ELSE "exercised"

ConditionalReasons == {"cold_state", "lane_disabled", "config"}

LaneReason(settings) == IF settings.lane THEN "exercised" ELSE "lane_disabled"

Audit(layers, settings) ==
  [l \in Layer \cup {BuildLane} |->
     IF l = BuildLane THEN LaneReason(settings) ELSE Reason(l, layers[l], settings)]

\* run_campaign audits a new bypass alone, or nothing when the configuration
\* cannot be read; suppressions and overrides empty a layer.
BypassAudit(status, layers, settings, suppressed, empty, readable) ==
  IF status = "bypass" /\ readable
    THEN {Audit(layers, [settings EXCEPT !.lane = FALSE, !.removed = suppressed \cup empty])} ELSE {}

\* The layers that make a bypass conditional: FULL-N, N of them.
Blinded(audit) == {l \in DOMAIN audit : audit[l] \in ConditionalReasons}
Classification(audit) == IF Blinded(audit) = {} THEN "full" ELSE "conditional"

\* reason_summary: a bypass counts once per distinct reason it carries.
ReasonSummary(audits) ==
  [r \in ConditionalReasons |->
     Cardinality({i \in DOMAIN audits : \E l \in Blinded(audits[i]) : audits[i][l] = r})]

-----------------------------------------------------------------------------
\* An entry of the evidence: its status, which sides of the attempt it
\* recorded, and whether its diff can be parsed.
Entry == [status : {"bypass", "other"}, new : BOOLEAN, old : BOOLEAN, parses : BOOLEAN]

\* _texts: one side alone is completed from the diff or not replayed.
Texts(entry) ==
  IF entry.new /\ entry.old THEN "recorded" ELSE IF entry.parses THEN "reconstructed" ELSE "none"

\* _firing_layer: the first layer that fired, 0 when the score alone did.
FiringLayer(layers) ==
  IF \E l \in Layer : layers[l].fired
    THEN CHOOSE l \in Layer : layers[l].fired /\ \A m \in Layer : layers[m].fired => l <= m
    ELSE 0

\* What run_reclassify says of its own replays: the build lane did not run.
Replayed(settings) == [settings EXCEPT !.lane = FALSE, !.removed = {}]

\* reclassify, one bypass: the list its warm report puts it in.
Bucket(entry, report, settings) ==
  IF Texts(entry) = "none" THEN "skipped"
  ELSE IF report.flagged THEN "promotions"
  ELSE IF Classification(Audit(report.layers, settings)) = "full" THEN "confirmed_full"
  ELSE "still_conditional"

\* The artifact: the lists by the index of the entry.
Reclassified(entries, reports, settings) ==
  [bucket \in {"skipped", "promotions", "confirmed_full", "still_conditional"} |->
     {i \in DOMAIN entries : entries[i].status = "bypass" /\ Bucket(entries[i], reports[i], settings) = bucket}]

\* The bypasses that are analysed again, in the order of the entries.
Replays(entries) == {i \in DOMAIN entries : entries[i].status = "bypass" /\ Texts(entries[i]) # "none"}

\* run_reclassify: a cold instrument is refused, and a restore or an analysis
\* that raises ends the run before anything is written; *raises* are the
\* replays it would happen to.  The record is only read.
RunReclassify(entries, reports, raises, settings) ==
  IF Warm(settings) /\ Replays(entries) \cap raises = {}
    THEN {Reclassified(entries, reports, Replayed(settings))} ELSE {}

-----------------------------------------------------------------------------
\* build_coverage: campaigns are the sets of rules they name.
Targeted(campaigns) == UNION campaigns
Untargeted(campaigns, contract) == contract \ Targeted(campaigns)
UnknownExpected(campaigns, contract) == Targeted(campaigns) \ contract

\* The unprobed rules that have a reason beside them.
Unreachable(campaigns, contract, unreachable) == Untargeted(campaigns, contract) \cap unreachable

ByCategory(campaigns, contract, category) ==
  [c \in {category[r] : r \in contract} |->
     LET of == {r \in contract : category[r] = c}
     IN [total |-> Cardinality(of), targeted |-> Cardinality(of \cap Targeted(campaigns)),
         untargeted |-> of \ Targeted(campaigns)]]

=============================================================================
