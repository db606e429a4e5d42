------------------------------ MODULE FixTree -------------------------------
(***************************************************************************)
(* From an agent's false-positive verdicts to a pull request:              *)
(* fp_agent.py checks each package's verdict against the snapshot,         *)
(* fp_agent_pr.py renders one pull request for the results it is given,    *)
(* and code_fixes.py gates their fixes together and applies the survivors, *)
(* one git apply after the other, to a copy of the files they name.        *)
(*                                                                         *)
(* A file's content is what the checkout had of it, if anything, and the   *)
(* sequence of fixes applied since.  A git apply that runs out of time is  *)
(* killed: it may have removed any of its files and written any of them.   *)
(***************************************************************************)
EXTENDS Naturals, Sequences, SequencesExt, FiniteSets, Listing, Evidence

CONSTANTS
  Judged,      \* the packages of an alert
  Path,        \* files a fix may touch
  Allowed,     \* those under src/trustsight/ or tests/
  Fix,         \* the distinct diffs
  Names,       \* the file each is proposed for
  Targets,     \* the files each names as its result; none if it cannot be parsed
  Creates,     \* those of them that must not be there before
  Deletes,     \* the files each deletes, which it does not name so
  Added,       \* the lines each adds
  Illegible,   \* diffs with a text or a line that the format gates refuse
  Checkout,    \* the files the checkout has
  Undecodable, \* those that are not UTF-8 there, which no diff can mend
  Cited,       \* the findings that each package's verdict is about
  Seen,        \* the snapshots the AUR may answer with
  MaxFiles,    \* MAX_FIX_FILES
  MaxAdded,    \* MAX_ADDED_LINES
  MaxFixes     \* bound on the fixes of a verdict

ASSUME FixTreeAssumption ==
  /\ Targets \in [Fix -> SUBSET Path] /\ Deletes \in [Fix -> SUBSET Path] /\ Added \in [Fix -> Nat]
  /\ Creates \in [Fix -> SUBSET Path]
  /\ \A fix \in Fix : Creates[fix] \subseteq Targets[fix] /\ Deletes[fix] \cap Targets[fix] = {}
  /\ Names \in [Fix -> Path] /\ Illegible \subseteq Fix /\ Allowed \subseteq Path
  /\ Checkout \subseteq Path /\ Undecodable \subseteq Checkout
  /\ Cited \in [Judged -> SUBSET Cite] /\ Seen \subseteq Snapshot
  /\ IsFiniteSet(Judged) /\ \A fix \in Fix : IsFiniteSet(Targets[fix]) \* a diff names so many files
  /\ MaxFiles \in Nat /\ MaxAdded \in Nat /\ MaxFixes \in Nat \ {0}

VARIABLES
  phase,    \* the step of the rendering
  result,   \* each package's checked verdict
  data,     \* the suppressions, reports or indicators in the pull request
  queue,    \* the fixes still to gate, then to apply
  seen,     \* which diff each gated path belongs to
  total,    \* lines added by the gated ones
  accepted, \* the gated ones, in order
  fixes,    \* the applied ones, as the pull request lists them
  tree,     \* the temporary tree: each file's content, or Missing
  published \* the sources in the pull request

gateVars == <<seen, total, accepted>>
applyVars == <<fixes, tree, published>>
prVars == <<phase, result, data, queue, gateVars, applyVars>>

Content(base, list) == [base |-> base, fixes |-> list]
Missing == Content(FALSE, <<>>)
Steps == {"verdicts", "gate", "apply", "done", "raised"}
Lists == BoundedSeq(Fix, MaxFixes)

\* What render_pr_content requires of a result: the table of an FP, the
\* indicators of a TP.
Result == [kind : {"none", "FP", "TP", "uncertain"}, verified : BOOLEAN, complete : BOOLEAN, fixes : Seq(Fix)]

PrTypeOK ==
  /\ phase \in Steps /\ result \in [Judged -> Result] /\ data \subseteq {"suppression", "report", "indicators"} \X Judged
  /\ queue \in Seq(Fix) /\ accepted \in Seq(Fix) /\ fixes \in Seq(Fix)
  /\ DOMAIN seen \subseteq Path /\ Range(seen) \subseteq Fix /\ total \in Nat
  /\ DOMAIN tree \subseteq Path /\ DOMAIN published \subseteq Path

NoResult == [kind |-> "none", verified |-> FALSE, complete |-> FALSE, fixes |-> <<>>]

PrInit ==
  /\ phase = "verdicts" /\ result = [p \in Judged |-> NoResult] /\ data = {}
  /\ queue = <<>> /\ seen = <<>> /\ total = 0 /\ accepted = <<>>
  /\ fixes = <<>> /\ tree = <<>> /\ published = <<>>

(***************************************************************************)
(* verify_agent_verdict: a malformed verdict raises and leaves no result.  *)
(***************************************************************************)
PathAllowed(path) == path \in Allowed
WellFormed(fix) == PathAllowed(Names[fix]) /\ fix \notin Illegible /\ Added[fix] > 0

Adjudicated(p, kind, verified, complete, list) ==
  /\ phase = "verdicts" /\ result[p].kind = "none"
  /\ result' = [result EXCEPT ![p] = [kind |-> kind, verified |-> verified, complete |-> complete, fixes |-> list]]
  /\ UNCHANGED <<phase, data, queue, gateVars, applyVars>>

\* A false positive must bring a fix, and the findings it cites are replayed
\* against the snapshot; without one the result has neither table nor fixes.
Fp(p, list) ==
  /\ list # <<>> /\ \A i \in DOMAIN list : WellFormed(list[i])
  /\ \/ Adjudicated(p, "FP", FALSE, FALSE, <<>>)
     \/ \E snapshot \in Seen : Adjudicated(p, "FP", Contradictions(Cited[p], snapshot) = {}, TRUE, list)

\* A true positive whose indicators are in order keeps them although its
\* package cannot be looked up.
Tp(p) == \E indicators, found \in BOOLEAN : Adjudicated(p, "TP", indicators /\ found, indicators, <<>>)

Uncertain(p) == Adjudicated(p, "uncertain", FALSE, FALSE, <<>>)

(***************************************************************************)
(* render_pr_content, of one result or of several false positives.  It     *)
(* does not look at "verified": that is left to its caller.                *)
(***************************************************************************)
Fits(p, target) ==
  /\ result[p].complete
  /\ result[p].kind = "FP" \/ (result[p].kind = "TP" /\ target = "trustsight")

Raised == phase' = "raised" /\ UNCHANGED <<result, data, queue, gateVars, applyVars>>

\* Text that the format gate refuses, a result without what its kind needs,
\* or a kind the target does not take raises before any fix is looked at.
RenderRaises == phase = "verdicts" /\ (\E p \in Judged : result[p].kind # "none") /\ Raised

\* The results are the caller's, who may have left them as they were or not:
\* a fix that reaches the gate need not have been through Fp.
RenderFp(order, target, extra) ==
  /\ phase = "verdicts" /\ \A i \in DOMAIN order : result[order[i]].kind = "FP" /\ Fits(order[i], target)
  /\ data' = {IF target = "trustsight" THEN "suppression" ELSE "report"} \X ToSet(order)
  /\ phase' = IF target = "trustsight" THEN "gate" ELSE "done"
  /\ queue' = IF target = "trustsight" THEN FlattenSeq([i \in DOMAIN order |-> result[order[i]].fixes]) \o extra ELSE queue
  /\ UNCHANGED <<result, gateVars, applyVars>>

RenderTp(p, target) ==
  /\ phase = "verdicts" /\ result[p].kind = "TP" /\ Fits(p, target)
  /\ data' = {<<"indicators", p>>} /\ phase' = "done"
  /\ UNCHANGED <<result, queue, gateVars, applyVars>>

(***************************************************************************)
(* validate_and_apply: the gate.                                           *)
(***************************************************************************)
Taken(fix) == Targets[fix] \cap DOMAIN seen

\* Mutant: the lines of the fixes before it are not counted.
RefusedAlone(fix) ==
  \/ ~WellFormed(fix) \/ Targets[fix] = {} \/ \E t \in Targets[fix] : ~PathAllowed(t)
  \/ Cardinality(DOMAIN seen \cup Targets[fix]) > MaxFiles
  \/ Added[fix] > MaxAdded
  \/ \E t \in Taken(fix) : seen[t] # fix

\* The caps come before the test for a fix that is there already.
Refused(fix) ==
  \/ ~WellFormed(fix) \/ Targets[fix] = {} \/ \E t \in Targets[fix] : ~PathAllowed(t)
  \/ Cardinality(DOMAIN seen \cup Targets[fix]) > MaxFiles
  \/ total + Added[fix] > MaxAdded
  \/ \E t \in Taken(fix) : seen[t] # fix

Gate(fix) ==
  LET new == ~Refused(fix) /\ Taken(fix) = {}
  IN /\ phase = "gate" /\ queue # <<>> /\ fix = Head(queue)
     /\ queue' = Tail(queue)
     /\ accepted' = IF new THEN Append(accepted, fix) ELSE accepted
     /\ seen' = IF new THEN [t \in DOMAIN seen \cup Targets[fix] |-> IF t \in Targets[fix] THEN fix ELSE seen[t]]
                ELSE seen
     /\ total' = IF new THEN total + Added[fix] ELSE total
     /\ UNCHANGED <<phase, result, data, applyVars>>

\* The tree holds the files the accepted fixes name; with no checkout to copy
\* them from, they are all refused.
Seed(checkout) ==
  /\ phase = "gate" /\ queue = <<>>
  /\ IF checkout
       THEN phase' = "apply" /\ queue' = accepted /\ tree' = [t \in DOMAIN seen |-> Content(t \in Checkout, <<>>)]
       ELSE phase' = "done" /\ UNCHANGED <<queue, tree>>
  /\ UNCHANGED <<result, data, gateVars, fixes, published>>

(***************************************************************************)
(* validate_and_apply: the temporary tree.                                 *)
(***************************************************************************)
Touched(fix) == Targets[fix] \cup Deletes[fix]
Patched(fix, t) == IF t \in Deletes[fix] THEN Missing ELSE Content(tree[t].base, Append(tree[t].fixes, fix))

\* git wants the files it changes or deletes to be there and those it creates
\* not to be; one that an earlier fix deleted can be created again.
Applies(fix) ==
  /\ phase = "apply" /\ queue # <<>> /\ fix = Head(queue)
  /\ Deletes[fix] \subseteq DOMAIN tree
  /\ \A t \in Touched(fix) : tree[t] = Missing <=> t \in Creates[fix]
  /\ tree' = [t \in DOMAIN tree |-> IF t \in Touched(fix) THEN Patched(fix, t) ELSE tree[t]]
  /\ fixes' = Append(fixes, fix) /\ queue' = Tail(queue)
  /\ UNCHANGED <<phase, result, data, gateVars, published>>

\* Mutant: the fix is listed before the exit code of git is looked at.
FailsListed(fix) ==
  /\ phase = "apply" /\ queue # <<>> /\ fix = Head(queue)
  /\ fixes' = Append(fixes, fix) /\ queue' = Tail(queue)
  /\ UNCHANGED <<phase, result, data, gateVars, published, tree>>

\* git refuses the patch before it writes, or cannot be run.
Fails(fix) ==
  /\ phase = "apply" /\ queue # <<>> /\ fix = Head(queue)
  /\ queue' = Tail(queue)
  /\ UNCHANGED <<phase, result, data, gateVars, applyVars>>

\* A file past the read cap, or a portal that fails before the deadline.
ApplyRaises == phase = "apply" /\ queue # <<>> /\ Raised

Torn(fix, t) == IF t \in Touched(fix) THEN {tree[t], Patched(fix, t), Missing} ELSE {tree[t]}

\* The deadline kills git: the files are put back, but the comparison with a
\* file that git had removed raises, and there is no pull request.
Killed(fix) ==
  /\ phase = "apply" /\ queue # <<>> /\ fix = Head(queue)
  /\ \E torn \in [DOMAIN tree -> UNION {Torn(fix, t) : t \in DOMAIN tree}] :
       /\ \A t \in DOMAIN tree : torn[t] \in Torn(fix, t)
       /\ IF \E t \in DOMAIN tree : torn[t] = Missing /\ tree[t] # Missing
            THEN Raised
            ELSE queue' = Tail(queue) /\ UNCHANGED <<phase, result, data, gateVars, applyVars>>

Changed == UNION {Targets[fix] : fix \in ToSet(fixes)}

\* The content of every changed file goes into the pull request, except one
\* that is not UTF-8, whose fix stays listed; one that an applied fix has
\* deleted since raises.
NotText(t) == t \in Undecodable /\ tree[t].base

Collect ==
  /\ phase = "apply" /\ queue = <<>>
  /\ IF \E t \in Changed : tree[t] = Missing THEN phase' = "raised" /\ UNCHANGED published
     ELSE phase' = "done" /\ published' = [t \in {c \in Changed : ~NotText(c)} |-> tree[t]]
  /\ UNCHANGED <<result, data, queue, gateVars, fixes, tree>>

Adjudicate == phase = "verdicts" /\ \E p \in Judged : (\E list \in Lists : Fp(p, list)) \/ Tp(p) \/ Uncertain(p)

Render(target) ==
  /\ phase = "verdicts"
  /\ \/ \E order \in SetToAllKPermutations(Judged) \ {<<>>}, extra \in {<<>>} \cup {<<f>> : f \in {g \in Fix : ~WellFormed(g)}} :
          RenderFp(order, target, extra)
     \/ \E p \in Judged : RenderTp(p, target)

PrNext ==
  \/ Adjudicate \/ (\E target \in {"trustsight", "trustsight-harness"} : Render(target)) \/ RenderRaises
  \/ (\E fix \in Fix : Gate(fix) \/ Applies(fix) \/ Fails(fix) \/ Killed(fix))
  \/ (\E checkout \in BOOLEAN : Seed(checkout)) \/ ApplyRaises \/ Collect

PrSpec == PrInit /\ [][PrNext]_prVars

(***************************************************************************)
(* Properties.                                                             *)
(***************************************************************************)
Naming(t) == {fix \in Fix : t \in Targets[fix]}

\* What the pull request has of the checkout's text of a file.
Based(t) == t \in Checkout /\ \A fix \in ToSet(fixes) : t \notin Deletes[fix]

\* Each source in the pull request is the checkout's, or starts from nothing if
\* the checkout has none or a listed fix deleted it, with exactly the listed
\* fixes that name it: nothing is left of a fix that was refused, that did not
\* apply or was killed half way, and all of it is allowed.  Every file that a
\* listed fix names is there, except those that are not UTF-8: a listed fix
\* that also changes such a file is published in part.  That a listed fix
\* deletes a file is not published at all.
PublishedIsListed ==
  phase = "done" =>
    /\ DOMAIN published = {t \in Changed : ~(t \in Undecodable /\ Based(t))} /\ DOMAIN published \subseteq Allowed
    /\ \A t \in DOMAIN published : published[t] = Content(Based(t), Filtered(fixes, Naming(t)))

\* However many packages it is about, a pull request lists at most one fix
\* for a file and keeps to the caps.
WithinCaps ==
  /\ \A i, j \in DOMAIN fixes : i # j => Targets[fixes[i]] \cap Targets[fixes[j]] = {}
  /\ Cardinality(Changed) <= MaxFiles /\ Total(fixes, Added) <= MaxAdded

=============================================================================
