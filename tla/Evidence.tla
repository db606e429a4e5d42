------------------------------ MODULE Evidence ------------------------------
(***************************************************************************)
(* What a package's current snapshot says of a finding (fp_triage.py, as   *)
(* fp_agent.py replays it).  Every answer has three values: a recipe whose *)
(* sources cannot all be read establishes no absence.                      *)
(***************************************************************************)
ThreeValued == {"yes", "no", "unknown"}

CONSTANTS Url,         \* the URLs that findings and recipes name
          Filename,    \* the install scripts they name
          NoFile

ASSUME EvidenceAssumption == NoFile \notin Filename

\* What is read of a snapshot: the literal source entries, whether some
\* assignment is dynamic, unresolved or missing, and the files.
Snapshot == [sources : SUBSET Url, opaque : BOOLEAN, files : SUBSET Filename]

\* What a finding cites.
Cite == [rule : {"phantom", "source", "other"}, urls : SUBSET Url, file : Filename \cup {NoFile}]

InSource(url, snapshot) ==
  IF url \in snapshot.sources THEN "yes" ELSE IF snapshot.opaque THEN "unknown" ELSE "no"

\* check_url_in_source: some URL of the finding is no source of the recipe.
Misclassified(finding, snapshot) ==
  LET answers == {InSource(url, snapshot) : url \in finding.urls}
  IN IF answers = {} \/ "unknown" \in answers THEN "unknown"
     ELSE IF "no" \in answers THEN "yes" ELSE "no"

\* check_phantom_install: the install script of the finding is not there.
Phantom(finding, snapshot) ==
  IF finding.file = NoFile THEN "unknown" ELSE IF finding.file \in snapshot.files THEN "no" ELSE "yes"

\* _fp_evidence: the findings that the snapshot shows to be right, each by
\* the one check for its rule.
Contradictions(findings, snapshot) ==
  {f \in findings : \/ f.rule = "phantom" /\ Phantom(f, snapshot) = "yes"
                    \/ f.rule = "source" /\ Misclassified(f, snapshot) = "yes"}

\* The sources the recipe may really have.
Possible(snapshot) == {real \in SUBSET Url : snapshot.sources \subseteq real /\ (~snapshot.opaque => real = snapshot.sources)}

=============================================================================
