------------------------------- MODULE Corpus -------------------------------
(***************************************************************************)
(* The committed corpus: campaigns/*/record.json and evidence.jsonl, as    *)
(* successive and overlapping runs of the campaigns rewrite them (a sweep  *)
(* runs them in parallel, harness/sweep.py) while TrustSight is upgraded.  *)
(* A run reads every record to learn which bypasses are known, truncates   *)
(* its own evidence, appends to it attempt by attempt, and rewrites its    *)
(* record at the end; it can be killed, or abort, between any two steps.   *)
(* What the regression gate replays is read back from both files.          *)
(***************************************************************************)
EXTENDS Naturals, Sequences, FiniteSetsExt

CONSTANTS
  Campaign,   \* the campaign directories, numbered in the order they sort
  Digest,     \* the hashes of the diffs
  Yields,     \* the diffs each campaign's generator produces, in order
  Open,       \* the diffs that each TrustSight version lets through
  MaxRuns,    \* bound on the runs started
  MaxStops    \* bound on kills and aborts

Version == DOMAIN Open

ASSUME CorpusAssumption ==
  /\ Campaign \subseteq Nat /\ IsFiniteSet(Campaign)
  /\ Version \subseteq Nat /\ 1 \in Version
  /\ Open \in [Version -> SUBSET Digest]
  /\ Yields \in [Campaign -> Seq(Digest)]
  /\ MaxRuns \in Nat /\ MaxStops \in Nat

VARIABLES
  version,   \* the TrustSight version installed
  record,    \* each campaign's record.json
  evidence,  \* the diffs in each campaign's evidence.jsonl
  pc,        \* where each campaign's latest run is
  run,       \* that run's memory
  runs,      \* runs started, bounded by MaxRuns
  stops,     \* kills and aborts, bounded by MaxStops
  met,       \* ghost: the pairs of campaigns that were running at once
  published  \* ghost: the finds any record ever published

vars == <<version, record, evidence, pc, run, runs, stops, met, published>>

Origin == [version : Version, campaign : Campaign]
\* The diffs a set of files is about, each with the find it goes back to.
IsIndex(f) == DOMAIN f \subseteq Digest /\ \A d \in DOMAIN f : f[d] \in Origin
IsRecord(r) ==
  /\ DOMAIN r = {"state", "version", "finds", "matches"}
  /\ r.state \in {"none", "torn", "whole"} /\ r.version \in Version /\ r.finds \subseteq Digest /\ IsIndex(r.matches)
IsRun(r) ==
  /\ DOMAIN r = {"version", "known", "next", "seen", "finds", "matches", "measured"}
  /\ r.version \in Version /\ r.next \in Nat \ {0}
  /\ IsIndex(r.known) /\ IsIndex(r.matches)
  /\ \A s \in {r.seen, r.finds, r.measured} : s \subseteq Digest

TypeOK ==
  /\ version \in Version
  /\ DOMAIN record = Campaign
  /\ \A c \in Campaign : IsRecord(record[c])
  /\ evidence \in [Campaign -> SUBSET Digest]
  /\ pc \in [Campaign -> {"new", "run", "write", "done", "stopped"}]
  /\ DOMAIN run = Campaign /\ \A c \in Campaign : IsRun(run[c])
  /\ runs \in 0..MaxRuns /\ stops \in 0..MaxStops
  /\ met \subseteq SUBSET Campaign
  /\ published \subseteq Campaign \X Digest \X Version

-----------------------------------------------------------------------------
(* What the files say. *)

NoOrigins == [d \in {} |-> d]
\* A record.json that does not exist, and one that was opened for writing and
\* not yet written: they mention nothing.
NoRecord == [state |-> "none", version |-> 1, finds |-> {}, matches |-> NoOrigins]
Torn == [state |-> "torn", version |-> 1, finds |-> {}, matches |-> NoOrigins]

Readable(c) == record[c].state = "whole"
Mentions(c) == record[c].finds \cup DOMAIN record[c].matches

\* Mutant: a known match is indexed as a find of the record it stands in.
OriginInRecordItself(c, d) == [version |-> record[c].version, campaign |-> c]
OriginIn(c, d) ==
  IF d \in record[c].finds
    THEN [version |-> record[c].version, campaign |-> c]
    ELSE record[c].matches[d]

\* Mutant: only the records of the installed version are indexed.
KnownOfThisVersion ==
  LET read == {c \in Campaign : Readable(c) /\ record[c].version = version}
  IN [d \in UNION {Mentions(c) : c \in read} |->
        OriginIn(Min({c \in read : d \in Mentions(c)}), d)]
\* KnownBypasses: the first record in sorted order that mentions a diff says
\* where it comes from; a record that does not parse is passed over.
Known ==
  [d \in UNION {Mentions(c) : c \in Campaign} |->
     OriginIn(Min({c \in Campaign : d \in Mentions(c)}), d)]

\* The gate's items: the diffs some record mentions and the evidence beside
\* that record still holds.  A mention without its diff is passed over.
Committed == UNION {Mentions(c) \cap evidence[c] : c \in Campaign}

-----------------------------------------------------------------------------
Fresh == [version |-> version, known |-> Known, next |-> 1, seen |-> {},
          finds |-> {}, matches |-> NoOrigins, measured |-> {}]
Running(c) == pc[c] \in {"run", "write"}

Init ==
  /\ version = 1
  /\ record = [c \in Campaign |-> NoRecord]
  /\ evidence = [c \in Campaign |-> {}]
  /\ pc = [c \in Campaign |-> "new"]
  /\ run = [c \in Campaign |->
       [version |-> 1, known |-> NoOrigins, next |-> 1, seen |-> {}, finds |-> {},
        matches |-> NoOrigins, measured |-> {}]]
  /\ runs = 0 /\ stops = 0 /\ met = {} /\ published = {}

\* A run starts: the records are indexed, and only then does the Recorder
\* replace the campaign's evidence by an empty file.
Start(c) ==
  /\ ~ Running(c) /\ runs < MaxRuns
  /\ run' = [run EXCEPT ![c] = Fresh]
  /\ evidence' = [evidence EXCEPT ![c] = {}]
  /\ pc' = [pc EXCEPT ![c] = "run"]
  /\ runs' = runs + 1
  /\ met' = met \cup {{c, o} : o \in {o \in Campaign : Running(o)}}
  /\ UNCHANGED <<version, record, stops, published>>

KnownTo(c, d) == d \in DOMAIN run[c].known
SameVersion(c, d) == KnownTo(c, d) /\ run[c].known[d].version = run[c].version
Repeated(c, d) == d \in run[c].seen \/ SameVersion(c, d)
Produces(c, d) ==
  /\ pc[c] = "run" /\ run[c].next \in DOMAIN Yields[c]
  /\ d = Yields[c][run[c].next]

\* The hash gates refuse the diff: seen in this run, or a known bypass of the
\* version about to run.  Nothing is kept but its hash.
Duplicate(c, d) ==
  /\ Produces(c, d) /\ Repeated(c, d)
  /\ run' = [run EXCEPT ![c].next = @ + 1, ![c].seen = @ \cup {d}]
  /\ UNCHANGED <<version, record, evidence, pc, runs, stops, met, published>>

\* Any other stage refuses it, or the worker fails on it (CampaignRun says
\* when): it is never measured.
Refuse(c, d) ==
  /\ Produces(c, d) /\ ~ Repeated(c, d)
  /\ run' = [run EXCEPT ![c].next = @ + 1, ![c].seen = @ \cup {d}]
  /\ UNCHANGED <<version, record, evidence, pc, runs, stops, met, published>>

\* Mutant: a rediscovery is a match only while it is still open.
MatchedWhileOpen(c, d) ==
  IF KnownTo(c, d) /\ d \in Open[run[c].version] THEN {d} ELSE {}
\* patch_verification: a known diff that reached TrustSight is a match.
Matched(c, d) == IF KnownTo(c, d) THEN {d} ELSE {}
Found(c, d) == IF ~ KnownTo(c, d) /\ d \in Open[run[c].version] THEN {d} ELSE {}

\* The matches of a run, with those of ds added under the origin known of them.
Joined(f, ds, known) ==
  [m \in DOMAIN f \cup ds |-> IF m \in ds THEN known[m] ELSE f[m]]

\* Mutant: only a fresh bypass keeps its diff.
KeptFresh(c, d) == Found(c, d)
\* Recorder.add: the statuses whose evidence line carries the diff.
Kept(c, d) == Found(c, d) \cup Matched(c, d)

\* TrustSight analyses the diff, and the attempt is recorded.
Measure(c, d) ==
  /\ Produces(c, d) /\ ~ Repeated(c, d)
  /\ run' = [run EXCEPT
       ![c].next = @ + 1, ![c].seen = @ \cup {d}, ![c].measured = @ \cup {d},
       ![c].finds = @ \cup Found(c, d),
       ![c].matches = Joined(@, Matched(c, d), run[c].known)]
  /\ evidence' = [evidence EXCEPT ![c] = @ \cup Kept(c, d)]
  /\ UNCHANGED <<version, record, pc, runs, stops, met, published>>

\* The attempts end (exhausted, or a pre-registered stop): write_record opens
\* record.json for writing, which truncates it ...
OpenRecord(c) ==
  /\ pc[c] = "run"
  /\ pc' = [pc EXCEPT ![c] = "write"]
  /\ record' = [record EXCEPT ![c] = Torn]
  /\ UNCHANGED <<version, evidence, run, runs, stops, met, published>>

\* ... and writes it.
WriteRecord(c) ==
  /\ pc[c] = "write"
  /\ pc' = [pc EXCEPT ![c] = "done"]
  /\ record' = [record EXCEPT ![c] =
       [state |-> "whole", version |-> run[c].version, finds |-> run[c].finds,
        matches |-> run[c].matches]]
  /\ published' = published \cup ({c} \X run[c].finds \X {run[c].version})
  /\ UNCHANGED <<version, evidence, run, runs, stops, met>>

\* The process is killed, or the campaign aborts on its error rate.
Stop(c) ==
  /\ Running(c) /\ stops < MaxStops
  /\ pc' = [pc EXCEPT ![c] = "stopped"]
  /\ stops' = stops + 1
  /\ UNCHANGED <<version, record, evidence, run, runs, met, published>>

\* TrustSight is upgraded, and the campaigns pinned to the new version.  A run
\* keeps the version it started with.
Upgrade ==
  /\ version + 1 \in Version
  /\ version' = version + 1
  /\ UNCHANGED <<record, evidence, pc, run, runs, stops, met, published>>

Attempt(c, d) == Duplicate(c, d) \/ Refuse(c, d) \/ Measure(c, d)

Next ==
  \/ \E c \in Campaign :
       \/ Start(c) \/ OpenRecord(c) \/ WriteRecord(c) \/ Stop(c)
       \/ \E d \in Digest : Attempt(c, d)
  \/ Upgrade

Spec == Init /\ [][Next]_vars

-----------------------------------------------------------------------------
(* Properties. *)

\* Once a run has written its record, every bypass the record names can be
\* replayed: its diff is in the evidence beside it, whatever was truncated,
\* killed or re-run before.
RecordIsReplayable ==
  \A c \in Campaign : pc[c] = "done" => Mentions(c) \subseteq evidence[c]

\* A finished run leaves behind, named and replayable, every diff it measured
\* that was open at its version or known when it started.
MeasuredIsCommitted ==
  \A c \in Campaign : pc[c] = "done" =>
    run[c].measured \cap (Open[run[c].version] \cup DOMAIN run[c].known)
      \subseteq Mentions(c) \cap evidence[c]

\* Two records publish the same diff as a find only if their runs were under
\* way at once: a rediscovery does not inflate the bypass count.
CountedOnce ==
  \A b, c \in Campaign : b # c /\ Readable(b) /\ Readable(c) =>
    (record[b].finds \cap record[c].finds # {} => {b, c} \in met)

\* However often a bypass is rediscovered, its match goes back to a campaign
\* and a version that published it as a find, and that version is older than
\* the run that verified the patch.
OriginIsTheFind ==
  \A c \in Campaign : Readable(c) =>
    \A d \in DOMAIN record[c].matches :
      LET o == record[c].matches[d] IN
        <<o.campaign, d, o.version>> \in published /\ o.version < record[c].version

=============================================================================
