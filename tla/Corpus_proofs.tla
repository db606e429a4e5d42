---------------------------- MODULE Corpus_proofs ----------------------------
(***************************************************************************)
(* What the committed corpus guarantees for any number of campaigns, any   *)
(* generators and versions, and any interleaving of runs, kills and        *)
(* upgrades.                                                               *)
(***************************************************************************)
EXTENDS Corpus, WellFoundedInduction, TLAPS

LEMMA MinIsMember ==
  ASSUME NEW S, S \subseteq Nat, S # {}
  PROVE  Min(S) \in S
<1>1. IsWellFoundedOn(OpToRel(<, Nat), Nat)
  BY NatLessThanWellFounded
<1>2. PICK x \in S : \A y \in S : ~ (<<y, x>> \in OpToRel(<, Nat))
  BY <1>1, WFMin
<1>3. \A y \in S : x =< y
  <2> TAKE y \in S
  <2>1. x \in Nat /\ y \in Nat /\ <<y, x>> \in Nat \X Nat
    OBVIOUS
  <2>2. ~ (y < x)
    BY <1>2, <2>1 DEF OpToRel
  <2> QED BY <2>1, <2>2
<1> QED BY <1>3 DEF Min

LEMMA Constants ==
  /\ Campaign \subseteq Nat /\ Version \subseteq Nat /\ 1 \in Version
  /\ MaxRuns \in Nat /\ MaxStops \in Nat
  /\ Open \in [Version -> SUBSET Digest]
  BY CorpusAssumption

LEMMA Yielded ==
  ASSUME NEW c \in Campaign, NEW i \in DOMAIN Yields[c]
  PROVE  Yields[c][i] \in Digest
<1>1. Yields[c] \in Seq(Digest)
  BY CorpusAssumption
<1> QED BY <1>1

(* The origin the index gives a diff is that of some record mentioning it. *)
LEMMA KnownFromRecord ==
  ASSUME NEW d \in DOMAIN Known
  PROVE  \E c \in Campaign : d \in Mentions(c) /\ Known[d] = OriginIn(c, d)
<1>1. {c \in Campaign : d \in Mentions(c)} # {}
  BY DEF Known
<1>2. {c \in Campaign : d \in Mentions(c)} \subseteq Nat
  BY Constants
<1>3. Min({c \in Campaign : d \in Mentions(c)}) \in {c \in Campaign : d \in Mentions(c)}
  BY <1>1, <1>2, MinIsMember
<1> QED BY <1>3 DEF Known

LEMMA KnownIsIndex == TypeOK => IsIndex(Known)
<1> SUFFICES ASSUME TypeOK PROVE IsIndex(Known)
  OBVIOUS
<1>1. DOMAIN Known \subseteq Digest
  BY DEF Known, TypeOK, IsRecord, IsIndex, Mentions
<1>2. ASSUME NEW d \in DOMAIN Known PROVE Known[d] \in Origin
  <2>1. PICK c \in Campaign : d \in Mentions(c) /\ Known[d] = OriginIn(c, d)
    BY KnownFromRecord
  <2>2. IsRecord(record[c])
    BY DEF TypeOK
  <2> QED BY <2>1, <2>2 DEF OriginIn, Mentions, IsRecord, IsIndex, Origin
<1> QED BY <1>1, <1>2 DEF IsIndex

LEMMA FreshIsRun ==
  ASSUME TypeOK
  PROVE  /\ IsRun(Fresh) /\ Fresh.version = version /\ Fresh.known = Known
         /\ Fresh.finds = {} /\ DOMAIN Fresh.matches = {} /\ Fresh.measured = {}
<1>1. IsIndex(Known) /\ IsIndex(NoOrigins) /\ DOMAIN NoOrigins = {}
  BY KnownIsIndex DEF IsIndex, NoOrigins
<1>2. version \in Version
  BY DEF TypeOK
<1> QED BY <1>1, <1>2 DEF Fresh, IsRun

LEMMA InitType == Init => TypeOK
<1> SUFFICES ASSUME Init PROVE TypeOK
  OBVIOUS
<1>1. IsIndex(NoOrigins) /\ 1 \in Version
  BY Constants DEF IsIndex, NoOrigins
<1>2. \A c \in Campaign : IsRecord(record[c])
  BY <1>1 DEF Init, NoRecord, IsRecord
<1>3. \A c \in Campaign : IsRun(run[c])
  BY <1>1 DEF Init, IsRun
<1>4. runs \in 0..MaxRuns /\ stops \in 0..MaxStops
  BY Constants DEF Init
<1> QED BY <1>1, <1>2, <1>3, <1>4 DEF Init, TypeOK

(* What an attempt does to the memory of its run.                          *)
LEMMA DuplicateStep ==
  ASSUME TypeOK, NEW c \in Campaign, NEW d \in Digest, Duplicate(c, d)
  PROVE  /\ DOMAIN run' = Campaign /\ \A o \in Campaign \ {c} : run'[o] = run[o]
         /\ IsRun(run'[c])
         /\ run'[c].version = run[c].version /\ run'[c].known = run[c].known
         /\ run'[c].finds = run[c].finds /\ run'[c].matches = run[c].matches
         /\ run'[c].measured = run[c].measured
<1>1. IsRun(run[c])
  BY DEF TypeOK
<1> QED BY <1>1 DEF Duplicate, TypeOK, IsRun

LEMMA RefuseStep ==
  ASSUME TypeOK, NEW c \in Campaign, NEW d \in Digest, Refuse(c, d)
  PROVE  /\ DOMAIN run' = Campaign /\ \A o \in Campaign \ {c} : run'[o] = run[o]
         /\ IsRun(run'[c])
         /\ run'[c].version = run[c].version /\ run'[c].known = run[c].known
         /\ run'[c].finds = run[c].finds /\ run'[c].matches = run[c].matches
         /\ run'[c].measured = run[c].measured
<1>1. IsRun(run[c])
  BY DEF TypeOK
<1> QED BY <1>1 DEF Refuse, TypeOK, IsRun

LEMMA MeasureStep ==
  ASSUME TypeOK, NEW c \in Campaign, NEW d \in Digest, Measure(c, d)
  PROVE  /\ DOMAIN run' = Campaign /\ \A o \in Campaign \ {c} : run'[o] = run[o]
         /\ IsRun(run'[c])
         /\ run'[c].version = run[c].version /\ run'[c].known = run[c].known
         /\ run'[c].finds = run[c].finds \cup Found(c, d)
         /\ run'[c].matches = Joined(run[c].matches, Matched(c, d), run[c].known)
         /\ run'[c].measured = run[c].measured \cup {d}
<1>1. IsRun(run[c])
  BY DEF TypeOK
<1>2. IsIndex(Joined(run[c].matches, Matched(c, d), run[c].known))
  BY <1>1 DEF Joined, Matched, KnownTo, IsRun, IsIndex
<1>3. Found(c, d) \subseteq Digest
  BY DEF Found
<1> QED BY <1>1, <1>2, <1>3 DEF Measure, TypeOK, IsRun

LEMMA StepType == TypeOK /\ [Next]_vars => TypeOK'
<1> SUFFICES ASSUME TypeOK, [Next]_vars PROVE TypeOK'
  OBVIOUS
<1>1. ASSUME NEW c \in Campaign, Start(c) PROVE TypeOK'
  <2>1. \A o \in Campaign : IsRun(run'[o])
    BY <1>1, FreshIsRun DEF Start, TypeOK
  <2>2. runs' \in 0..MaxRuns
    <3>1. runs \in 0..MaxRuns /\ runs < MaxRuns /\ runs' = runs + 1
      BY <1>1 DEF Start, TypeOK
    <3> QED BY <3>1, Constants
  <2>3. met' \subseteq SUBSET Campaign
    BY <1>1 DEF Start, TypeOK
  <2> QED BY <1>1, <2>1, <2>2, <2>3 DEF Start, TypeOK
<1>2. ASSUME NEW c \in Campaign, NEW d \in Digest, Attempt(c, d) PROVE TypeOK'
  <2>1. /\ DOMAIN run' = Campaign /\ \A o \in Campaign \ {c} : run'[o] = run[o]
        /\ IsRun(run'[c])
    BY <1>2, DuplicateStep, RefuseStep, MeasureStep DEF Attempt
  <2>2. evidence' \in [Campaign -> SUBSET Digest]
    BY <1>2 DEF Attempt, Duplicate, Refuse, Measure, Kept, Found, Matched, TypeOK
  <2>3. UNCHANGED <<version, record, pc, runs, stops, met, published>>
    BY <1>2 DEF Attempt, Duplicate, Refuse, Measure
  <2> QED BY <2>1, <2>2, <2>3 DEF TypeOK
<1>3. ASSUME NEW c \in Campaign, OpenRecord(c) PROVE TypeOK'
  <2>1. IsRecord(Torn)
    BY Constants DEF Torn, NoOrigins, IsRecord, IsIndex
  <2> QED BY <1>3, <2>1 DEF OpenRecord, TypeOK
<1>4. ASSUME NEW c \in Campaign, WriteRecord(c) PROVE TypeOK'
  <2>1. IsRun(run[c])
    BY DEF TypeOK
  <2>2. \A o \in Campaign : IsRecord(record'[o])
    BY <1>4, <2>1 DEF WriteRecord, TypeOK, IsRun, IsRecord
  <2>3. published' \subseteq Campaign \X Digest \X Version
    BY <1>4, <2>1 DEF WriteRecord, TypeOK, IsRun
  <2> QED BY <1>4, <2>2, <2>3 DEF WriteRecord, TypeOK
<1>5. ASSUME NEW c \in Campaign, Stop(c) PROVE TypeOK'
  <2>1. stops' \in 0..MaxStops
    <3>1. stops \in 0..MaxStops /\ stops < MaxStops /\ stops' = stops + 1
      BY <1>5 DEF Stop, TypeOK
    <3> QED BY <3>1, Constants
  <2> QED BY <1>5, <2>1 DEF Stop, TypeOK
<1>6. CASE Upgrade
  BY <1>6 DEF Upgrade, TypeOK
<1>7. CASE UNCHANGED vars
  BY <1>7 DEF vars, TypeOK
<1> QED BY <1>1, <1>2, <1>3, <1>4, <1>5, <1>6, <1>7 DEF Next

(* The types hold in every reachable state.                                *)
THEOREM TypeCorrect == Spec => []TypeOK
  BY InitType, StepType, PTL DEF Spec

-----------------------------------------------------------------------------
(* What a run has in memory is already in its evidence, and what it wrote  *)
(* down at the end is what it had in memory.                               *)
Saved(c) ==
  /\ Running(c) =>
       /\ run[c].finds \cup DOMAIN run[c].matches \subseteq evidence[c]
       /\ run[c].measured \cap (Open[run[c].version] \cup DOMAIN run[c].known)
            \subseteq run[c].finds \cup DOMAIN run[c].matches
  /\ pc[c] = "done" =>
       /\ Mentions(c) \subseteq evidence[c]
       /\ run[c].measured \cap (Open[run[c].version] \cup DOMAIN run[c].known)
            \subseteq Mentions(c)
AllSaved == \A c \in Campaign : Saved(c)

LEMMA SavedOther ==
  ASSUME NEW o \in Campaign, Saved(o), run'[o] = run[o], pc'[o] = pc[o],
         record'[o] = record[o], evidence'[o] = evidence[o]
  PROVE  Saved(o)'
  BY DEF Saved, Running, Mentions

LEMMA StepSaved == TypeOK /\ AllSaved /\ [Next]_vars => AllSaved'
<1> SUFFICES ASSUME TypeOK, AllSaved, [Next]_vars, NEW o \in Campaign
             PROVE  Saved(o)'
  BY DEF AllSaved
<1> USE DEF TypeOK
<1>0. Saved(o) /\ IsRun(run[o])
  BY DEF AllSaved
<1>1. ASSUME NEW c \in Campaign, Start(c) PROVE Saved(o)'
  <2>1. CASE o # c
    BY <1>0, <1>1, <2>1, SavedOther DEF Start
  <2>2. CASE o = c
    <3>1. run'[o] = Fresh /\ pc'[o] = "run"
      BY <1>1, <2>2 DEF Start
    <3> QED BY <3>1, FreshIsRun DEF Saved, Running
  <2> QED BY <2>1, <2>2
<1>2. ASSUME NEW c \in Campaign, NEW d \in Digest, Duplicate(c, d) \/ Refuse(c, d)
      PROVE  Saved(o)'
  <2>1. UNCHANGED <<record, evidence, pc>>
    BY <1>2 DEF Duplicate, Refuse
  <2>2. /\ run'[o].version = run[o].version /\ run'[o].known = run[o].known
        /\ run'[o].finds = run[o].finds /\ run'[o].matches = run[o].matches
        /\ run'[o].measured = run[o].measured
    BY <1>2, DuplicateStep, RefuseStep
  <2> QED BY <1>0, <2>1, <2>2 DEF Saved, Running, Mentions
<1>3. ASSUME NEW c \in Campaign, NEW d \in Digest, Measure(c, d) PROVE Saved(o)'
  <2>1. CASE o # c
    BY <1>0, <1>3, <2>1, MeasureStep, SavedOther DEF Measure
  <2>2. CASE o = c
    <3>1. /\ run'[o].version = run[o].version /\ run'[o].known = run[o].known
          /\ run'[o].finds = run[o].finds \cup Found(o, d)
          /\ DOMAIN run'[o].matches = DOMAIN run[o].matches \cup Matched(o, d)
          /\ run'[o].measured = run[o].measured \cup {d}
      BY <1>3, <2>2, MeasureStep DEF Joined
    <3>2. /\ pc'[o] = "run" /\ pc[o] = "run"
          /\ evidence'[o] = evidence[o] \cup Found(o, d) \cup Matched(o, d)
      BY <1>3, <2>2 DEF Measure, Produces, Kept
    <3>3. {d} \cap (Open[run[o].version] \cup DOMAIN run[o].known)
            \subseteq Found(o, d) \cup Matched(o, d)
      BY DEF Found, Matched, KnownTo
    <3> QED BY <1>0, <3>1, <3>2, <3>3 DEF Saved, Running
  <2> QED BY <2>1, <2>2
<1>4. ASSUME NEW c \in Campaign, OpenRecord(c) PROVE Saved(o)'
  <2>1. CASE o # c
    BY <1>0, <1>4, <2>1, SavedOther DEF OpenRecord
  <2>2. CASE o = c
    <3>1. /\ pc[o] = "run" /\ pc'[o] = "write"
          /\ run'[o] = run[o] /\ evidence'[o] = evidence[o]
      BY <1>4, <2>2 DEF OpenRecord
    <3> QED BY <1>0, <3>1 DEF Saved, Running
  <2> QED BY <2>1, <2>2
<1>5. ASSUME NEW c \in Campaign, WriteRecord(c) PROVE Saved(o)'
  <2>1. CASE o # c
    BY <1>0, <1>5, <2>1, SavedOther DEF WriteRecord
  <2>2. CASE o = c
    <3>1. /\ pc[o] = "write" /\ pc'[o] = "done"
          /\ run'[o] = run[o] /\ evidence'[o] = evidence[o]
          /\ record'[o].finds = run[o].finds /\ record'[o].matches = run[o].matches
      BY <1>5, <2>2 DEF WriteRecord
    <3> QED BY <1>0, <3>1 DEF Saved, Running, Mentions
  <2> QED BY <2>1, <2>2
<1>6. ASSUME NEW c \in Campaign, Stop(c) PROVE Saved(o)'
  <2>1. CASE o # c
    BY <1>0, <1>6, <2>1, SavedOther DEF Stop
  <2>2. CASE o = c
    <3>1. pc'[o] = "stopped"
      BY <1>6, <2>2 DEF Stop
    <3> QED BY <3>1 DEF Saved, Running
  <2> QED BY <2>1, <2>2
<1>7. CASE Upgrade \/ UNCHANGED vars
  BY <1>0, <1>7, SavedOther DEF Upgrade, vars
<1> QED
  BY <1>1, <1>2, <1>3, <1>4, <1>5, <1>6, <1>7 DEF Next, Attempt

LEMMA SavedForever == Spec => []AllSaved
<1>1. Init => AllSaved
  BY DEF Init, AllSaved, Saved, Running
<1> QED BY <1>1, InitType, StepType, StepSaved, PTL DEF Spec

(* A finished record names only what the evidence beside it can replay.    *)
THEOREM Replayable == Spec => []RecordIsReplayable
<1>1. AllSaved => RecordIsReplayable
  BY DEF AllSaved, Saved, RecordIsReplayable
<1> QED BY <1>1, SavedForever, PTL

(* A finished run leaves behind every bypass it measured.                  *)
THEOREM MeasuredStays == Spec => []MeasuredIsCommitted
<1>1. AllSaved => MeasuredIsCommitted
  BY DEF AllSaved, Saved, MeasuredIsCommitted
<1> QED BY <1>1, SavedForever, PTL

-----------------------------------------------------------------------------
(* Two runs that were never under way at once: the later one indexed the   *)
(* finds of the earlier.                                                   *)
Concurrent == \A b, c \in Campaign : b # c /\ Running(b) /\ Running(c) => {b, c} \in met
Indexed ==
  \A b, c \in Campaign : b # c /\ Readable(b) /\ Running(c) /\ {b, c} \notin met =>
    record[b].finds \subseteq DOMAIN run[c].known
FreshFinds == \A c \in Campaign : Running(c) => run[c].finds \cap DOMAIN run[c].known = {}
Counting == Concurrent /\ Indexed /\ FreshFinds /\ CountedOnce

LEMMA StepCounting == TypeOK /\ Counting /\ [Next]_vars => Counting'
<1> SUFFICES ASSUME TypeOK, Counting, [Next]_vars PROVE Counting'
  OBVIOUS
<1> USE DEF TypeOK
<1>1. ASSUME NEW c \in Campaign, Start(c) PROVE Counting'
  <2>1. /\ ~ Running(c) /\ run'[c] = Fresh /\ record' = record
        /\ \A o \in Campaign \ {c} : run'[o] = run[o] /\ pc'[o] = pc[o]
        /\ met \subseteq met' /\ \A o \in Campaign : Running(o) => {c, o} \in met'
    BY <1>1 DEF Start
  <2>2. Fresh.finds = {} /\ Fresh.known = Known
    BY FreshIsRun
  <2>3. \A b \in Campaign : record[b].finds \subseteq DOMAIN Known
    BY DEF Known, Mentions
  <2>4. \A o \in Campaign : {c, o} = {o, c}
    OBVIOUS
  <2>5. Concurrent'
    BY <2>1, <2>4 DEF Counting, Concurrent, Running
  <2>6. Indexed'
    BY <2>1, <2>2, <2>3 DEF Counting, Indexed, Running, Readable
  <2>7. FreshFinds'
    BY <2>1, <2>2 DEF Counting, FreshFinds, Running
  <2>8. CountedOnce'
    BY <2>1 DEF Counting, CountedOnce, Readable
  <2> QED BY <2>5, <2>6, <2>7, <2>8 DEF Counting
<1>2. ASSUME NEW c \in Campaign, NEW d \in Digest, Attempt(c, d) PROVE Counting'
  <2>1. UNCHANGED <<record, pc, met>>
    BY <1>2 DEF Attempt, Duplicate, Refuse, Measure
  <2>2. /\ \A o \in Campaign : run'[o].known = run[o].known
        /\ \A o \in Campaign : run'[o].finds \subseteq run[o].finds \cup Found(o, d)
    BY <1>2, DuplicateStep, RefuseStep, MeasureStep DEF Attempt
  <2>3. FreshFinds'
    BY <2>1, <2>2 DEF Counting, FreshFinds, Running, Found, KnownTo
  <2>4. Concurrent' /\ Indexed' /\ CountedOnce'
    BY <2>1, <2>2 DEF Counting, Concurrent, Indexed, CountedOnce, Running, Readable
  <2> QED BY <2>3, <2>4 DEF Counting
<1>3. ASSUME NEW c \in Campaign, OpenRecord(c) PROVE Counting'
  <2>1. /\ run' = run /\ met' = met /\ record'[c].state = "torn"
        /\ \A o \in Campaign \ {c} : record'[o] = record[o]
        /\ \A o \in Campaign : Running(o)' <=> Running(o)
    BY <1>3 DEF OpenRecord, Torn, Running
  <2> QED BY <2>1 DEF Counting, Concurrent, Indexed, FreshFinds, CountedOnce, Readable
<1>4. ASSUME NEW c \in Campaign, WriteRecord(c) PROVE Counting'
  <2>1. /\ run' = run /\ met' = met /\ Running(c) /\ ~ Running(c)'
        /\ record'[c].finds = run[c].finds
        /\ \A o \in Campaign \ {c} : record'[o] = record[o] /\ pc'[o] = pc[o]
    BY <1>4 DEF WriteRecord, Running
  <2>2. Concurrent' /\ FreshFinds'
    BY <2>1 DEF Counting, Concurrent, FreshFinds, Running
  <2>3. Indexed'
    <3> SUFFICES ASSUME NEW b \in Campaign, NEW o \in Campaign, b # o,
                        Readable(b)', Running(o)', {b, o} \notin met
                 PROVE  record'[b].finds \subseteq DOMAIN run[o].known
      BY <2>1 DEF Indexed
    <3>1. o # c /\ Running(o)
      BY <2>1 DEF Running
    <3>2. b # c
      BY <2>1, <3>1 DEF Counting, Concurrent
    <3> QED BY <2>1, <3>1, <3>2 DEF Counting, Indexed, Readable
  <2>4. CountedOnce'
    <3>1. ASSUME NEW b \in Campaign \ {c}, Readable(b), {b, c} \notin met
          PROVE  record[b].finds \cap run[c].finds = {}
      BY <2>1, <3>1 DEF Counting, Indexed, FreshFinds
    <3>2. \A b \in Campaign : {b, c} = {c, b}
      OBVIOUS
    <3> QED BY <2>1, <3>1, <3>2 DEF Counting, CountedOnce, Readable
  <2> QED BY <2>2, <2>3, <2>4 DEF Counting
<1>5. ASSUME NEW c \in Campaign, Stop(c) PROVE Counting'
  <2>1. /\ run' = run /\ met' = met /\ record' = record
        /\ \A o \in Campaign : Running(o)' => Running(o)
    BY <1>5 DEF Stop, Running
  <2> QED BY <2>1 DEF Counting, Concurrent, Indexed, FreshFinds, CountedOnce, Readable
<1>6. CASE Upgrade \/ UNCHANGED vars
  BY <1>6 DEF Upgrade, vars, Counting, Concurrent, Indexed, FreshFinds, CountedOnce,
              Readable, Running
<1> QED BY <1>1, <1>2, <1>3, <1>4, <1>5, <1>6 DEF Next

(* A rediscovery is never published as a second find, unless the two runs  *)
(* overlapped.                                                             *)
THEOREM NoDoubleCount == Spec => []CountedOnce
<1>1. Init => Counting
  BY DEF Init, NoRecord, Counting, Concurrent, Indexed, FreshFinds, CountedOnce,
         Readable, Running
<1>2. Counting => CountedOnce
  BY DEF Counting
<1> QED BY <1>1, <1>2, InitType, StepType, StepCounting, PTL DEF Spec

-----------------------------------------------------------------------------
(* Every origin on disk, and every origin a run has in memory, is a        *)
(* published find, and older than the run that rediscovered it.            *)
IsFind(o, d) == <<o.campaign, d, o.version>> \in published
RecordTraced(c) ==
  /\ record[c].version =< version
  /\ \A d \in record[c].finds : <<c, d, record[c].version>> \in published
  /\ \A d \in DOMAIN record[c].matches :
       IsFind(record[c].matches[d], d) /\ record[c].matches[d].version < record[c].version
RunTraced(c) ==
  Running(c) =>
    /\ run[c].version =< version
    /\ \A d \in DOMAIN run[c].known :
         IsFind(run[c].known[d], d) /\ run[c].known[d].version =< run[c].version
    /\ \A d \in DOMAIN run[c].matches :
         IsFind(run[c].matches[d], d) /\ run[c].matches[d].version < run[c].version
Traced == 1 =< version /\ \A c \in Campaign : RecordTraced(c) /\ RunTraced(c)

LEMMA KnownTraced ==
  ASSUME TypeOK, Traced, NEW d \in DOMAIN Known
  PROVE  IsFind(Known[d], d) /\ Known[d].version =< version
<1>1. PICK c \in Campaign : d \in Mentions(c) /\ Known[d] = OriginIn(c, d)
  BY KnownFromRecord
<1>2. RecordTraced(c) /\ IsRecord(record[c]) /\ version \in Nat /\ Version \subseteq Nat
  BY Constants DEF Traced, TypeOK
<1>3. CASE d \in record[c].finds
  BY <1>1, <1>2, <1>3 DEF OriginIn, RecordTraced, IsFind
<1>4. CASE d \notin record[c].finds
  <2>1. d \in DOMAIN record[c].matches /\ Known[d] = record[c].matches[d]
    BY <1>1, <1>4 DEF OriginIn, Mentions
  <2>2. Known[d].version \in Nat /\ record[c].version \in Nat
    BY <1>2, <2>1 DEF IsRecord, IsIndex, Origin
  <2> QED BY <1>2, <2>1, <2>2 DEF RecordTraced
<1> QED BY <1>3, <1>4

LEMMA TracedOther ==
  ASSUME NEW o \in Campaign, RecordTraced(o), RunTraced(o), version \in Nat,
         record'[o] = record[o], run'[o] = run[o], Running(o)' => Running(o),
         version' = version, published \subseteq published'
  PROVE  RecordTraced(o)' /\ RunTraced(o)'
  BY DEF RecordTraced, RunTraced, IsFind

LEMMA StepTraced == TypeOK /\ Traced /\ [Next]_vars => Traced'
<1> SUFFICES ASSUME TypeOK, Traced, [Next]_vars PROVE Traced'
  OBVIOUS
<1>0. version \in Nat /\ Version \subseteq Nat
  BY Constants DEF TypeOK
<1>1. ASSUME NEW c \in Campaign, Start(c) PROVE Traced'
  <2>1. UNCHANGED <<version, record, published>>
    BY <1>1 DEF Start
  <2>2. \A o \in Campaign \ {c} : run'[o] = run[o] /\ (Running(o)' => Running(o))
    BY <1>1 DEF Start, TypeOK, Running
  <2>3. run'[c] = Fresh
    BY <1>1 DEF Start, TypeOK
  <2>4. RecordTraced(c)'
    BY <2>1 DEF Traced, RecordTraced, IsFind
  <2>5. RunTraced(c)'
    BY <1>0, <2>1, <2>3, FreshIsRun, KnownTraced DEF RunTraced, IsFind
  <2> QED BY <1>0, <2>1, <2>2, <2>4, <2>5, TracedOther DEF Traced
<1>2. ASSUME NEW c \in Campaign, NEW d \in Digest, Duplicate(c, d) \/ Refuse(c, d)
      PROVE  Traced'
  <2>1. UNCHANGED <<version, record, pc, published>>
    BY <1>2 DEF Duplicate, Refuse
  <2>2. \A o \in Campaign : /\ run'[o].version = run[o].version
                            /\ run'[o].known = run[o].known
                            /\ run'[o].matches = run[o].matches
    BY <1>2, DuplicateStep, RefuseStep
  <2> QED BY <2>1, <2>2 DEF Traced, RecordTraced, RunTraced, Running, IsFind
<1>3. ASSUME NEW c \in Campaign, NEW d \in Digest, Measure(c, d) PROVE Traced'
  <2>1. UNCHANGED <<version, record, pc, published>>
    BY <1>3 DEF Measure
  <2>2. \A o \in Campaign \ {c} : run'[o] = run[o]
    BY <1>3, MeasureStep
  <2>3. /\ run'[c].version = run[c].version /\ run'[c].known = run[c].known
        /\ run'[c].matches = Joined(run[c].matches, Matched(c, d), run[c].known)
    BY <1>3, MeasureStep
  <2>4. Running(c) /\ RunTraced(c) /\ RecordTraced(c) /\ IsRun(run[c])
    BY <1>3 DEF Measure, Produces, Running, Traced, TypeOK
  <2>5. d \in DOMAIN run[c].known => run[c].known[d].version # run[c].version
    BY <1>3 DEF Measure, Repeated, SameVersion, KnownTo
  <2>6. \A m \in DOMAIN run[c].known :
          run[c].known[m].version \in Nat /\ run[c].version \in Nat
    BY <1>0, <2>4 DEF IsRun, IsIndex, Origin
  <2>7. \A m \in DOMAIN run'[c].matches :
          /\ IsFind(run'[c].matches[m], m)
          /\ run'[c].matches[m].version < run[c].version
    BY <2>3, <2>4, <2>5, <2>6 DEF Joined, Matched, KnownTo, RunTraced
  <2>8. RunTraced(c)'
    BY <2>1, <2>3, <2>4, <2>7 DEF RunTraced, IsFind
  <2>9. RecordTraced(c)'
    BY <2>1, <2>4 DEF RecordTraced, IsFind
  <2> QED BY <1>0, <2>1, <2>2, <2>8, <2>9, TracedOther DEF Traced, Running
<1>4. ASSUME NEW c \in Campaign, OpenRecord(c) PROVE Traced'
  <2>1. /\ UNCHANGED <<version, run, published>> /\ record'[c] = Torn
        /\ \A o \in Campaign \ {c} : record'[o] = record[o]
        /\ \A o \in Campaign : Running(o)' => Running(o)
    BY <1>4 DEF OpenRecord, Running, TypeOK
  <2>2. RecordTraced(c)'
    BY <2>1 DEF Traced, RecordTraced, Torn, NoOrigins
  <2>3. RunTraced(c)'
    BY <2>1 DEF Traced, RunTraced, IsFind
  <2> QED BY <1>0, <2>1, <2>2, <2>3, TracedOther DEF Traced
<1>5. ASSUME NEW c \in Campaign, WriteRecord(c) PROVE Traced'
  <2>1. /\ UNCHANGED <<version, run>> /\ published \subseteq published'
        /\ \A d \in run[c].finds : <<c, d, run[c].version>> \in published'
        /\ record'[c].version = run[c].version /\ record'[c].finds = run[c].finds
        /\ record'[c].matches = run[c].matches
        /\ \A o \in Campaign \ {c} : record'[o] = record[o]
        /\ \A o \in Campaign : Running(o)' => Running(o)
    BY <1>5 DEF WriteRecord, Running, TypeOK
  <2>2. RunTraced(c) /\ Running(c) /\ ~ Running(c)'
    BY <1>5 DEF WriteRecord, Traced, Running, TypeOK
  <2>3. RecordTraced(c)'
    BY <2>1, <2>2 DEF RecordTraced, RunTraced, IsFind
  <2>4. RunTraced(c)'
    BY <2>2 DEF RunTraced
  <2> QED BY <1>0, <2>1, <2>3, <2>4, TracedOther DEF Traced
<1>6. ASSUME NEW c \in Campaign, Stop(c) PROVE Traced'
  <2>1. /\ UNCHANGED <<version, run, record, published>>
        /\ \A o \in Campaign : Running(o)' => Running(o)
    BY <1>6 DEF Stop, Running, TypeOK
  <2> QED BY <1>0, <2>1, TracedOther DEF Traced
<1>7. CASE Upgrade
  <2>1. version' = version + 1 /\ UNCHANGED <<record, pc, run, published>>
    BY <1>7 DEF Upgrade
  <2>2. \A c \in Campaign : record[c].version \in Nat /\ run[c].version \in Nat
    BY <1>0 DEF TypeOK, IsRecord, IsRun
  <2>3. 1 =< version'
    BY <1>0, <2>1 DEF Traced
  <2>4. \A c \in Campaign : RecordTraced(c)'
    BY <1>0, <2>1, <2>2 DEF Traced, RecordTraced, IsFind
  <2>5. \A c \in Campaign : RunTraced(c)'
    BY <1>0, <2>1, <2>2 DEF Traced, RunTraced, Running, IsFind
  <2> QED BY <2>3, <2>4, <2>5 DEF Traced
<1>8. CASE UNCHANGED vars
  BY <1>8 DEF vars, Traced, RecordTraced, RunTraced, Running, IsFind
<1> QED BY <1>1, <1>2, <1>3, <1>4, <1>5, <1>6, <1>7, <1>8 DEF Next, Attempt

(* A match goes back, however many rediscoveries later, to the run that    *)
(* published the find, at an older version.                                *)
THEOREM OriginTraced == Spec => []OriginIsTheFind
<1>1. Init => Traced
  BY DEF Init, NoRecord, NoOrigins, Traced, RecordTraced, RunTraced, Running
<1>2. Traced => OriginIsTheFind
  BY DEF Traced, RecordTraced, OriginIsTheFind, IsFind
<1> QED BY <1>1, <1>2, InitType, StepType, StepTraced, PTL DEF Spec
=============================================================================
