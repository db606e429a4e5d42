---------------------------- MODULE Gate_proofs ----------------------------
(***************************************************************************)
(* What the regression gate guarantees for every corpus, every history of  *)
(* edits and every choice of options, pools and failures.                  *)
(***************************************************************************)
EXTENDS Gate, FiniteSetTheorems, TLAPS

(* The part of the type that depends on where the gate is: which bypasses  *)
(* have a row, and that what is still to be remembered is not degraded.    *)
Progress ==
  /\ IsFiniteSet(DOMAIN cache)
  /\ pc \in {"replay", "retry", "put"} => pending \ todo \subseteq DOMAIN rows
  /\ pc \in {"retry", "put"} => pending \subseteq DOMAIN rows
  /\ pc = "put" => \A i \in todo : rows[i] # "degraded"

LEMMA ReplaysType ==
  ASSUME NEW i, NEW r
  PROVE  Replays(i, r) \subseteq State
  BY DEF Replays, Classify, State

LEMMA EmptyDomain == DOMAIN Empty = {}
  BY DEF Empty

LEMMA BoundsAreNaturals == MaxRuns \in Nat /\ MaxKills \in Nat
  BY GateAssumption

LEMMA KeyType ==
  ASSUME NEW i \in Item, NEW r \in Revision
  PROVE  Key(i, r) \in KeySet
  BY DEF Key, KeySet

(* Appending a line keeps the cache a finite map from keys to states.      *)
LEMMA PutType ==
  ASSUME TypeOK, Progress, NEW i \in Item, Put(i)
  PROVE  /\ DOMAIN cache' \subseteq KeySet /\ IsFiniteSet(DOMAIN cache')
         /\ \A k \in DOMAIN cache' : cache'[k] \in State \ {"degraded"}
         /\ lines' \in Nat
<1>1. DOMAIN cache' = DOMAIN cache \cup {Key(i, hashed)}
  BY DEF Put, With
<1>2. IsFiniteSet(DOMAIN cache')
  BY <1>1, FS_AddElement DEF Progress
<1>3. Cardinality(DOMAIN cache') \in Nat
  BY <1>2, FS_CardinalityType
<1>4. lines' \in Nat
  BY <1>3 DEF Put, TypeOK
<1>5. rows[i] \in State \ {"degraded"}
  BY DEF Put, TypeOK, Progress
<1>6. \A k \in DOMAIN cache' : cache'[k] \in State \ {"degraded"}
  BY <1>1, <1>5 DEF Put, TypeOK, With
<1>7. DOMAIN cache' \subseteq KeySet
  BY <1>1, KeyType DEF TypeOK
<1> QED BY <1>2, <1>4, <1>6, <1>7

(* One row more.                                                           *)
LEMMA RowType ==
  ASSUME TypeOK, NEW i \in Item, NEW s \in State, rows' = With(rows, i, s)
  PROVE  /\ DOMAIN rows' = DOMAIN rows \cup {i} /\ DOMAIN rows' \subseteq Item
         /\ \A j \in DOMAIN rows' : rows'[j] = IF j = i THEN s ELSE rows[j]
         /\ \A j \in DOMAIN rows' : rows'[j] \in State
  BY DEF TypeOK, With

LEMMA InitType == Init => TypeOK /\ Progress
<1> SUFFICES ASSUME Init PROVE TypeOK /\ Progress
  OBVIOUS
<1>1. IsFiniteSet({}) /\ DOMAIN Empty = {}
  BY FS_EmptySet, EmptyDomain
<1>2. options \in [pool : BOOLEAN, cached : BOOLEAN] /\ edited \in BOOLEAN
  BY Zenon DEF Init
<1>3. patch \in [Cell -> {"unknown", "verified", "regression"}]
  BY DEF Init
<1>4. Progress
  BY <1>1 DEF Init, Progress
<1>5. /\ cache = Empty /\ rows = Empty /\ pending = {} /\ todo = {}
      /\ pc = "idle" /\ runs = 0 /\ kills = 0 /\ lines = 0
      /\ source = 0 /\ loaded = 0 /\ hashed = 0
  BY DEF Init
<1>6. /\ {source, loaded, hashed} \subseteq Revision
      /\ runs \in 0..MaxRuns /\ kills \in 0..MaxKills /\ lines \in Nat
  <2>1. 0 \in 0..MaxRuns /\ 0 \in 0..MaxKills
    BY BoundsAreNaturals
  <2>2. {0} \subseteq Revision
    BY GateAssumption
  <2> QED BY <1>5, <2>1, <2>2
<1>7. /\ DOMAIN cache \subseteq KeySet /\ DOMAIN rows \subseteq Item
      /\ \A k \in DOMAIN cache : cache[k] \in State \ {"degraded"}
      /\ \A i \in DOMAIN rows : rows[i] \in State
      /\ todo \subseteq pending /\ pending \subseteq Item
  BY <1>1, <1>5
<1> QED BY <1>2, <1>3, <1>4, <1>5, <1>6, <1>7 DEF TypeOK

LEMMA StepType == TypeOK /\ Progress /\ [Next]_vars => TypeOK' /\ Progress'
<1> SUFFICES ASSUME TypeOK, Progress, [Next]_vars PROVE TypeOK' /\ Progress'
  OBVIOUS
<1> USE DEF TypeOK, Progress
<1>1. ASSUME NEW o \in [pool : BOOLEAN, cached : BOOLEAN], Preflight(o)
      PROVE TypeOK' /\ Progress'
  <2>1. options' \in [pool : BOOLEAN, cached : BOOLEAN] /\ edited' \in BOOLEAN
    BY <1>1 DEF Preflight
  <2>2. runs' \in 0..MaxRuns
    <3>1. runs \in 0..MaxRuns /\ runs < MaxRuns /\ runs' = runs + 1
      BY <1>1 DEF Preflight
    <3> QED BY <3>1, BoundsAreNaturals
  <2>3. DOMAIN rows' = {}
    BY <1>1, EmptyDomain DEF Preflight
  <2>4. /\ pending' = {} /\ todo' = {} /\ pc' = "hash"
        /\ cache' = cache /\ lines' = lines /\ patch' = patch /\ kills' = kills
        /\ {source', loaded', hashed'} \subseteq Revision
    BY <1>1 DEF Preflight
  <2> QED BY <2>1, <2>2, <2>3, <2>4
<1>2. CASE HashSources
  BY <1>2 DEF HashSources
<1>3. CASE CacheRefused
  BY <1>3 DEF CacheRefused
<1>4. CASE LoadCache
  <2>1. Hits \subseteq Item /\ \A i \in Hits : cache[Key(i, hashed)] \in State
    BY DEF Hits
  <2> QED BY <1>4, <2>1 DEF LoadCache
<1>5. ASSUME NEW i \in Item, Replay(i) PROVE TypeOK' /\ Progress'
  <2>1. PICK s \in State : rows' = With(rows, i, s)
    BY <1>5, ReplaysType DEF Replay
  <2>2. /\ DOMAIN rows' = DOMAIN rows \cup {i} /\ DOMAIN rows' \subseteq Item
        /\ \A j \in DOMAIN rows' : rows'[j] = IF j = i THEN s ELSE rows[j]
        /\ \A j \in DOMAIN rows' : rows'[j] \in State
    BY <2>1, RowType
  <2> QED BY <1>5, <2>2 DEF Replay
<1>6. ASSUME NEW i \in Item, Retry(i) PROVE TypeOK' /\ Progress'
  <2>1. PICK s \in State : rows' = With(rows, i, s)
    BY <1>6, ReplaysType DEF Retry
  <2>2. /\ DOMAIN rows' = DOMAIN rows \cup {i} /\ DOMAIN rows' \subseteq Item
        /\ \A j \in DOMAIN rows' : rows'[j] = IF j = i THEN s ELSE rows[j]
        /\ \A j \in DOMAIN rows' : rows'[j] \in State
    BY <2>1, RowType
  <2> QED BY <1>6, <2>2 DEF Retry
<1>7. ASSUME NEW i \in Item, Put(i) PROVE TypeOK' /\ Progress'
  BY <1>7, PutType DEF Put
<1>8. CASE StartRetries
  BY <1>8 DEF StartRetries, Degraded
<1>9. CASE StartPuts
  BY <1>9 DEF StartPuts, Remembered
<1>10. CASE Publish
  <2>1. Updated \in [Cell -> {"unknown", "verified", "regression"}]
    BY DEF Updated
  <2> QED BY <1>10, <2>1 DEF Publish
<1>11. CASE Exit
  BY <1>11 DEF Exit
<1>12. CASE Fail
  <2>1. kills' \in 0..MaxKills
    <3>1. kills \in 0..MaxKills /\ kills < MaxKills /\ kills' = kills + 1
      BY <1>12 DEF Fail
    <3> QED BY <3>1, BoundsAreNaturals
  <2>2. DOMAIN rows' = {}
    BY <1>12, EmptyDomain DEF Fail
  <2>3. /\ pending' = {} /\ todo' = {} /\ pc' = "idle"
        /\ UNCHANGED <<source, cache, lines, options, loaded, hashed, patch,
                       runs, edited>>
    BY <1>12 DEF Fail
  <2> QED BY <2>1, <2>2, <2>3
<1>13. CASE Edit
  BY <1>13 DEF Edit
<1>14. CASE UNCHANGED vars
  BY <1>14 DEF vars
<1> QED
  BY <1>1, <1>2, <1>3, <1>4, <1>5, <1>6, <1>7, <1>8, <1>9, <1>10, <1>11,
     <1>12, <1>13, <1>14 DEF Next

(* The types hold in every reachable state, whatever the options, the      *)
(* edits and the failures: in particular no degraded result is remembered. *)
THEOREM TypeCorrect == Spec => [](TypeOK /\ Progress)
  BY InitType, StepType, PTL DEF Spec

-----------------------------------------------------------------------------
(* The cache is keyed soundly, and while the gate runs nothing it has read *)
(* of the instrument is out of date.  An edit during a run breaks this for *)
(* good, because a wrong entry outlives the run.                           *)
Sound ==
  ~ edited =>
    /\ \A k \in DOMAIN cache : cache[k] \in Replays(k.item, k.revision)
    /\ pc # "idle" => loaded = source
    /\ pc \notin {"idle", "hash"} => hashed = source
    /\ pc # "idle" => \A i \in DOMAIN rows :
         /\ rows[i] \in Replays(i, source)
         /\ rows[i] = "degraded" => i \in pending

LEMMA PutSound ==
  ASSUME TypeOK, Sound, ~ edited, NEW i \in Item, Put(i), i \in DOMAIN rows
  PROVE  \A k \in DOMAIN cache' : cache'[k] \in Replays(k.item, k.revision)
<1>1. rows[i] \in Replays(i, hashed)
  BY DEF Put, Sound
<1>2. Key(i, hashed).item = i /\ Key(i, hashed).revision = hashed
  BY DEF Key
<1> QED BY <1>1, <1>2 DEF Put, Sound, With

LEMMA StepSound ==
  TypeOK /\ Progress /\ Sound /\ [Next]_vars => Sound'
<1> SUFFICES ASSUME TypeOK, Progress, Sound, [Next]_vars, ~ edited'
             PROVE  Sound'
  BY DEF Sound
<1>0. ~ edited
  BY DEF Next, vars, Preflight, HashSources, CacheRefused, LoadCache, Replay,
     StartRetries, Retry, StartPuts, Put, Publish, Exit, Fail, Edit
<1>1. ASSUME NEW o \in [pool : BOOLEAN, cached : BOOLEAN], Preflight(o)
      PROVE Sound'
  BY <1>0, <1>1 DEF Preflight, Sound, Empty
<1>2. CASE HashSources
  BY <1>0, <1>2 DEF HashSources, Sound
<1>3. CASE CacheRefused
  BY <1>0, <1>3 DEF CacheRefused, Sound
<1>4. CASE LoadCache
  <2>1. \A i \in Hits : cache[Key(i, hashed)] \in Replays(i, source) \ {"degraded"}
    BY <1>0, <1>4 DEF Hits, LoadCache, Sound, Key, TypeOK
  <2> QED BY <1>0, <1>4, <2>1 DEF LoadCache, Sound
<1>5. ASSUME NEW i \in Item, Replay(i) PROVE Sound'
  <2>1. PICK s \in Replays(i, source) : rows' = With(rows, i, s)
    BY <1>0, <1>5 DEF Replay, Sound
  <2>2. i \in pending /\ s \in State
    BY <1>5, ReplaysType DEF Replay, TypeOK
  <2>3. /\ DOMAIN rows' = DOMAIN rows \cup {i} /\ DOMAIN rows' \subseteq Item
        /\ \A j \in DOMAIN rows' : rows'[j] = IF j = i THEN s ELSE rows[j]
        /\ \A j \in DOMAIN rows' : rows'[j] \in State
    BY <2>1, <2>2, RowType
  <2> QED BY <1>0, <1>5, <2>1, <2>2, <2>3 DEF Replay, Sound
<1>6. ASSUME NEW i \in Item, Retry(i) PROVE Sound'
  <2>1. PICK s \in Replays(i, source) : rows' = With(rows, i, s)
    BY <1>0, <1>6 DEF Retry, Sound
  <2>2. i \in pending /\ s \in State
    BY <1>6, ReplaysType DEF Retry, TypeOK
  <2>3. /\ DOMAIN rows' = DOMAIN rows \cup {i} /\ DOMAIN rows' \subseteq Item
        /\ \A j \in DOMAIN rows' : rows'[j] = IF j = i THEN s ELSE rows[j]
        /\ \A j \in DOMAIN rows' : rows'[j] \in State
    BY <2>1, <2>2, RowType
  <2> QED BY <1>0, <1>6, <2>1, <2>2, <2>3 DEF Retry, Sound
<1>7. ASSUME NEW i \in Item, Put(i) PROVE Sound'
  <2>1. i \in DOMAIN rows
    BY <1>7 DEF Put, Progress, TypeOK
  <2> QED BY <1>0, <1>7, <2>1, PutSound DEF Put, Sound
<1>8. CASE StartRetries
  BY <1>0, <1>8 DEF StartRetries, Sound
<1>9. CASE StartPuts
  BY <1>0, <1>9 DEF StartPuts, Sound
<1>10. CASE Publish
  BY <1>0, <1>10 DEF Publish, Sound
<1>11. CASE Exit
  BY <1>0, <1>11 DEF Exit, Sound
<1>12. CASE Fail
  BY <1>0, <1>12 DEF Fail, Sound, Empty
<1>13. CASE Edit
  BY <1>0, <1>13 DEF Edit, Sound
<1>14. CASE UNCHANGED vars
  BY <1>0, <1>14 DEF vars, Sound
<1> QED
  BY <1>1, <1>2, <1>3, <1>4, <1>5, <1>6, <1>7, <1>8, <1>9, <1>10, <1>11,
     <1>12, <1>13, <1>14 DEF Next

LEMMA SoundForever == Spec => [](TypeOK /\ Progress /\ Sound)
<1>1. Init => Sound
  BY DEF Init, Sound, Empty
<1> QED BY <1>1, InitType, StepType, StepSound, PTL DEF Spec

(* Every row, fresh or from the cache, says what the installed sources say *)
(* of its bypass, provided nobody edited them during a run.                *)
THEOREM RowsAnswer == Spec => []RowsAnswerTheirQuestion
<1>1. TypeOK /\ Sound => RowsAnswerTheirQuestion
  BY DEF Sound, RowsAnswerTheirQuestion
<1> QED BY <1>1, SoundForever, PTL

-----------------------------------------------------------------------------
(* What a publication says of a cell comes from one of its decided rows.   *)
LEMMA ClosedIsCaught ==
  ASSUME NEW i \in Item, NEW r \in Revision, "closed" \in Replays(i, r)
  PROVE  i \notin Unparsable /\ Answer[i][r] = "caught"
<1>1. Answer[i][r] \in {"bypass", "caught", "degraded gap", "gap"}
  BY GateAssumption
<1> QED BY <1>1 DEF Replays, Classify

(* When a run publishes, a cell it says something of is verified only by a *)
(* closed row.                                                             *)
Earned ==
  pc = "publish" => \A c \in Cell :
    patch[c] = "verified" /\ Last(c) # {} =>
      \E i \in DOMAIN rows : c \in CellOf[i] /\ rows[i] = "closed"

LEMMA StepEarned == TypeOK /\ Earned /\ [Next]_vars => Earned'
<1> SUFFICES ASSUME TypeOK, Earned, [Next]_vars PROVE Earned'
  OBVIOUS
<1>1. CASE Publish
  <2>1. Decided' = Decided /\ \A c : Last(c)' = Last(c)
    BY <1>1 DEF Publish, Decided, Last
  <2>2. \A c \in Cell : Updated[c] = "verified" /\ Last(c) # {} =>
          \E i \in DOMAIN rows : c \in CellOf[i] /\ rows[i] = "closed"
    BY DEF Updated, Last, Decided
  <2> QED BY <1>1, <2>1, <2>2 DEF Publish, Earned
<1>2. CASE Edit \/ UNCHANGED vars
  <2>1. rows' = rows /\ pc' = pc /\ patch' = patch
    BY <1>2 DEF Edit, vars
  <2>2. Decided' = Decided /\ \A c : Last(c)' = Last(c)
    BY <2>1 DEF Decided, Last
  <2> QED BY <2>1, <2>2 DEF Earned
<1>3. CASE ~ Publish /\ ~ Edit /\ Next
  <2>1. pc' # "publish"
    BY <1>3 DEF Next, TypeOK, Preflight, HashSources, CacheRefused, LoadCache,
       Replay, StartRetries, Retry, StartPuts, Put, Exit, Fail
  <2> QED BY <2>1 DEF Earned
<1> QED BY <1>1, <1>2, <1>3

(* No cell is retired on an analysis that declined to answer.              *)
THEOREM NothingRetiredOnAGap == Spec => []GapRetiresNothing
<1>1. Init => Earned
  BY DEF Init, Earned
<1>2. TypeOK /\ Sound /\ Earned => GapRetiresNothing
  <2> SUFFICES ASSUME TypeOK, Sound, Earned, ~ edited, pc = "publish",
                      NEW c \in Cell, patch[c] = "verified", Last(c) # {}
               PROVE  \E i \in Item \ Unparsable :
                        c \in CellOf[i] /\ Answer[i][source] = "caught"
    BY DEF GapRetiresNothing
  <2>1. PICK i \in DOMAIN rows : c \in CellOf[i] /\ rows[i] = "closed"
    BY DEF Earned
  <2>2. i \in Item /\ source \in Revision /\ "closed" \in Replays(i, source)
    BY <2>1 DEF TypeOK, Sound
  <2> QED BY <2>1, <2>2, ClosedIsCaught
<1> QED BY <1>1, <1>2, SoundForever, StepEarned, PTL DEF Spec
=============================================================================
