-------------------------------- MODULE Gate --------------------------------
(***************************************************************************)
(* The regression gate (harness/regression.py, harness/regression_cache.py)*)
(* run again and again while TrustSight's sources are edited under it.     *)
(* A run spawns a worker, which imports the instrument; hashes the sources *)
(* to key the cache; answers from the cache what it can; replays the rest, *)
(* itself or in a pool of fresh processes; retries what came back degraded;*)
(* remembers the results; and moves them onto the archive's cells.         *)
(***************************************************************************)
EXTENDS Naturals, FiniteSets

CONSTANTS
  Item,        \* the committed bypasses, numbered in replay order
  Cell,
  CellOf,      \* the cells each bypass filled
  LabelOf,     \* the version that each revision of the sources declares
  Answer,      \* what each revision says of each bypass
  Unparsable,  \* the bypasses that bash -n refuses
  CacheCap,    \* the lines that fit in MAX_CACHE_BYTES
  MaxRuns,     \* bound on gate runs
  MaxKills     \* bound on gate runs that are killed, or whose pool fails

Revision == DOMAIN LabelOf

ASSUME GateAssumption ==
  /\ Item \subseteq Nat /\ IsFiniteSet(Item)
  /\ CellOf \in [Item -> SUBSET Cell]
  /\ Revision \subseteq Nat /\ 0 \in Revision
  /\ Answer \in [Item -> [Revision -> {"bypass", "caught", "degraded gap", "gap"}]]
  /\ Unparsable \subseteq Item
  /\ CacheCap \in Nat /\ MaxRuns \in Nat /\ MaxKills \in Nat

VARIABLES
  source,   \* the revision of TrustSight's sources on disk
  cache,    \* cache.jsonl, by key
  lines,    \* the lines it has, superseded ones included
  pc,       \* where the gate is
  options,  \* its --jobs and --no-cache
  loaded,   \* the revision its own worker imported
  hashed,   \* the revision its cache keys name
  rows,     \* the results so far
  pending,  \* the bypasses the cache did not answer
  todo,     \* those of them still to replay, then to retry, then to remember
  patch,    \* the patch status the gate gave each cell
  runs, kills,
  edited    \* ghost: the sources were edited during some run

vars == <<source, cache, lines, pc, options, loaded, hashed, rows, pending,
          todo, patch, runs, kills, edited>>

State == {"open", "closed", "degraded", "inconclusive", "unreplayable"}
KeySet == [item : Item, revision : Revision, label : {LabelOf[r] : r \in Revision}]

TypeOK ==
  /\ {source, loaded, hashed} \subseteq Revision
  /\ DOMAIN cache \subseteq KeySet
  /\ \A k \in DOMAIN cache : cache[k] \in State \ {"degraded"}
  /\ lines \in Nat
  /\ pc \in {"idle", "hash", "load", "replay", "retry", "put", "publish"}
  /\ options \in [pool : BOOLEAN, cached : BOOLEAN]
  /\ DOMAIN rows \subseteq Item /\ \A i \in DOMAIN rows : rows[i] \in State
  /\ todo \subseteq pending /\ pending \subseteq Item
  /\ patch \in [Cell -> {"unknown", "verified", "regression"}]
  /\ runs \in 0..MaxRuns /\ kills \in 0..MaxKills /\ edited \in BOOLEAN

-----------------------------------------------------------------------------
\* Mutant: a refusal to answer counts as a catch.
ClassifyGapAsClosed(a) ==
  CASE a = "bypass" -> "open"
    [] a = "degraded gap" -> "degraded"
    [] OTHER -> "closed"
\* _classify: only a positive finding closes a bypass.
Classify(a) ==
  CASE a = "bypass" -> "open"
    [] a = "degraded gap" -> "degraded"
    [] a = "gap" -> "inconclusive"
    [] OTHER -> "closed"

\* What a replay at a revision can come back with: its answer, or a stage that
\* failed because the machine is busy.
Replays(i, r) ==
  IF i \in Unparsable THEN {"unreplayable"}
  ELSE {Classify(Answer[i][r]), "degraded"}

\* Mutant: the key names the declared version and not the sources.
KeyByLabel(i, r) == [item |-> i, revision |-> 0, label |-> LabelOf[r]]
\* cache_key: every input that can change the verdict; the instrument enters
\* by its version and by the hash of its sources.
Key(i, r) == [item |-> i, revision |-> r, label |-> LabelOf[r]]

\* The empty map, and the map f with x standing for v.
Empty == [x \in {} |-> x]
With(f, x, v) == [y \in DOMAIN f \cup {x} |-> IF y = x THEN v ELSE f[y]]

Init ==
  /\ source = 0 /\ loaded = 0 /\ hashed = 0
  /\ cache = Empty /\ lines = 0
  /\ pc = "idle" /\ options = [pool |-> FALSE, cached |-> FALSE]
  /\ rows = Empty /\ pending = {} /\ todo = {}
  /\ patch = [c \in Cell |-> "unknown"]
  /\ runs = 0 /\ kills = 0 /\ edited = FALSE

\* A run starts: its worker imports the instrument for the preflight.
Preflight(o) ==
  /\ pc = "idle" /\ runs < MaxRuns
  /\ pc' = "hash" /\ runs' = runs + 1
  /\ options' = o /\ loaded' = source
  /\ rows' = Empty /\ pending' = {} /\ todo' = {}
  /\ UNCHANGED <<source, cache, lines, hashed, patch, kills, edited>>

\* trustsight_source_hash reads the sources from disk.
HashSources ==
  /\ pc = "hash"
  /\ pc' = "load" /\ hashed' = source
  /\ UNCHANGED <<source, cache, lines, options, loaded, rows, pending, todo,
                 patch, runs, kills, edited>>

\* The cache is read, unless it is over the cap: then the gate refuses to run.
CacheRefused ==
  /\ pc = "load" /\ options.cached /\ lines > CacheCap
  /\ pc' = "idle"
  /\ UNCHANGED <<source, cache, lines, options, loaded, hashed, rows, pending,
                 todo, patch, runs, kills, edited>>

Hits == IF options.cached THEN {i \in Item : Key(i, hashed) \in DOMAIN cache} ELSE {}
LoadCache ==
  /\ pc = "load" /\ (options.cached => lines <= CacheCap)
  /\ rows' = [i \in Hits |-> cache[Key(i, hashed)]]
  /\ pending' = Item \ Hits /\ todo' = Item \ Hits
  /\ pc' = "replay"
  /\ UNCHANGED <<source, cache, lines, options, loaded, hashed, patch, runs,
                 kills, edited>>

\* A pool worker imports the instrument when it is spawned; a serial replay
\* uses the gate's own worker.
Replay(i) ==
  /\ pc = "replay" /\ i \in todo
  /\ \E s \in Replays(i, IF options.pool THEN source ELSE loaded) :
       rows' = With(rows, i, s)
  /\ todo' = todo \ {i}
  /\ UNCHANGED <<source, cache, lines, pc, options, loaded, hashed, pending,
                 patch, runs, kills, edited>>

Degraded == {i \in pending : rows[i] = "degraded"}
StartRetries ==
  /\ pc = "replay" /\ todo = {}
  /\ pc' = "retry" /\ todo' = Degraded
  /\ UNCHANGED <<source, cache, lines, options, loaded, hashed, rows, pending,
                 patch, runs, kills, edited>>

\* Once, by the gate's own worker.
Retry(i) ==
  /\ pc = "retry" /\ i \in todo
  /\ \E s \in Replays(i, loaded) : rows' = With(rows, i, s)
  /\ todo' = todo \ {i}
  /\ UNCHANGED <<source, cache, lines, pc, options, loaded, hashed, pending,
                 patch, runs, kills, edited>>

\* put: a degraded result is not remembered.
Remembered ==
  IF options.cached THEN {i \in pending : rows[i] # "degraded"} ELSE {}
StartPuts ==
  /\ pc = "retry" /\ todo = {}
  /\ pc' = "put" /\ todo' = Remembered
  /\ UNCHANGED <<source, cache, lines, options, loaded, hashed, rows, pending,
                 patch, runs, kills, edited>>

\* One line is appended; past the cap the file is rewritten with one line a key.
Put(i) ==
  /\ pc = "put" /\ i \in todo /\ \A j \in todo : i <= j
  /\ cache' = With(cache, Key(i, hashed), rows[i])
  /\ lines' = IF lines + 1 > CacheCap THEN Cardinality(DOMAIN cache') ELSE lines + 1
  /\ todo' = todo \ {i}
  /\ UNCHANGED <<source, pc, options, loaded, hashed, rows, pending, patch,
                 runs, kills, edited>>

\* _update_archive: the decided rows move their cells' status in replay order,
\* so the last decided bypass of a cell has the last word.
Decided == {i \in DOMAIN rows : rows[i] \in {"open", "closed"}}
Last(c) ==
  {i \in Decided : c \in CellOf[i] /\ \A j \in Decided : c \in CellOf[j] => j <= i}
Updated ==
  [c \in Cell |->
     IF Last(c) = {} THEN patch[c]
     ELSE IF \E i \in Last(c) : rows[i] = "closed" THEN "verified" ELSE "regression"]
Publish ==
  /\ pc = "put" /\ todo = {}
  /\ pc' = "publish" /\ patch' = Updated
  /\ UNCHANGED <<source, cache, lines, options, loaded, hashed, rows, pending,
                 todo, runs, kills, edited>>

\* report.json is written and the gate exits.
Exit ==
  /\ pc = "publish"
  /\ pc' = "idle"
  /\ UNCHANGED <<source, cache, lines, options, loaded, hashed, rows, pending,
                 todo, patch, runs, kills, edited>>

\* The gate is killed, a replay raises, or one worker of its pool dies, which
\* discards what the others brought.
Fail ==
  /\ pc # "idle" /\ kills < MaxKills
  /\ pc' = "idle" /\ kills' = kills + 1
  /\ rows' = Empty /\ pending' = {} /\ todo' = {}
  /\ UNCHANGED <<source, cache, lines, options, loaded, hashed, patch, runs, edited>>

\* The instrument is an editable checkout: somebody edits it.
Edit ==
  /\ source + 1 \in Revision
  /\ source' = source + 1 /\ edited' = (edited \/ pc # "idle")
  /\ UNCHANGED <<cache, lines, pc, options, loaded, hashed, rows, pending,
                 todo, patch, runs, kills>>

Next ==
  \/ \E o \in [pool : BOOLEAN, cached : BOOLEAN] : Preflight(o)
  \/ HashSources \/ CacheRefused \/ LoadCache
  \/ \E i \in Item : Replay(i) \/ Retry(i) \/ Put(i)
  \/ StartRetries \/ StartPuts \/ Publish \/ Exit \/ Fail \/ Edit

Spec == Init /\ [][Next]_vars

-----------------------------------------------------------------------------
(* Properties. *)

\* Every row of a run says what the installed sources say of that bypass, or
\* that the analysis failed; and a row answered from the cache never says that.
\* Provided the sources were never edited while the gate was running.
RowsAnswerTheirQuestion ==
  ~ edited /\ pc # "idle" =>
    \A i \in DOMAIN rows :
      \/ rows[i] \in Replays(i, source) \ {"degraded"}
      \/ rows[i] = "degraded" /\ i \in pending

\* A cell is never retired on an analysis that declined to answer: when a run
\* whose rows say something of a cell leaves it verified, some bypass of that
\* cell is caught by the installed sources.
GapRetiresNothing ==
  ~ edited /\ pc = "publish" =>
    \A c \in Cell :
      patch[c] = "verified" /\ Last(c) # {} =>
        \E i \in Item \ Unparsable : c \in CellOf[i] /\ Answer[i][source] = "caught"

=============================================================================
