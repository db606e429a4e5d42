-------------------------------- MODULE Grid --------------------------------
(***************************************************************************)
(* The shape archive as a value (harness/archive.py): a grid is a partial  *)
(* function from cells, the (rule, shape) pairs, to entries.  Campaigns    *)
(* and the regression gate hold grids of their own and merge them into one *)
(* shared file, which the hardness matrix (harness/matrix.py) renders.     *)
(*                                                                         *)
(* A representative diff is abstracted to its number of lines, 0 standing  *)
(* for the empty string; an observation to the key merge() dedups it by.   *)
(* The order of an entry's observations is never read, their number is: an *)
(* entry holds a bag of them.                                              *)
(***************************************************************************)
EXTENDS Integers, FiniteSets, BagsExt

CONSTANTS Cell,        \* (rule, shape) pairs
          Unshaped,    \* the cells whose shape the catalog cannot name
          CampaignName,\* campaign names
          Version      \* TrustSight versions

ASSUME GridAssumption == Unshaped \subseteq Cell

NoVersion == "none"

Obs == [campaign : CampaignName, attempt : Nat, version : Version]

IsObsBag(b) ==
  /\ b = [o \in DOMAIN b |-> b[o]]
  /\ DOMAIN b \subseteq Obs
  /\ \A o \in DOMAIN b : b[o] \in Nat \ {0}

IsEntry(e) ==
  /\ e \in [obs : {e.obs}, patch : {"", "verified", "regression"},
             closedAt : Version \cup {NoVersion}, dup : [Version -> Nat],
             degraded : BOOLEAN, rep : Nat]
  /\ IsObsBag(e.obs)

IsGrid(g) ==
  /\ g = [c \in DOMAIN g |-> g[c]]
  /\ DOMAIN g \subseteq Cell
  /\ \A c \in DOMAIN g : IsEntry(g[c])

NoObs == [o \in {} |-> 0]
EmptyGrid == [c \in {} |-> {}]

NewEntry(degraded) ==
  [obs |-> NoObs, patch |-> "", closedAt |-> NoVersion,
   dup |-> [v \in Version |-> 0], degraded |-> degraded, rep |-> 0]

Put(g, c, e) == [x \in DOMAIN g \cup {c} |-> IF x = c THEN e ELSE g[x]]

Known(g, c) == c \in DOMAIN g
EntryOr(g, c, default) == IF Known(g, c) THEN g[c] ELSE default

(* _better_rep: the smaller diff is the cell's face.                       *)
BetterRep(candidate, incumbent) ==
  IF candidate = 0 THEN incumbent = 0
                   ELSE incumbent = 0 \/ candidate < incumbent

(* observe: a confirmed bypass, appended without looking for its key.  An  *)
(* observation that is not degraded clears the mark of an existing cell.   *)
Observe(g, c, o, size, degraded) ==
  LET e == EntryOr(g, c, NewEntry(degraded))
  IN  Put(g, c, [e EXCEPT !.obs = BagAdd(@, o),
                          !.degraded = @ /\ degraded,
                          !.rep = IF BetterRep(size, @) THEN size ELSE @])

(* note_duplicate: the entry is created when the cell has none.            *)
NoteDuplicate(g, c, v) ==
  LET e == EntryOr(g, c, NewEntry(FALSE))
  IN  Put(g, c, [e EXCEPT !.dup[v] = @ + 1])

(* set_patch_status with create=True, the way the gate calls it.           *)
SetPatchStatus(g, c, s, v) ==
  LET e == EntryOr(g, c, NewEntry(FALSE))
  IN  Put(g, c, [e EXCEPT !.patch = s,
                          !.closedAt = IF s = "verified" THEN v ELSE NoVersion])

(* One note per cell, the loop of _validate over the cells of a diff.      *)
NoteAll(g, cells, v) ==
  [c \in DOMAIN g \cup cells |->
     IF c \in cells THEN NoteDuplicate(g, c, v)[c] ELSE g[c]]

(* One observation per cell, the loop of run_campaign over a new bypass.   *)
ObserveAll(g, cells, o, size, degraded) ==
  [c \in DOMAIN g \cup cells |->
     IF c \in cells THEN Observe(g, c, o, size, degraded)[c] ELSE g[c]]

(* The observations of an entry at one version, told apart by a number.    *)
Verified(e, v) == UNION {{o} \X (1..e.obs[o]) : o \in {k \in DOMAIN e.obs : k.version = v}}
VerifiedCount(e, v) == Cardinality(Verified(e, v))

(* Mutant: one observation too many before a cell saturates.               *)
IsClosedLate(g, c, v, saturation) ==
  /\ Known(g, c)
  /\ g[c].patch = "verified" \/ VerifiedCount(g[c], v) > saturation

(* is_closed: a verified patch closes a cell whatever the version asked.   *)
IsClosed(g, c, v, saturation) ==
  /\ Known(g, c)
  /\ g[c].patch = "verified" \/ VerifiedCount(g[c], v) >= saturation

(* Mutant: every observation is appended.                                   *)
MergeEntryAppends(mine, other) ==
  [mine EXCEPT
     !.obs = [o \in DOMAIN mine.obs \cup DOMAIN other.obs |->
                (IF o \in DOMAIN mine.obs THEN mine.obs[o] ELSE 0)
                  + (IF o \in DOMAIN other.obs THEN other.obs[o] ELSE 0)]]

(* CellEntry.merge.  An observation whose key the entry has is skipped; one *)
(* it does not have is taken as often as the incoming entry holds it.      *)
MergeEntry(mine, other) ==
  [obs      |-> [o \in DOMAIN mine.obs \cup DOMAIN other.obs |->
                  IF o \in DOMAIN mine.obs THEN mine.obs[o] ELSE other.obs[o]],
   patch    |-> IF other.patch # "" THEN other.patch ELSE mine.patch,
   closedAt |-> IF other.patch # "" THEN other.closedAt ELSE mine.closedAt,
   dup      |-> [v \in Version |-> IF other.dup[v] > mine.dup[v]
                                     THEN other.dup[v] ELSE mine.dup[v]],
   degraded |-> mine.degraded /\ other.degraded,
   rep      |-> IF other.rep # 0 /\ BetterRep(other.rep, mine.rep)
                  THEN other.rep ELSE mine.rep]

(* The loop of merge_into over the incoming cells.                         *)
Merge(base, other) ==
  [c \in DOMAIN base \cup DOMAIN other |->
     IF ~ Known(other, c) THEN base[c]
     ELSE IF ~ Known(base, c) THEN other[c]
     ELSE MergeEntry(base[c], other[c])]

(* slice: only the cells one campaign filled.                              *)
Slice(g, cells) == [c \in DOMAIN g \cap cells |-> g[c]]

=============================================================================
