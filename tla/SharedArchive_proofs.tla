------------------------ MODULE SharedArchive_proofs ------------------------
(***************************************************************************)
(* The shared archive for any number of campaigns and gates, any cells and *)
(* any pattern of kills: the lock makes a merge atomic, and nothing that   *)
(* was published is lost.                                                  *)
(***************************************************************************)
EXTENDS SharedArchive, Grid_proofs

LEMMA EmptyGridType == IsGrid(EmptyGrid)
  BY DEF EmptyGrid, IsGrid

LEMMA StatusIsEntry ==
  ASSUME NEW c \in Cell, NEW v \in Version, NEW s \in {"verified", "regression"}
  PROVE  IsEntry(SetPatchStatus(EmptyGrid, c, s, v)[c])
<1> DEFINE e == NewEntry(FALSE)
           f == [e EXCEPT !.patch = s,
                          !.closedAt = IF s = "verified" THEN v ELSE NoVersion]
<1>1. IsEntry(e)
  BY NewEntryIsEntry
<1>2. SetPatchStatus(EmptyGrid, c, s, v)[c] = f
  BY DEF SetPatchStatus, Put, EntryOr, Known, EmptyGrid
<1> HIDE DEF e
<1>3. f.obs = e.obs
  BY <1>1 DEF IsEntry
<1>4. IsEntry(f)
  BY <1>1, <1>3 DEF IsEntry
<1> QED BY <1>2, <1>4

LEMMA StatusesIsGrid ==
  ASSUME NEW w \in Writer, NEW given
  PROVE  IsGrid(Statuses(w, given))
<1>1. VersionOf[w] \in Version
  BY SharedAssumption
<1>2. \A c \in Cell : \A s \in {"verified", "regression"} :
        IsEntry(SetPatchStatus(EmptyGrid, c, s, VersionOf[w])[c])
  BY <1>1, StatusIsEntry
<1> QED BY <1>2 DEF Statuses, IsGrid

LEMMA EntryKeeps ==
  ASSUME NEW e, NEW f, IsEntry(e), IsEntry(f)
  PROVE  /\ DOMAIN e.obs \subseteq DOMAIN MergeEntry(e, f).obs
         /\ \A v \in Version : e.dup[v] <= MergeEntry(e, f).dup[v]
         /\ e.rep # 0 => MergeEntry(e, f).rep \in 1..e.rep
<1>1. DOMAIN e.obs \subseteq DOMAIN MergeEntry(e, f).obs
  BY DEF MergeEntry
<1>2. ASSUME NEW v \in Version
      PROVE  e.dup[v] <= MergeEntry(e, f).dup[v]
  <2>1. e.dup[v] \in Nat /\ f.dup[v] \in Nat
    BY DEF IsEntry
  <2>2. MergeEntry(e, f).dup[v] = IF f.dup[v] > e.dup[v] THEN f.dup[v] ELSE e.dup[v]
    BY DEF MergeEntry
  <2> QED BY <2>1, <2>2
<1>3. ASSUME e.rep # 0
      PROVE  MergeEntry(e, f).rep \in 1..e.rep
  <2>1. e.rep \in Nat /\ f.rep \in Nat
    BY DEF IsEntry
  <2>2. MergeEntry(e, f).rep = IF f.rep # 0 /\ BetterRep(f.rep, e.rep)
                                 THEN f.rep ELSE e.rep
    BY DEF MergeEntry
  <2> QED BY <1>3, <2>1, <2>2 DEF BetterRep
<1> QED BY <1>1, <1>2, <1>3

(* A merge keeps what the base had.                                        *)
LEMMA MergeKeeps ==
  ASSUME NEW g, NEW h, IsGrid(g), IsGrid(h)
  PROVE  KeepsWhat(g, Merge(g, h))
<1>1. DOMAIN g \subseteq DOMAIN Merge(g, h)
  BY DEF Merge
<1>2. ASSUME NEW c \in DOMAIN g
      PROVE  /\ DOMAIN g[c].obs \subseteq DOMAIN Merge(g, h)[c].obs
             /\ \A v \in Version : g[c].dup[v] <= Merge(g, h)[c].dup[v]
             /\ g[c].rep # 0 => Merge(g, h)[c].rep \in 1..g[c].rep
  <2>1. IsEntry(g[c])
    BY DEF IsGrid
  <2>2. CASE c \notin DOMAIN h
    <3>1. Merge(g, h)[c] = g[c]
      BY <2>2 DEF Merge, Known
    <3>2. \A v \in Version : g[c].dup[v] \in Nat
      BY <2>1 DEF IsEntry
    <3>3. g[c].rep \in Nat
      BY <2>1 DEF IsEntry
    <3> QED BY <3>1, <3>2, <3>3
  <2>3. CASE c \in DOMAIN h
    <3>1. IsEntry(h[c])
      BY <2>3 DEF IsGrid
    <3>2. Merge(g, h)[c] = MergeEntry(g[c], h[c])
      BY <2>3 DEF Merge, Known
    <3> QED BY <2>1, <3>1, <3>2, EntryKeeps
  <2> QED BY <2>2, <2>3
<1> QED BY <1>1, <1>2 DEF KeepsWhat

-----------------------------------------------------------------------------
(* Typing.                                                                 *)

LEMMA TypeNext ==
  ASSUME TypeOK, [Next]_vars
  PROVE  TypeOK'
<1> USE DEF TypeOK, Step, work
<1>1. CASE \E w \in Campaign : Load(w)
  BY <1>1 DEF Load, MayStart, Writer
<1>2. CASE \E w \in Campaign : EndRun(w)
  BY <1>2 DEF EndRun, Writer
<1>3. CASE \E w \in Campaign, cells \in Diffs : Duplicate(w, cells)
  <2> PICK w \in Campaign, cells \in Diffs : Duplicate(w, cells)
    BY <1>3
  <2>1. w \in Writer /\ VersionOf[w] \in Version /\ cells \in SUBSET Cell
    BY SharedAssumption DEF Writer
  <2>2. IsGrid(NoteAll(mem[w], cells, VersionOf[w]))
    BY <2>1, NoteAllIsGrid
  <2> QED BY <2>1, <2>2 DEF Duplicate, Attempting
<1>4. CASE \E w \in Campaign, cells \in Diffs : NoBypass(w, cells)
  BY <1>4, SharedAssumption DEF NoBypass, Attempting, Writer
<1>5. CASE \E w \in Campaign, cells \in Diffs, size \in Sizes : Bypass(w, cells, size)
  <2> PICK w \in Campaign, cells \in Diffs, size \in Sizes : Bypass(w, cells, size)
    BY <1>5
  <2>1. /\ w \in Writer /\ VersionOf[w] \in Version /\ cells \in SUBSET Cell
        /\ size \in Nat /\ (w \in Fallback) \in BOOLEAN
    BY SharedAssumption DEF Writer
  <2> DEFINE o == [campaign |-> w, attempt |-> attempt[w], version |-> VersionOf[w]]
  <2>2. o \in Obs
    BY <2>1 DEF Obs, Campaign
  <2> HIDE DEF o
  <2>3. IsGrid(ObserveAll(mem[w], cells, o, size, w \in Fallback))
    BY <2>1, <2>2, ObserveAllIsGrid
  <2> QED BY <2>1, <2>3 DEF Bypass, Attempting, o
<1>6. CASE \E w \in Gate : Replay(w)
  <2> PICK w \in Gate : Replay(w)
    BY <1>6
  <2>1. PICK given \in [DOMAIN Replayed -> {"open", "closed", "neither"}] :
             /\ mem' = [mem EXCEPT ![w] = Statuses(w, given)]
             /\ pc' = [pc EXCEPT ![w] = IF DOMAIN Statuses(w, given) = {}
                                          THEN "idle" ELSE "wait"]
    BY DEF Replay
  <2>2. w \in Writer /\ IsGrid(Statuses(w, given))
    BY StatusesIsGrid DEF Writer
  <2> QED BY <2>1, <2>2 DEF Replay
<1>7. CASE \E w \in Writer : Acquire(w) \/ Release(w)
  BY <1>7 DEF Acquire, Release
<1>8. CASE \E w \in Writer : ReadBase(w)
  BY <1>8 DEF ReadBase
<1>9. CASE \E w \in Writer : Save(w)
  BY <1>9, MergeIsGrid, EmptyGridType DEF Save
<1>10. CASE \E w \in Writer : Kill(w)
  BY <1>10, EmptyGridType DEF Kill
<1>11. CASE UNCHANGED vars
  BY <1>11 DEF vars
<1> QED BY <1>1, <1>2, <1>3, <1>4, <1>5, <1>6, <1>7, <1>8, <1>9, <1>10, <1>11
        DEF Next, Campaigning, Merging

(* TypeOK holds of every behaviour of the writers.                         *)
THEOREM TypeCorrect == Spec => []TypeOK
<1>1. Init => TypeOK
  BY SharedAssumption, EmptyGridType DEF Init, TypeOK, Writer
<1>2. TypeOK /\ [Next]_vars => TypeOK'
  BY TypeNext
<1> QED BY <1>1, <1>2, PTL DEF Spec

-----------------------------------------------------------------------------
(* The lock.                                                               *)

(* Whoever is between Acquire and Release holds the lock, and a grid read  *)
(* under it is still the file's.                                           *)
Locked ==
  /\ \A w \in Writer : pc[w] \in {"read", "save", "unlock"} => lock = w
  /\ \A w \in Writer : pc[w] = "save" => base[w] = file

LEMMA LockedNext ==
  ASSUME TypeOK, Locked, [Next]_vars
  PROVE  Locked'
<1> USE DEF TypeOK, Locked, Step, work
<1>1. CASE \E w \in Campaign : Load(w) \/ EndRun(w)
  BY <1>1 DEF Load, EndRun, MayStart, Writer
<1>2. CASE \E w \in Campaign, cells \in Diffs :
              \/ Duplicate(w, cells) \/ NoBypass(w, cells)
              \/ \E size \in Sizes : Bypass(w, cells, size)
  BY <1>2 DEF Duplicate, NoBypass, Bypass, Attempting
<1>3. CASE \E w \in Gate : Replay(w)
  BY <1>3 DEF Replay, MayStart, Writer
<1>4. CASE \E w \in Writer : Acquire(w)
  BY <1>4, SharedAssumption DEF Acquire
<1>5. CASE \E w \in Writer : ReadBase(w)
  BY <1>5 DEF ReadBase
<1>6. CASE \E w \in Writer : Save(w)
  BY <1>6 DEF Save
<1>7. CASE \E w \in Writer : Release(w)
  BY <1>7 DEF Release
<1>8. CASE \E w \in Writer : Kill(w)
  BY <1>8 DEF Kill
<1>9. CASE UNCHANGED vars
  BY <1>9 DEF vars
<1> QED BY <1>1, <1>2, <1>3, <1>4, <1>5, <1>6, <1>7, <1>8, <1>9
        DEF Next, Campaigning, Merging

LEMMA LockedInvariant == Spec => []Locked
<1>1. Init => Locked
  BY DEF Init, Locked
<1>2. TypeOK /\ Locked /\ [Next]_vars => Locked'
  BY LockedNext
<1> QED BY TypeCorrect, <1>1, <1>2, PTL DEF Spec

(* The file changes only when a grid read under the lock is merged with    *)
(* the writer's own.                                                       *)
LEMMA FileChange ==
  ASSUME TypeOK, Locked, [Next]_vars, file' # file
  PROVE  \E w \in Writer : file' = Merge(file, mem[w]) /\ mem' = mem
<1>1. \E w \in Writer : Save(w)
  BY DEF Next, Campaigning, Merging, vars, Load, EndRun, Duplicate, NoBypass, Bypass,
         Attempting, Replay, Acquire, ReadBase, Release, Kill
<1> PICK w \in Writer : Save(w)
  BY <1>1
<1>2. base[w] = file
  BY DEF Save, Step, Locked
<1> QED BY <1>2 DEF Save

(* Nothing that was published is lost: no merge of any writer removes an    *)
(* observation or lowers a duplicate count.                                 *)
THEOREM Kept == Spec => NothingIsLost
<1>1. TypeOK /\ Locked /\ [Next]_vars => [KeepsWhat(file, file')]_vars
  <2> SUFFICES ASSUME TypeOK, Locked, [Next]_vars PROVE KeepsWhat(file, file')
    OBVIOUS
  <2>1. CASE file' = file
    <3>1. \A c \in DOMAIN file : IsEntry(file[c])
      BY DEF TypeOK, IsGrid
    <3>2. \A c \in DOMAIN file : \A v \in Version : file[c].dup[v] \in Nat
      BY <3>1 DEF IsEntry
    <3>3. \A c \in DOMAIN file : file[c].rep \in Nat
      BY <3>1 DEF IsEntry
    <3> QED BY <2>1, <3>2, <3>3 DEF KeepsWhat
  <2>2. CASE file' # file
    BY <2>2, FileChange, MergeKeeps DEF TypeOK
  <2> QED BY <2>1, <2>2
<1> QED BY TypeCorrect, LockedInvariant, <1>1, PTL DEF Spec, NothingIsLost

LEMMA SameGrid ==
  /\ \A g : Atomic!IsGrid(g) <=> IsGrid(g)
  /\ \A g, h : Atomic!Merge(g, h) = Merge(g, h)
  /\ Atomic!EmptyGrid = EmptyGrid
<1>1. \A g : Atomic!IsGrid(g) <=> IsGrid(g)
  BY DEF Atomic!IsGrid, IsGrid, Atomic!IsEntry, IsEntry, Atomic!IsObsBag, IsObsBag,
         Atomic!Obs, Obs, Atomic!NoVersion, NoVersion
<1>2. \A g, h : Atomic!Merge(g, h) = Merge(g, h)
  BY DEF Atomic!Merge, Merge, Atomic!Known, Known, Atomic!MergeEntry, MergeEntry,
         Atomic!BetterRep, BetterRep
<1>3. Atomic!EmptyGrid = EmptyGrid
  BY DEF Atomic!EmptyGrid, EmptyGrid
<1> QED BY <1>1, <1>2, <1>3

(* The lock, the read and the rename implement the one-step merge.         *)
THEOREM MergeIsAtomic == Spec => AtomicSpec
<1>1. Init => Atomic!Init
  BY SharedAssumption, SameGrid DEF Init, Atomic!Init
<1>2. TypeOK /\ TypeOK' /\ Locked /\ [Next]_vars => [Atomic!Next]_<<file, mem>>
  <2> SUFFICES ASSUME TypeOK, TypeOK', Locked, [Next]_vars, <<file, mem>>' # <<file, mem>>
               PROVE  Atomic!Next
    OBVIOUS
  <2>1. CASE file' # file
    BY <2>1, FileChange, SameGrid DEF Atomic!Next, Atomic!Publish
  <2>2. CASE file' = file
    <3>1. \E w \in Writer : mem' = [mem EXCEPT ![w] = mem'[w]]
      <4> USE DEF TypeOK
      <4>1. CASE \E w \in Campaign : Campaigning(w)
        BY <4>1, <2>2 DEF Campaigning, Load, EndRun, Duplicate, NoBypass, Bypass,
                          Attempting, Writer
      <4>2. CASE \E w \in Gate : Replay(w)
        <5> PICK w \in Gate : Replay(w)
          BY <4>2
        <5>1. PICK given : mem' = [mem EXCEPT ![w] = Statuses(w, given)]
          BY DEF Replay
        <5>2. w \in Writer /\ mem'[w] = Statuses(w, given)
          BY <5>1 DEF Writer
        <5> QED BY <5>1, <5>2
      <4>3. CASE \E w \in Writer : Merging(w) \/ Kill(w)
        BY <4>3, <2>2 DEF Merging, Acquire, ReadBase, Save, Release, Kill
      <4> QED BY <4>1, <4>2, <4>3, <2>2 DEF Next, vars
    <3>2. \A w \in Writer : IsGrid(mem'[w])
      BY DEF TypeOK
    <3> QED BY <3>1, <3>2, <2>2, SameGrid DEF Atomic!Next, Atomic!Prepare
  <2> QED BY <2>1, <2>2
<1> QED BY TypeCorrect, LockedInvariant, <1>1, <1>2, PTL DEF Spec, AtomicSpec, Atomic!Spec

-----------------------------------------------------------------------------
(* What finished is published.                                             *)

(* A grid whose cells and observations another one has.                    *)
Covered(g, f) ==
  /\ DOMAIN g \subseteq DOMAIN f
  /\ \A c \in Cell : ObsOf(g, c) \subseteq ObsOf(f, c)

LEMMA CoveredByMerge ==
  ASSUME NEW g, NEW h
  PROVE  Covered(g, Merge(g, h)) /\ Covered(h, Merge(g, h))
<1>1. DOMAIN Merge(g, h) = DOMAIN g \cup DOMAIN h
  BY DEF Merge
<1>2. \A c : ObsOf(Merge(g, h), c) = ObsOf(g, c) \cup ObsOf(h, c)
  BY MergeObs
<1> QED BY <1>1, <1>2 DEF Covered

(* The file only grows, whoever takes the step.                            *)
LEMMA FileGrows ==
  ASSUME TypeOK, Locked, [Next]_vars
  PROVE  Covered(file, file')
<1>1. CASE file' = file
  BY <1>1 DEF Covered
<1>2. CASE file' # file
  BY <1>2, FileChange, CoveredByMerge
<1> QED BY <1>1, <1>2

(* The memory of a campaign that has merged stays in the file.             *)
Finished == \A w \in Campaign : pc[w] \in {"unlock", "idle"} => Covered(mem[w], file)

LEMMA FinishedNext ==
  ASSUME TypeOK, Locked, Finished, [Next]_vars
  PROVE  Finished'
<1> SUFFICES ASSUME NEW x \in Campaign, pc'[x] \in {"unlock", "idle"}
             PROVE  Covered(mem'[x], file')
  BY DEF Finished
<1>0. Covered(file, file') /\ x \in Writer
  BY FileGrows DEF Writer
<1>1. CASE pc[x] \in {"unlock", "idle"} /\ mem'[x] = mem[x]
  BY <1>0, <1>1 DEF Finished, Covered
<1>2. CASE Save(x)
  <2>1. file' = Merge(file, mem[x]) /\ mem' = mem
    BY <1>0, <1>2 DEF Save, Step, Locked
  <2> QED BY <2>1, CoveredByMerge
<1>3. \/ pc[x] \in {"unlock", "idle"} /\ mem'[x] = mem[x]
      \/ Save(x)
  <2> USE DEF TypeOK, Step, work
  <2>1. CASE \E w \in Campaign : Load(w) \/ EndRun(w)
    BY <1>0, <2>1 DEF Load, EndRun, MayStart
  <2>2. CASE \E w \in Campaign, cells \in Diffs :
                \/ Duplicate(w, cells) \/ NoBypass(w, cells)
                \/ \E size \in Sizes : Bypass(w, cells, size)
    BY <1>0, <2>2 DEF Duplicate, NoBypass, Bypass, Attempting
  <2>3. CASE \E w \in Gate : Replay(w)
    BY <1>0, <2>3, SharedAssumption DEF Replay, MayStart
  <2>4. CASE \E w \in Writer : Acquire(w) \/ ReadBase(w) \/ Release(w)
    BY <1>0, <2>4 DEF Acquire, ReadBase, Release
  <2>5. CASE \E w \in Writer : Save(w)
    BY <1>0, <2>5 DEF Save
  <2>6. CASE \E w \in Writer : Kill(w)
    BY <1>0, <2>6 DEF Kill
  <2>7. CASE UNCHANGED vars
    BY <2>7 DEF vars
  <2> QED BY <2>1, <2>2, <2>3, <2>4, <2>5, <2>6, <2>7 DEF Next, Campaigning, Merging
<1> QED BY <1>1, <1>2, <1>3

(* A campaign that finished is in the file for good, with every bypass it   *)
(* saw, whichever merges, runs and kills come after.                        *)
THEOREM FinishedStays == Spec => []FinishedIsPublished
<1>1. Init => Finished
  BY DEF Init, Finished, Covered, EmptyGrid, ObsOf, Known, Writer
<1>2. TypeOK /\ Locked /\ Finished /\ [Next]_vars => Finished'
  BY FinishedNext
<1>3. TypeOK /\ Finished => FinishedIsPublished
  <2> SUFFICES ASSUME TypeOK, Finished, NEW w \in Campaign, pc[w] \in {"unlock", "idle"},
                      NEW c \in DOMAIN mem[w]
               PROVE  Known(file, c) /\ DOMAIN mem[w][c].obs \subseteq DOMAIN file[c].obs
    BY DEF FinishedIsPublished
  <2>1. Covered(mem[w], file)
    BY DEF Finished
  <2>2. c \in Cell /\ c \in DOMAIN file
    BY <2>1 DEF Covered, TypeOK, IsGrid, Writer
  <2> QED BY <2>1, <2>2 DEF Covered, ObsOf, Known
<1> QED BY TypeCorrect, LockedInvariant, <1>1, <1>2, <1>3, PTL DEF Spec

-----------------------------------------------------------------------------
(* Provenance.                                                             *)

Once(g) == \A c \in DOMAIN g : \A o \in DOMAIN g[c].obs : g[c].obs[o] = 1

(* An observation that a memory holds twice is one that the file has.      *)
OnceOr(g, f) ==
  \A c \in DOMAIN g : \A o \in DOMAIN g[c].obs : g[c].obs[o] = 1 \/ o \in ObsOf(f, c)

(* An observation that the campaign has yet to make, and that its memory    *)
(* holds from an earlier run of its, is one that the file has.              *)
Renumbered(w, n, g, f) ==
  \A c \in DOMAIN g : \A o \in DOMAIN g[c].obs :
    o.campaign = w /\ o.version = VersionOf[w] /\ o.attempt \notin 0..(n - 1)
      => o \in ObsOf(f, c)

(* What makes ProvenanceOnce inductive: a merge takes over the count of an  *)
(* observation only when the file does not have it.                         *)
Provenance ==
  /\ Once(file)
  /\ \A w \in Writer : OnceOr(mem[w], file) /\ Renumbered(w, attempt[w], mem[w], file)

LEMMA MergeEntryObs ==
  ASSUME NEW e, NEW f
  PROVE  MergeEntry(e, f).obs = [k \in DOMAIN e.obs \cup DOMAIN f.obs |->
                                   IF k \in DOMAIN e.obs THEN e.obs[k] ELSE f.obs[k]]
  BY DEF MergeEntry

LEMMA MergeOnce ==
  ASSUME NEW g, NEW h, Once(g), OnceOr(h, g)
  PROVE  Once(Merge(g, h))
<1> SUFFICES ASSUME NEW c \in DOMAIN Merge(g, h), NEW o \in DOMAIN Merge(g, h)[c].obs
             PROVE  Merge(g, h)[c].obs[o] = 1
  BY DEF Once
<1>1. c \in DOMAIN g \cup DOMAIN h
  BY DEF Merge
<1>2. CASE c \notin DOMAIN h
  BY <1>1, <1>2 DEF Merge, Known, Once
<1>3. CASE c \in DOMAIN h /\ c \notin DOMAIN g
  <2>1. Merge(g, h)[c] = h[c] /\ ObsOf(g, c) = {}
    BY <1>1, <1>3 DEF Merge, Known, ObsOf
  <2> QED BY <1>3, <2>1 DEF OnceOr
<1>4. CASE c \in DOMAIN h /\ c \in DOMAIN g
  <2>1. Merge(g, h)[c] = MergeEntry(g[c], h[c])
    BY <1>4 DEF Merge, Known
  <2>2. Merge(g, h)[c].obs = [k \in DOMAIN g[c].obs \cup DOMAIN h[c].obs |->
                                IF k \in DOMAIN g[c].obs THEN g[c].obs[k] ELSE h[c].obs[k]]
    BY <2>1, MergeEntryObs
  <2>3. CASE o \in DOMAIN g[c].obs
    BY <1>4, <2>2, <2>3 DEF Once
  <2>4. CASE o \notin DOMAIN g[c].obs
    <3>1. o \in DOMAIN h[c].obs /\ Merge(g, h)[c].obs[o] = h[c].obs[o]
      BY <2>2, <2>4
    <3>2. o \notin ObsOf(g, c)
      BY <1>4, <2>4 DEF ObsOf, Known
    <3> QED BY <1>4, <3>1, <3>2 DEF OnceOr
  <2> QED BY <2>3, <2>4
<1> QED BY <1>1, <1>2, <1>3, <1>4

LEMMA OnceLater ==
  ASSUME NEW w, NEW n, NEW g, IsGrid(g), NEW f, NEW k, Covered(f, k),
         OnceOr(g, f), Renumbered(w, n, g, f)
  PROVE  OnceOr(g, k) /\ Renumbered(w, n, g, k)
<1>1. \A c \in DOMAIN g : ObsOf(f, c) \subseteq ObsOf(k, c)
  BY DEF Covered, IsGrid
<1> QED BY <1>1 DEF OnceOr, Renumbered

(* A memory whose entries hold what another's held, or nothing.            *)
LEMMA OnceNoted ==
  ASSUME NEW w, NEW n, NEW m \in Nat, NEW g, IsGrid(g), NEW f, NEW S \in SUBSET Cell,
         NEW v \in Version, n \in Nat, n <= m,
         OnceOr(g, f), Renumbered(w, n, g, f)
  PROVE  /\ OnceOr(NoteAll(g, S, v), f)
         /\ Renumbered(w, m, NoteAll(g, S, v), f)
<1> DEFINE h == NoteAll(g, S, v)
<1>1. ASSUME NEW c \in DOMAIN h
      PROVE  (c \in DOMAIN g /\ h[c].obs = g[c].obs) \/ DOMAIN h[c].obs = {}
  <2>1. c \in DOMAIN g \cup S
    BY DEF NoteAll
  <2>2. CASE c \in S
    <3>1. h[c] = NoteDuplicate(g, c, v)[c]
      BY <2>2 DEF NoteAll
    <3>2. h[c].obs = EntryOr(g, c, NewEntry(FALSE)).obs
      BY <2>2, <3>1, NoteBag
    <3>3. NewEntry(FALSE).obs = NoObs /\ DOMAIN NoObs = {}
      BY DEF NewEntry, NoObs
    <3> HIDE DEF h
    <3> QED BY <3>2, <3>3 DEF EntryOr, Known
  <2>3. CASE c \notin S
    BY <2>1, <2>3 DEF NoteAll
  <2> QED BY <2>2, <2>3
<1>2. \A x : x \notin 0..(m - 1) => x \notin 0..(n - 1)
  OBVIOUS
<1> HIDE DEF h
<1>3. OnceOr(h, f)
  BY <1>1 DEF OnceOr
<1>4. Renumbered(w, m, h, f)
  BY <1>1, <1>2 DEF Renumbered
<1> QED BY <1>3, <1>4 DEF h

LEMMA OnceObserved ==
  ASSUME NEW w \in Campaign, NEW n \in Nat, NEW g, IsGrid(g), NEW f, NEW S \in SUBSET Cell,
         NEW size \in Nat, NEW d \in BOOLEAN, NEW o, VersionOf[w] \in Version,
         o = [campaign |-> w, attempt |-> n, version |-> VersionOf[w]],
         OnceOr(g, f), Renumbered(w, n, g, f)
  PROVE  /\ OnceOr(ObserveAll(g, S, o, size, d), f)
         /\ Renumbered(w, n + 1, ObserveAll(g, S, o, size, d), f)
<1> DEFINE h == ObserveAll(g, S, o, size, d)
<1>1. ASSUME NEW c \in DOMAIN h, NEW k \in DOMAIN h[c].obs
      PROVE  \/ c \in DOMAIN g /\ k \in DOMAIN g[c].obs /\ (k = o \/ h[c].obs[k] = g[c].obs[k])
             \/ k = o /\ h[c].obs[k] = 1
  <2>1. c \in DOMAIN g \cup S
    BY DEF ObserveAll
  <2>2. CASE c \in S
    <3> DEFINE e == EntryOr(g, c, NewEntry(d))
    <3>1. h[c] = Observe(g, c, o, size, d)[c]
      BY <2>2 DEF ObserveAll
    <3>2. h[c].obs = BagAdd(e.obs, o)
      BY <2>2, <3>1, ObserveBag
    <3>3. NewEntry(d).obs = NoObs /\ DOMAIN NoObs = {}
      BY DEF NewEntry, NoObs
    <3> HIDE DEF h
    <3>4. k \in DOMAIN e.obs \cup {o}
      BY <3>2, BagAddDomain
    <3>5. k # o => h[c].obs[k] = e.obs[k]
      BY <3>2, <3>4 DEF BagAdd
    <3>6. k = o /\ o \notin DOMAIN e.obs => h[c].obs[k] = 1
      BY <3>2 DEF BagAdd
    <3> QED BY <3>3, <3>4, <3>5, <3>6 DEF EntryOr, Known
  <2>3. CASE c \notin S
    <3>1. c \in DOMAIN g /\ h[c] = g[c]
      BY <2>1, <2>3 DEF ObserveAll
    <3> HIDE DEF h
    <3> QED BY <3>1
  <2> QED BY <2>2, <2>3
<1>2. o.campaign = w /\ o.version = VersionOf[w] /\ o.attempt = n
  OBVIOUS
<1>3. n \notin 0..(n - 1) /\ n \in 0..(n + 1 - 1)
  OBVIOUS
<1>4. \A x : x \notin 0..(n + 1 - 1) => x \notin 0..(n - 1)
  OBVIOUS
<1> HIDE DEF h
<1>5. ASSUME NEW c \in DOMAIN g, o \in DOMAIN g[c].obs PROVE o \in ObsOf(f, c)
  BY <1>2, <1>3, <1>5 DEF Renumbered
<1>6. ASSUME NEW c \in DOMAIN h, NEW k \in DOMAIN h[c].obs
      PROVE  h[c].obs[k] = 1 \/ k \in ObsOf(f, c)
  BY <1>1, <1>5, <1>6 DEF OnceOr
<1>7. ASSUME NEW c \in DOMAIN h, NEW k \in DOMAIN h[c].obs,
             k.campaign = w, k.version = VersionOf[w], k.attempt \notin 0..(n + 1 - 1)
      PROVE  k \in ObsOf(f, c)
  <2>1. k # o
    BY <1>2, <1>3, <1>7
  <2> QED BY <1>1, <1>4, <1>7, <2>1 DEF Renumbered
<1> QED BY <1>6, <1>7 DEF OnceOr, Renumbered, h

(* A memory that holds no observation, or the file itself.                 *)
LEMMA OnceFresh ==
  ASSUME NEW w, NEW n, NEW g, NEW f, \A c \in DOMAIN g : DOMAIN g[c].obs = {} \/ g = f
  PROVE  OnceOr(g, f) /\ Renumbered(w, n, g, f)
  BY DEF OnceOr, Renumbered, ObsOf, Known

LEMMA StatusesEmpty ==
  ASSUME NEW w, NEW given
  PROVE  \A c \in DOMAIN Statuses(w, given) : DOMAIN Statuses(w, given)[c].obs = {}
<1>1. ASSUME NEW c, NEW s, NEW v
      PROVE  DOMAIN SetPatchStatus(EmptyGrid, c, s, v)[c].obs = {}
  <2>1. EntryOr(EmptyGrid, c, NewEntry(FALSE)) = NewEntry(FALSE)
    BY DEF EntryOr, Known, EmptyGrid
  <2>2. SetPatchStatus(EmptyGrid, c, s, v)[c].obs = NewEntry(FALSE).obs
    BY <2>1 DEF SetPatchStatus, Put, NewEntry
  <2> QED BY <2>2 DEF NewEntry, NoObs
<1> QED BY <1>1 DEF Statuses

LEMMA ProvenanceNext ==
  ASSUME TypeOK, Locked, Provenance, [Next]_vars
  PROVE  Provenance'
<1>1. Once(file')
  <2>1. CASE file' = file
    BY <2>1 DEF Provenance
  <2>2. CASE file' # file
    <3> PICK w \in Writer : file' = Merge(file, mem[w])
      BY <2>2, FileChange
    <3> QED BY MergeOnce DEF Provenance
  <2> QED BY <2>1, <2>2
<1>2. ASSUME NEW x \in Writer
      PROVE  OnceOr(mem'[x], file') /\ Renumbered(x, attempt'[x], mem'[x], file')
  <2>0. /\ Covered(file, file') /\ IsGrid(mem[x]) /\ attempt[x] \in Nat
        /\ OnceOr(mem[x], file) /\ Renumbered(x, attempt[x], mem[x], file)
    BY FileGrows DEF Provenance, TypeOK
  <2>1. CASE mem'[x] = mem[x] /\ attempt'[x] = attempt[x]
    BY <2>0, <2>1, OnceLater
  <2>2. CASE \A c \in DOMAIN mem'[x] : DOMAIN mem'[x][c].obs = {} \/ mem'[x] = file'
    BY <2>2, OnceFresh
  <2>3. CASE \E cells \in Diffs : Duplicate(x, cells) /\ x \in Campaign
    <3> PICK cells \in Diffs : Duplicate(x, cells)
      BY <2>3
    <3>1. cells \in SUBSET Cell /\ VersionOf[x] \in Version
      BY SharedAssumption
    <3>2. /\ mem'[x] = NoteAll(mem[x], cells, VersionOf[x])
          /\ attempt'[x] = attempt[x] + 1 /\ file' = file
      BY DEF Duplicate, Attempting, TypeOK
    <3>3. attempt[x] + 1 \in Nat /\ attempt[x] <= attempt[x] + 1
      BY <2>0
    <3>4. /\ OnceOr(NoteAll(mem[x], cells, VersionOf[x]), file)
          /\ Renumbered(x, attempt[x] + 1, NoteAll(mem[x], cells, VersionOf[x]), file)
      BY <2>0, <3>1, <3>3, OnceNoted
    <3> QED BY <3>2, <3>4
  <2>4. CASE \E cells \in Diffs : NoBypass(x, cells)
    <3>1. mem'[x] = mem[x] /\ attempt'[x] = attempt[x] + 1 /\ file' = file
      BY <2>4 DEF NoBypass, Attempting, TypeOK
    <3>2. \A k : k \notin 0..(attempt[x] + 1 - 1) => k \notin 0..(attempt[x] - 1)
      BY <2>0
    <3> QED BY <2>0, <3>1, <3>2 DEF Renumbered
  <2>5. CASE x \in Campaign /\ \E cells \in Diffs, size \in Sizes : Bypass(x, cells, size)
    <3> PICK cells \in Diffs, size \in Sizes : Bypass(x, cells, size)
      BY <2>5
    <3> DEFINE o == [campaign |-> x, attempt |-> attempt[x], version |-> VersionOf[x]]
               d == x \in Fallback
    <3>1. cells \in SUBSET Cell /\ VersionOf[x] \in Version /\ size \in Nat /\ d \in BOOLEAN
      BY SharedAssumption
    <3>2. /\ mem'[x] = ObserveAll(mem[x], cells, o, size, d)
          /\ attempt'[x] = attempt[x] + 1 /\ file' = file
      BY DEF Bypass, Attempting, TypeOK
    <3> HIDE DEF d
    <3>3. /\ OnceOr(ObserveAll(mem[x], cells, o, size, d), file)
          /\ Renumbered(x, attempt[x] + 1, ObserveAll(mem[x], cells, o, size, d), file)
      BY <2>0, <2>5, <3>1, OnceObserved
    <3> QED BY <3>2, <3>3
  <2>6. \/ mem'[x] = mem[x] /\ attempt'[x] = attempt[x]
        \/ \A c \in DOMAIN mem'[x] : DOMAIN mem'[x][c].obs = {} \/ mem'[x] = file'
        \/ x \in Campaign /\ \E cells \in Diffs :
             \/ Duplicate(x, cells) \/ NoBypass(x, cells)
             \/ \E size \in Sizes : Bypass(x, cells, size)
    <3> USE DEF TypeOK, Step, work
    <3>1. CASE \E w \in Campaign : Load(w)
      BY <3>1 DEF Load
    <3>2. CASE \E w \in Campaign : EndRun(w)
      BY <3>2 DEF EndRun
    <3>3. CASE \E w \in Campaign, cells \in Diffs :
                  \/ Duplicate(w, cells) \/ NoBypass(w, cells)
                  \/ \E size \in Sizes : Bypass(w, cells, size)
      BY <3>3 DEF Duplicate, NoBypass, Bypass, Attempting
    <3>4. CASE \E w \in Gate : Replay(w)
      <4> PICK w \in Gate : Replay(w)
        BY <3>4
      <4>1. \E given : mem' = [mem EXCEPT ![w] = Statuses(w, given)]
        BY DEF Replay
      <4>2. attempt' = attempt
        BY DEF Replay
      <4> QED BY <4>1, <4>2, StatusesEmpty
    <3>5. CASE \E w \in Writer : Merging(w)
      BY <3>5 DEF Merging, Acquire, ReadBase, Save, Release
    <3>6. CASE \E w \in Writer : Kill(w)
      <4>1. DOMAIN EmptyGrid = {}
        BY DEF EmptyGrid
      <4> QED BY <3>6, <4>1 DEF Kill
    <3>7. CASE UNCHANGED vars
      BY <3>7 DEF vars
    <3> QED BY <3>1, <3>2, <3>3, <3>4, <3>5, <3>6, <3>7 DEF Next, Campaigning
  <2> QED BY <2>1, <2>2, <2>3, <2>4, <2>5, <2>6
<1> QED BY <1>1, <1>2 DEF Provenance

(* The shared file holds every observation once, however often a campaign   *)
(* is run again under the numbers of a run that was killed or replaced,     *)
(* when it is handed over that way.                                         *)
THEOREM ProvenanceKept ==
  ASSUME OnceAtStart
  PROVE  Spec => []ProvenanceOnce
<1>1. Init => Provenance
  <2> SUFFICES ASSUME Init PROVE Provenance
    OBVIOUS
  <2>1. Once(file)
    BY DEF Init, OnceAtStart, Once
  <2>2. \A w \in Writer : \A c \in DOMAIN mem[w] : DOMAIN mem[w][c].obs = {}
    BY DEF Init, EmptyGrid
  <2> QED BY <2>1, <2>2, OnceFresh DEF Provenance
<1>2. TypeOK /\ Locked /\ Provenance /\ [Next]_vars => Provenance'
  BY ProvenanceNext
<1>3. Provenance => ProvenanceOnce
  BY DEF Provenance, ProvenanceOnce, Once
<1> QED BY TypeCorrect, LockedInvariant, <1>1, <1>2, <1>3, PTL DEF Spec

=============================================================================
