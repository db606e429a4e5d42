---------------------------- MODULE Grid_proofs ----------------------------
(***************************************************************************)
(* The operations of the shape archive return well-formed grids, and what  *)
(* merging keeps.                                                          *)
(***************************************************************************)
EXTENDS Grid, FiniteSetTheorems, TLAPS

LEMMA NewEntryIsEntry ==
  ASSUME NEW d \in BOOLEAN
  PROVE  IsEntry(NewEntry(d))
  BY DEF IsEntry, NewEntry, NoObs, IsObsBag

LEMMA BagAddIsBag ==
  ASSUME NEW b, IsObsBag(b), NEW o \in Obs
  PROVE  IsObsBag(BagAdd(b, o))
<1>1. CASE o \in DOMAIN b
  BY <1>1 DEF IsObsBag, BagAdd
<1>2. CASE o \notin DOMAIN b
  BY <1>2 DEF IsObsBag, BagAdd
<1> QED BY <1>1, <1>2

LEMMA EntryOrIsEntry ==
  ASSUME NEW g, IsGrid(g), NEW c \in Cell, NEW d \in BOOLEAN
  PROVE  IsEntry(EntryOr(g, c, NewEntry(d)))
  BY NewEntryIsEntry DEF EntryOr, Known, IsGrid

LEMMA ObserveIsEntry ==
  ASSUME NEW g, IsGrid(g), NEW c \in Cell, NEW o \in Obs, NEW size \in Nat,
         NEW d \in BOOLEAN
  PROVE  IsEntry(Observe(g, c, o, size, d)[c])
<1> DEFINE e == EntryOr(g, c, NewEntry(d))
<1>1. IsEntry(e)
  BY EntryOrIsEntry
<1>2. IsObsBag(BagAdd(e.obs, o))
  BY <1>1, BagAddIsBag DEF IsEntry
<1> DEFINE f == [e EXCEPT !.obs = BagAdd(@, o), !.degraded = @ /\ d,
                          !.rep = IF BetterRep(size, @) THEN size ELSE @]
<1>3. Observe(g, c, o, size, d)[c] = f
  BY DEF Observe, Put
<1> HIDE DEF e
<1>4. f.obs = BagAdd(e.obs, o)
  BY <1>1 DEF IsEntry
<1>5. IsEntry(f)
  BY <1>1, <1>2, <1>4 DEF IsEntry
<1> QED BY <1>3, <1>5

LEMMA NoteIsEntry ==
  ASSUME NEW g, IsGrid(g), NEW c \in Cell, NEW v \in Version
  PROVE  IsEntry(NoteDuplicate(g, c, v)[c])
<1> DEFINE e == EntryOr(g, c, NewEntry(FALSE))
<1>1. IsEntry(e)
  BY EntryOrIsEntry
<1> DEFINE f == [e EXCEPT !.dup[v] = @ + 1]
<1>3. NoteDuplicate(g, c, v)[c] = f
  BY DEF NoteDuplicate, Put
<1> HIDE DEF e
<1>4. f.obs = e.obs /\ f.dup = [e.dup EXCEPT ![v] = @ + 1]
  BY <1>1 DEF IsEntry
<1> DEFINE dups == e.dup
<1>2. dups \in [Version -> Nat]
  BY <1>1 DEF IsEntry
<1>5. f.dup \in [Version -> Nat]
  <2> HIDE DEF dups
  <2>1. [dups EXCEPT ![v] = @ + 1] \in [Version -> Nat]
    BY <1>2
  <2> QED BY <1>4, <2>1 DEF dups
<1>6. f = [e EXCEPT !.dup = f.dup]
  BY <1>1, <1>4 DEF IsEntry
<1>7. IsEntry(f)
  BY <1>1, <1>4, <1>5, <1>6 DEF IsEntry
<1> QED BY <1>3, <1>7

LEMMA ObserveAllIsGrid ==
  ASSUME NEW g, IsGrid(g), NEW S \in SUBSET Cell, NEW o \in Obs,
         NEW size \in Nat, NEW d \in BOOLEAN
  PROVE  IsGrid(ObserveAll(g, S, o, size, d))
  BY ObserveIsEntry DEF ObserveAll, IsGrid

LEMMA NoteAllIsGrid ==
  ASSUME NEW g, IsGrid(g), NEW S \in SUBSET Cell, NEW v \in Version
  PROVE  IsGrid(NoteAll(g, S, v))
  BY NoteIsEntry DEF NoteAll, IsGrid

LEMMA MergeIsEntry ==
  ASSUME NEW e, NEW f, IsEntry(e), IsEntry(f)
  PROVE  IsEntry(MergeEntry(e, f))
<1>1. IsObsBag(MergeEntry(e, f).obs)
  BY DEF IsEntry, IsObsBag, MergeEntry
<1> QED BY <1>1 DEF IsEntry, MergeEntry

LEMMA MergeIsGrid ==
  ASSUME NEW g, IsGrid(g), NEW h, IsGrid(h)
  PROVE  IsGrid(Merge(g, h))
  BY MergeIsEntry DEF Merge, Known, IsGrid

LEMMA SliceIsGrid ==
  ASSUME NEW g, IsGrid(g), NEW S
  PROVE  IsGrid(Slice(g, S))
  BY DEF Slice, IsGrid

-----------------------------------------------------------------------------
(* The observations of a cell.                                             *)

ObsOf(g, c) == IF Known(g, c) THEN DOMAIN g[c].obs ELSE {}

LEMMA BagAddDomain ==
  ASSUME NEW b, NEW o
  PROVE  DOMAIN BagAdd(b, o) = DOMAIN b \cup {o}
  BY DEF BagAdd

LEMMA ObserveBag ==
  ASSUME NEW g, IsGrid(g), NEW c \in Cell, NEW o, NEW size, NEW d \in BOOLEAN
  PROVE  Observe(g, c, o, size, d)[c].obs = BagAdd(EntryOr(g, c, NewEntry(d)).obs, o)
<1> DEFINE e == EntryOr(g, c, NewEntry(d))
<1>1. IsEntry(e)
  BY EntryOrIsEntry
<1> DEFINE f == [e EXCEPT !.obs = BagAdd(@, o), !.degraded = @ /\ d,
                          !.rep = IF BetterRep(size, @) THEN size ELSE @]
<1>2. Observe(g, c, o, size, d)[c] = f
  BY DEF Observe, Put
<1> HIDE DEF e
<1>3. f.obs = BagAdd(e.obs, o)
  BY <1>1 DEF IsEntry
<1> QED BY <1>2, <1>3 DEF e

(* An attempt's cells gain its observation, and the others nothing.        *)
LEMMA ObserveAllObs ==
  ASSUME NEW g, IsGrid(g), NEW S \in SUBSET Cell, NEW o, NEW size, NEW d \in BOOLEAN,
         NEW c \in Cell
  PROVE  ObsOf(ObserveAll(g, S, o, size, d), c) =
           IF c \in S THEN ObsOf(g, c) \cup {o} ELSE ObsOf(g, c)
<1>1. CASE c \in S
  <2>1. ObserveAll(g, S, o, size, d)[c].obs = BagAdd(EntryOr(g, c, NewEntry(d)).obs, o)
    BY <1>1, ObserveBag DEF ObserveAll
  <2>2. DOMAIN EntryOr(g, c, NewEntry(d)).obs = ObsOf(g, c)
    BY DEF EntryOr, ObsOf, NewEntry, NoObs
  <2>3. Known(ObserveAll(g, S, o, size, d), c)
    BY <1>1 DEF ObserveAll, Known
  <2> QED BY <1>1, <2>1, <2>2, <2>3, BagAddDomain DEF ObsOf
<1>2. CASE c \notin S
  BY <1>2 DEF ObserveAll, ObsOf, Known
<1> QED BY <1>1, <1>2

LEMMA NoteBag ==
  ASSUME NEW g, IsGrid(g), NEW c \in Cell, NEW v \in Version
  PROVE  NoteDuplicate(g, c, v)[c].obs = EntryOr(g, c, NewEntry(FALSE)).obs
<1> DEFINE e == EntryOr(g, c, NewEntry(FALSE))
<1>1. IsEntry(e)
  BY EntryOrIsEntry
<1> DEFINE f == [e EXCEPT !.dup[v] = @ + 1]
<1>2. NoteDuplicate(g, c, v)[c] = f
  BY DEF NoteDuplicate, Put
<1> HIDE DEF e
<1>3. f.obs = e.obs
  BY <1>1 DEF IsEntry
<1> QED BY <1>2, <1>3 DEF e

(* A duplicate is noted without an observation.                            *)
LEMMA NoteAllObs ==
  ASSUME NEW g, IsGrid(g), NEW S \in SUBSET Cell, NEW v \in Version, NEW c \in Cell
  PROVE  ObsOf(NoteAll(g, S, v), c) = ObsOf(g, c)
<1>1. CASE c \in S
  <2>1. NoteAll(g, S, v)[c].obs = EntryOr(g, c, NewEntry(FALSE)).obs
    BY <1>1, NoteBag DEF NoteAll
  <2>2. DOMAIN EntryOr(g, c, NewEntry(FALSE)).obs = ObsOf(g, c)
    BY DEF EntryOr, ObsOf, NewEntry, NoObs
  <2>3. Known(NoteAll(g, S, v), c)
    BY <1>1 DEF NoteAll, Known
  <2> QED BY <2>1, <2>2, <2>3 DEF ObsOf
<1>2. CASE c \notin S
  BY <1>2 DEF NoteAll, ObsOf, Known
<1> QED BY <1>1, <1>2

(* A merge has the observations of both grids.                             *)
LEMMA MergeObs ==
  ASSUME NEW g, NEW h, NEW c
  PROVE  ObsOf(Merge(g, h), c) = ObsOf(g, c) \cup ObsOf(h, c)
<1>1. CASE Known(g, c) /\ Known(h, c)
  <2>1. Merge(g, h)[c].obs = MergeEntry(g[c], h[c]).obs /\ Known(Merge(g, h), c)
    BY <1>1 DEF Merge, Known
  <2>2. DOMAIN MergeEntry(g[c], h[c]).obs = DOMAIN g[c].obs \cup DOMAIN h[c].obs
    BY DEF MergeEntry
  <2> QED BY <1>1, <2>1, <2>2 DEF ObsOf
<1>2. CASE ~ (Known(g, c) /\ Known(h, c))
  BY <1>2 DEF Merge, Known, ObsOf
<1> QED BY <1>1, <1>2

LEMMA SliceObs ==
  ASSUME NEW g, NEW S, NEW c \in S
  PROVE  ObsOf(Slice(g, S), c) = ObsOf(g, c)
  BY DEF Slice, ObsOf, Known

-----------------------------------------------------------------------------
(* The count behind the saturation of a cell.                              *)

(* One more observation at a version counts as one there.                  *)
LEMMA VerifiedAdd ==
  ASSUME NEW e, IsObsBag(e.obs), NEW o \in Obs, IsFiniteSet(Verified(e, o.version)),
         NEW f, f.obs = BagAdd(e.obs, o)
  PROVE  /\ IsFiniteSet(Verified(f, o.version))
         /\ VerifiedCount(f, o.version) = VerifiedCount(e, o.version) + 1
<1> DEFINE v == o.version
           n == IF o \in DOMAIN e.obs THEN e.obs[o] + 1 ELSE 1
<1>2. /\ DOMAIN f.obs = DOMAIN e.obs \cup {o} /\ f.obs[o] = n
      /\ \A k \in DOMAIN e.obs : k # o => f.obs[k] = e.obs[k]
  BY DEF BagAdd
<1>3. n \in Nat \ {0} /\ 1..n = (1..(n-1)) \cup {n} /\ n \notin 1..(n-1)
  BY DEF IsObsBag
<1>4. /\ \A x : x \in Verified(f, v) <=> \E k \in DOMAIN f.obs : k.version = v /\ x \in {k} \X (1..f.obs[k])
      /\ \A x : x \in Verified(e, v) <=> \E k \in DOMAIN e.obs : k.version = v /\ x \in {k} \X (1..e.obs[k])
  BY DEF Verified
<1>5. \A x : x \in {o} \X (1..n) <=> x \in {o} \X (1..(n-1)) \/ x = <<o, n>>
  BY <1>3
<1>6. \A x : x \in {o} \X (1..(n-1)) <=> o \in DOMAIN e.obs /\ x \in {o} \X (1..e.obs[o])
  BY DEF IsObsBag
<1> HIDE DEF n, v
<1>7. Verified(f, v) = Verified(e, v) \cup {<<o, n>>}
  <2>1. ASSUME NEW x \in Verified(f, v) PROVE x \in Verified(e, v) \cup {<<o, n>>}
    BY <1>2, <1>4, <1>5, <1>6
  <2>2. Verified(e, v) \subseteq Verified(f, v)
    <3> SUFFICES ASSUME NEW x \in Verified(e, v) PROVE x \in Verified(f, v)
      OBVIOUS
    <3> PICK k \in DOMAIN e.obs : k.version = v /\ x \in {k} \X (1..e.obs[k])
      BY <1>4
    <3>1. CASE k = o
      BY <3>1, <1>2, <1>4, <1>5, <1>6
    <3>2. CASE k # o
      BY <3>2, <1>2, <1>4
    <3> QED BY <3>1, <3>2
  <2>3. <<o, n>> \in Verified(f, v)
    BY <1>2, <1>4, <1>5 DEF v
  <2> QED BY <2>1, <2>2, <2>3
<1>8. <<o, n>> \notin Verified(e, v)
  <2> SUFFICES ASSUME NEW k \in DOMAIN e.obs, <<o, n>> \in {k} \X (1..e.obs[k]) PROVE FALSE
    BY <1>4
  <2>1. k = o /\ n \in 1..e.obs[o]
    OBVIOUS
  <2> QED BY <2>1, <1>3 DEF n, IsObsBag
<1> QED BY <1>7, <1>8, FS_AddElement DEF VerifiedCount, v

=============================================================================
