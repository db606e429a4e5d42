--------------------------- MODULE SharedArchive ---------------------------
(***************************************************************************)
(* The suite's archive.json, shared by the campaigns of a sweep and by the *)
(* regression gate (harness/archive.py: merge_into, and its two callers).  *)
(* Each writer is a process.  A campaign reads the file without the lock   *)
(* when it starts, fills a grid in memory, and merges it back under the    *)
(* lock when it ends; the gate merges a fresh grid of patch statuses.  Any *)
(* writer can be killed between two of its system calls.                   *)
(***************************************************************************)
EXTENDS Grid

CONSTANTS
  Gate,       \* the processes that run the regression gate
  VersionOf,  \* the TrustSight version each writer is pinned to
  Fallback,   \* the campaigns that cannot reach the technique vocabulary
  Diffs,      \* the cell sets of the diffs that campaigns try
  Sizes,      \* sizes of a representative
  Replayed,   \* the cell sets of the committed bypasses, in replay order
  Saturation,
  Initial,    \* what the file holds at first
  MaxAttempts,\* bound on a campaign's attempts
  MaxRuns,    \* bound on the runs of each writer
  MaxCrashes  \* bound on kills

Campaign == CampaignName
Writer == Campaign \cup Gate
NoOne == "no one"

ASSUME SharedAssumption ==
  /\ Campaign \cap Gate = {} /\ NoOne \notin Writer
  /\ VersionOf \in [Writer -> Version] /\ Fallback \subseteq Campaign
  /\ Diffs \subseteq (SUBSET Cell \ {{}}) /\ Sizes \subseteq Nat
  /\ Replayed \in [DOMAIN Replayed -> SUBSET Cell] /\ DOMAIN Replayed \subseteq Nat
  /\ Saturation \in Nat \ {0}
  /\ \A g \in Initial : IsGrid(g)
  /\ MaxAttempts \in [Campaign -> Nat] /\ MaxCrashes \in Nat /\ MaxRuns \in [Writer -> Nat]

VARIABLES
  pc,       \* what each writer does next
  file,     \* archive.json
  lock,     \* the holder of the flock, or NoOne
  mem,      \* the grid in each writer's memory
  base,     \* the grid each writer read under the lock
  claimed,  \* the cells a campaign's semantic gate has let through
  attempt,  \* the number of the campaign's next attempt
  runs,     \* runs each writer has started, bounded by MaxRuns
  crashes   \* writers killed so far, bounded by MaxCrashes

vars == <<pc, file, lock, mem, base, claimed, attempt, runs, crashes>>
work == <<claimed, attempt>>

TypeOK ==
  /\ pc \in [Writer -> {"idle", "run", "wait", "read", "save", "unlock", "killed"}]
  /\ IsGrid(file)
  /\ lock \in Writer \cup {NoOne}
  /\ DOMAIN mem = Writer /\ \A w \in Writer : IsGrid(mem[w])
  /\ DOMAIN base = Writer /\ \A w \in Writer : IsGrid(base[w])
  /\ claimed \in [Writer -> SUBSET Cell]
  /\ attempt \in [Writer -> Nat]
  /\ runs \in [Writer -> Nat] /\ crashes \in Nat

Init ==
  /\ pc = [w \in Writer |-> "idle"]
  /\ file \in Initial
  /\ lock = NoOne
  /\ mem = [w \in Writer |-> EmptyGrid]
  /\ base = [w \in Writer |-> EmptyGrid]
  /\ claimed = [w \in Writer |-> {}]
  /\ attempt = [w \in Writer |-> 0]
  /\ runs = [w \in Writer |-> 0]
  /\ crashes = 0

Step(w, from, to) == pc[w] = from /\ pc' = [pc EXCEPT ![w] = to]

MayStart(w) == pc[w] \in {"idle", "killed"} /\ runs[w] < MaxRuns[w]

-----------------------------------------------------------------------------
(* A campaign.                                                             *)

(* Archive.load, without the lock: save() renames, so a reader sees one    *)
(* whole file.  A run that is started again starts from attempt 0.         *)
Load(w) ==
  /\ MayStart(w)
  /\ pc' = [pc EXCEPT ![w] = "run"]
  /\ mem' = [mem EXCEPT ![w] = file]
  /\ claimed' = [claimed EXCEPT ![w] = {}]
  /\ attempt' = [attempt EXCEPT ![w] = 0]
  /\ runs' = [runs EXCEPT ![w] = @ + 1]
  /\ UNCHANGED <<file, lock, base, crashes>>

Attempting(w) ==
  /\ pc[w] = "run" /\ attempt[w] < MaxAttempts[w]
  /\ attempt' = [attempt EXCEPT ![w] = @ + 1]
  /\ UNCHANGED <<pc, file, lock, base, runs, crashes>>

(* The two archive gates of an attempt.  Two diffs of an unshaped cell are *)
(* the same measurement only when their chains agree.                      *)
Saturated(w, cells) ==
  \A c \in cells : IsClosed(mem[w], c, VersionOf[w], Saturation)
MayBeDuplicate(w, cells) == ~ Saturated(w, cells) /\ cells \subseteq claimed[w]
MayBeNew(w, cells) ==
  ~ Saturated(w, cells) /\ (cells \subseteq claimed[w] => cells \cap Unshaped # {})

Duplicate(w, cells) ==
  /\ Attempting(w)
  /\ MayBeDuplicate(w, cells)
  /\ mem' = [mem EXCEPT ![w] = NoteAll(@, cells, VersionOf[w])]
  /\ UNCHANGED claimed

(* An analysed diff fills its cells when it is a bypass.                   *)
NoBypass(w, cells) ==
  /\ Attempting(w)
  /\ MayBeNew(w, cells)
  /\ claimed' = [claimed EXCEPT ![w] = @ \cup cells]
  /\ UNCHANGED mem

Bypass(w, cells, size) ==
  /\ Attempting(w)
  /\ MayBeNew(w, cells)
  /\ claimed' = [claimed EXCEPT ![w] = @ \cup cells]
  /\ mem' = [mem EXCEPT ![w] =
       ObserveAll(@, cells,
                  [campaign |-> w, attempt |-> attempt[w], version |-> VersionOf[w]],
                  size, w \in Fallback)]

(* run_campaign reaches merge_into; its gates are not read again.          *)
EndRun(w) ==
  /\ Step(w, "run", "wait")
  /\ claimed' = [claimed EXCEPT ![w] = {}]
  /\ UNCHANGED <<file, lock, mem, base, attempt, runs, crashes>>

-----------------------------------------------------------------------------
(* The regression gate.                                                    *)

(* _update_archive: a fresh grid takes one status per definite replay, in   *)
(* the order of the items, so the last of a cell's items decides.           *)
Statuses(w, given) ==
  LET definite(c) == {i \in DOMAIN Replayed : c \in Replayed[i] /\ given[i] # "neither"}
      last(c) == CHOOSE i \in definite(c) : \A j \in definite(c) : j <= i
  IN  [c \in {d \in Cell : definite(d) # {}} |->
         SetPatchStatus(EmptyGrid, c,
           IF given[last(c)] = "closed" THEN "verified" ELSE "regression",
           VersionOf[w])[c]]

Replay(w) ==
  /\ MayStart(w)
  /\ runs' = [runs EXCEPT ![w] = @ + 1]
  /\ \E given \in [DOMAIN Replayed -> {"open", "closed", "neither"}] :
       /\ mem' = [mem EXCEPT ![w] = Statuses(w, given)]
       /\ pc' = [pc EXCEPT ![w] = IF DOMAIN Statuses(w, given) = {} THEN "idle"
                                                                   ELSE "wait"]
  /\ UNCHANGED <<file, lock, base, work, crashes>>

-----------------------------------------------------------------------------
(* merge_into.                                                             *)

(* Mutant: the lock file removed by the last holder, so that it excludes   *)
(* nobody who opens a new one.                                             *)
AcquireAnyway(w) ==
  /\ Step(w, "wait", "read")
  /\ lock' = w
  /\ UNCHANGED <<file, mem, base, work, runs, crashes>>

Acquire(w) ==
  /\ lock = NoOne
  /\ Step(w, "wait", "read")
  /\ lock' = w
  /\ UNCHANGED <<file, mem, base, work, runs, crashes>>

ReadBase(w) ==
  /\ Step(w, "read", "save")
  /\ base' = [base EXCEPT ![w] = file]
  /\ UNCHANGED <<file, lock, mem, work, runs, crashes>>

(* Mutant: the writer's own grid saved in place of the merged one.         *)
SaveOwn(w) ==
  /\ Step(w, "save", "unlock")
  /\ file' = mem[w]
  /\ base' = [base EXCEPT ![w] = EmptyGrid]
  /\ UNCHANGED <<lock, mem, work, runs, crashes>>

(* The loop over the cells and the atomic rename of write_atomic.          *)
Save(w) ==
  /\ Step(w, "save", "unlock")
  /\ file' = Merge(base[w], mem[w])
  /\ base' = [base EXCEPT ![w] = EmptyGrid]
  /\ UNCHANGED <<lock, mem, work, runs, crashes>>

Release(w) ==
  /\ Step(w, "unlock", "idle")
  /\ lock' = NoOne
  /\ UNCHANGED <<file, mem, base, work, runs, crashes>>

(* Mutant: a lock that outlives its holder.                                *)
KillWedges(w) ==
  /\ pc[w] \notin {"idle", "killed"} /\ crashes < MaxCrashes
  /\ pc' = [pc EXCEPT ![w] = "killed"]
  /\ mem' = [mem EXCEPT ![w] = EmptyGrid]
  /\ base' = [base EXCEPT ![w] = EmptyGrid]
  /\ crashes' = crashes + 1
  /\ UNCHANGED <<file, lock, work, runs>>

(* The process is killed; the kernel drops its lock.                       *)
Kill(w) ==
  /\ pc[w] \notin {"idle", "killed"} /\ crashes < MaxCrashes
  /\ pc' = [pc EXCEPT ![w] = "killed"]
  /\ mem' = [mem EXCEPT ![w] = EmptyGrid]
  /\ base' = [base EXCEPT ![w] = EmptyGrid]
  /\ claimed' = [claimed EXCEPT ![w] = {}]
  /\ attempt' = [attempt EXCEPT ![w] = 0]
  /\ lock' = IF lock = w THEN NoOne ELSE lock
  /\ crashes' = crashes + 1
  /\ UNCHANGED <<file, runs>>

Merging(w) == Acquire(w) \/ ReadBase(w) \/ Save(w) \/ Release(w)

Campaigning(w) ==
  \/ Load(w) \/ EndRun(w)
  \/ \E cells \in Diffs :
       \/ Duplicate(w, cells) \/ NoBypass(w, cells)
       \/ \E size \in Sizes : Bypass(w, cells, size)

Next ==
  \/ \E w \in Campaign : Campaigning(w)
  \/ \E w \in Gate : Replay(w)
  \/ \E w \in Writer : Merging(w) \/ Kill(w)

(* A process that waits for the lock, or holds it, is scheduled.  Weak      *)
(* fairness is enough for the waiters: the others run finitely many times. *)
Fairness == \A w \in Writer : WF_vars(Merging(w))

Spec == Init /\ [][Next]_vars
FairSpec == Spec /\ Fairness

-----------------------------------------------------------------------------
(* Properties.                                                             *)

(* The lock, the read and the rename together make a merge one step of the *)
(* file: AtomicArchive is implemented.                                     *)
Atomic == INSTANCE AtomicArchive WITH pending <- mem
AtomicSpec == Atomic!Spec

(* A published cell keeps every observation key and every duplicate count, *)
(* and its representative never grows, whatever merges come after.         *)
KeepsWhat(old, new) ==
  /\ DOMAIN old \subseteq DOMAIN new
  /\ \A c \in DOMAIN old :
       /\ DOMAIN old[c].obs \subseteq DOMAIN new[c].obs
       /\ \A v \in Version : old[c].dup[v] <= new[c].dup[v]
       /\ old[c].rep # 0 => new[c].rep \in 1..old[c].rep

NothingIsLost == [][KeepsWhat(file, file')]_vars

(* A run that finished is in the file for good, with every bypass it saw.  *)
FinishedIsPublished ==
  \A w \in Campaign : pc[w] \in {"unlock", "idle"} =>
    \A c \in DOMAIN mem[w] :
      Known(file, c) /\ DOMAIN mem[w][c].obs \subseteq DOMAIN file[c].obs

(* The archive is handed over with every observation in it once.           *)
OnceAtStart ==
  \A g \in Initial : \A c \in DOMAIN g : \A o \in DOMAIN g[c].obs : g[c].obs[o] = 1

(* merge: "a campaign replayed twice does not double its own provenance":  *)
(* the shared file holds every observation once, however often a campaign  *)
(* is run again and whatever it was killed in the middle of.               *)
ProvenanceOnce ==
  \A c \in DOMAIN file : \A o \in DOMAIN file[c].obs : file[c].obs[o] = 1

(* Every merge finishes or its process is dead: no writer wedges the lock. *)
MergesFinish == \A w \in Writer : pc[w] = "wait" ~> pc[w] \in {"idle", "killed"}

=============================================================================
