----------------------------- MODULE PacedFetch -----------------------------
(***************************************************************************)
(* Reading the feed and the AUR within their rate caps (harness/net.py):   *)
(* threads of one or more processes call Fetcher.get, which acquires a     *)
(* slot from the process's SlidingWindowLimiter before every attempt.  The *)
(* limiter's window lives in a ledger file that all processes share.       *)
(*                                                                         *)
(* Time is a discrete clock.  A thread that can act does so before the     *)
(* clock moves: time passes only in a rate-limit pause, a retry pause, the *)
(* wait for the limiter's lock and the wait for the peer.                  *)
(***************************************************************************)
EXTENDS Integers, Sequences, FiniteSets

CONSTANTS
  Thread,     \* the threads that fetch
  Process,    \* the processes they belong to
  ProcessOf,
  Nobody,     \* the holder of a free lock
  Limit, Window, MinInterval,
  Budget,     \* a call's deadline, in seconds
  SocketTimeout, \* the longest one socket operation may take
  Reads,      \* the socket operations, at most, from one look at the
              \* deadline to the next: every phase of every redirect hop and
              \* the reads of the head, or the reads of one chunk; httpx's
  MaxRetries,
  RetryAfter, \* the pauses a 429 can ask for
  LastStart,  \* bound: no call starts later
  MaxFetches, \* bound on calls
  MaxKills    \* bound on processes killed

ASSUME FetchAssumption ==
  /\ ProcessOf \in [Thread -> Process] /\ Nobody \notin Thread
  /\ Limit \in Nat \ {0} /\ Window \in Nat \ {0} /\ MinInterval \in 0..Window
  /\ Budget \in Nat \ {0} /\ MaxRetries \in Nat /\ RetryAfter \subseteq Nat
  /\ SocketTimeout \in Nat \ {0} /\ Reads \in Nat \ {0}
  /\ LastStart \in Nat /\ MaxKills \in Nat /\ MaxFetches \in Nat

\* How long a request can run before the code looks at the deadline again.
Longest == Reads * SocketTimeout

Horizon == LastStart + Budget + Longest

\* The ledger file: absent, a JSON list, or truncated and not yet written.
File == [state : {"absent", "json", "torn"}, times : Seq(0..Horizon)]
Absent == [state |-> "absent", times |-> <<>>]
Torn == [state |-> "torn", times |-> <<>>]
Json(ts) == [state |-> "json", times |-> ts]

VARIABLES
  now,     \* the clock
  ledger,  \* the ledger file
  limiterLock, \* the thread that holds each process's limiter lock
  times,   \* each limiter's _times
  thread,  \* what each thread is doing
  grants,  \* the slots granted within the last Window, in order; ghost
  spoiled, \* what has damaged the ledger, if anything has; ghost
  fetches,   \* calls made, bounded by MaxFetches
  kills    \* processes killed, bounded by MaxKills

fetchVars == <<now, ledger, limiterLock, times, thread, grants, spoiled, fetches, kills>>

Stages == {"idle", "lock", "nap", "write", "request", "body", "pause"}

FetchTypeOK ==
  /\ now \in 0..Horizon /\ fetches \in 0..MaxFetches /\ kills \in 0..MaxKills
  /\ ledger \in File
  /\ limiterLock \in [Process -> Thread \cup {Nobody}]
  /\ times \in [Process -> Seq(0..Horizon)]
  /\ thread \in [Thread -> [at : Stages, end : 0..Horizon, until : Nat, timeout : 0..SocketTimeout,
                            tries : 0..MaxRetries, queued : BOOLEAN]]
  /\ grants \in Seq(0..Horizon)
  /\ spoiled \in {"no", "overlap", "kill", "disk"}

Idle == [at |-> "idle", end |-> 0, until |-> 0, timeout |-> 0, tries |-> 0, queued |-> FALSE]

FetchInit ==
  /\ now = 0 /\ ledger = Absent /\ kills = 0 /\ grants = <<>> /\ spoiled = "no" /\ fetches = 0
  /\ limiterLock = [p \in Process |-> Nobody] /\ times = [p \in Process |-> <<>>]
  /\ thread = [t \in Thread |-> Idle]

InStage(t, step) == thread[t].at = step
Move(t, at, until) == thread' = [thread EXCEPT ![t] = [@ EXCEPT !.at = at, !.until = until]]
Return(t) == thread' = [thread EXCEPT ![t] = Idle]
Remaining(t) == thread[t].end - now
Busy(t) == ~InStage(t, "idle")

Spoil(cause, happens) == spoiled' = IF happens /\ spoiled \in {"no", "disk"} THEN cause ELSE spoiled

Larger(x, y) == IF x > y THEN x ELSE y

\* The timestamps are dropped from the front for as long as they have aged
\* out of the window.
Aged(ts, cutoff) ==
  CHOOSE k \in 0..Len(ts) : (\A i \in 1..k : ts[i] <= cutoff) /\ (k < Len(ts) => ts[k + 1] > cutoff)
Recent(ts, cutoff) == SubSeq(ts, Aged(ts, cutoff) + 1, Len(ts))
Fresh(ts) == Recent(ts, now - Window)

\* Mutant: the cap is compared one too late.
WaitLate(ts) ==
  LET spacing == IF ts # <<>> THEN MinInterval - (now - ts[Len(ts)]) ELSE 0
      slot == IF Len(ts) > Limit THEN Window - (now - ts[1]) ELSE 0
  IN Larger(0, Larger(spacing, slot))

Wait(ts) ==
  LET spacing == IF ts # <<>> THEN MinInterval - (now - ts[Len(ts)]) ELSE 0
      slot == IF Len(ts) >= Limit THEN Window - (now - ts[1]) ELSE 0
  IN Larger(0, Larger(spacing, slot))

(***************************************************************************)
(* Fetcher.get and, inside it, SlidingWindowLimiter.acquire.               *)
(***************************************************************************)
Start(t) ==
  /\ InStage(t, "idle") /\ now <= LastStart /\ fetches < MaxFetches
  /\ fetches' = fetches + 1
  /\ thread' = [thread EXCEPT ![t] =
                   [Idle EXCEPT !.at = "lock", !.end = now + Budget]]
  /\ UNCHANGED <<now, ledger, limiterLock, times, grants, spoiled, kills>>

\* Another process that has read the ledger and not yet written it back.
Overlaps(t) ==
  \E u \in Thread : ProcessOf[u] # ProcessOf[t] /\ thread[u].at \in {"nap", "write"}

\* An absent ledger leaves the memory as it was, an unreadable one empties it.
Loaded(p) == Fresh(IF ledger.state = "absent" THEN times[p] ELSE ledger.times)

\* Mutant: a pause is taken whatever is left of the budget.
LoadPatiently(t) ==
  LET p == ProcessOf[t]
      wait == Wait(Loaded(p))
  IN /\ InStage(t, "lock") /\ limiterLock[p] = Nobody /\ now + wait <= Horizon
     /\ times' = [times EXCEPT ![p] = Loaded(p)]
     /\ Move(t, "nap", now + wait)
     /\ limiterLock' = [limiterLock EXCEPT ![p] = t]
     /\ Spoil("overlap", Overlaps(t))
     /\ UNCHANGED <<now, ledger, grants, fetches, kills>>

\* Mutant: giving up does not release the lock.
LoadKeepsLock(t) ==
  LET p == ProcessOf[t]
      wait == Wait(Loaded(p))
  IN /\ InStage(t, "lock") /\ limiterLock[p] = Nobody
     /\ times' = [times EXCEPT ![p] = Loaded(p)]
     /\ limiterLock' = [limiterLock EXCEPT ![p] = t]
     /\ IF wait > 0 /\ wait > Remaining(t) THEN Return(t) /\ UNCHANGED spoiled
        ELSE /\ Move(t, "nap", now + wait)
             /\ Spoil("overlap", Overlaps(t))
     /\ UNCHANGED <<now, ledger, grants, fetches, kills>>

\* Under the lock: read the ledger, and pause, lock held, if need be and if
\* the deadline allows it.
LoadLedger(t) ==
  LET p == ProcessOf[t]
      wait == Wait(Loaded(p))
  IN /\ InStage(t, "lock") /\ limiterLock[p] = Nobody
     /\ times' = [times EXCEPT ![p] = Loaded(p)]
     /\ IF wait > 0 /\ wait > Remaining(t) THEN Return(t) /\ UNCHANGED <<limiterLock, spoiled>>
        ELSE /\ Move(t, "nap", now + wait)
             /\ limiterLock' = [limiterLock EXCEPT ![p] = t]
             /\ Spoil("overlap", Overlaps(t))
     /\ UNCHANGED <<now, ledger, grants, fetches, kills>>

\* The slot is taken in memory.
Take(t) ==
  /\ InStage(t, "nap") /\ now >= thread[t].until
  /\ times' = [times EXCEPT ![ProcessOf[t]] = Append(Fresh(@), now)]

\* Opening the ledger for writing empties it.
Truncate(t) ==
  /\ Take(t)
  /\ ledger' = Torn
  /\ thread' = [thread EXCEPT ![t].at = "write"]
  /\ UNCHANGED <<now, limiterLock, grants, spoiled, fetches, kills>>

\* What each socket operation of the request is given: the budget's rest, at
\* most the socket timeout, and never less than a tenth of a second, which
\* this clock rounds to one.
Patience(t) == Larger(1, IF Remaining(t) < SocketTimeout THEN Remaining(t) ELSE SocketTimeout)

\* The lock is released and the request sent.
Granted(t) ==
  /\ grants' = Append(grants, now)
  /\ limiterLock' = [limiterLock EXCEPT ![ProcessOf[t]] = Nobody]
  /\ thread' = [thread EXCEPT ![t] =
                   [@ EXCEPT !.at = "request", !.timeout = Patience(t), !.until = now + Reads * Patience(t)]]

Write(t) ==
  /\ InStage(t, "write")
  /\ ledger' = Json(times[ProcessOf[t]])
  /\ Granted(t)
  /\ UNCHANGED <<now, times, spoiled, fetches, kills>>

\* No permission: the file keeps its old content.  A full disk: it is empty.
SaveFails(t) ==
  /\ Take(t) \/ (InStage(t, "write") /\ UNCHANGED times)
  /\ Spoil("disk", TRUE)
  /\ Granted(t)
  /\ UNCHANGED <<now, ledger, fetches, kills>>

InRequest(t) == thread[t].at \in {"request", "body"}

\* A chunk of the body arrives, and the deadline has not passed: the next one
\* is waited for as long again.
Chunk(t) ==
  /\ InRequest(t) /\ Remaining(t) > 0
  /\ Move(t, "body", now + Reads * thread[t].timeout)
  /\ UNCHANGED <<now, ledger, limiterLock, times, grants, spoiled, fetches, kills>>

\* The body is complete or too long, a socket operation timed out, or a chunk
\* arrived and the deadline had passed.
Answered(t) ==
  /\ InRequest(t)
  /\ Return(t)
  /\ UNCHANGED <<now, ledger, limiterLock, times, grants, spoiled, fetches, kills>>

Throttled(t, pause) ==
  /\ InStage(t, "request")
  /\ IF thread[t].tries < MaxRetries /\ pause <= Remaining(t)
       THEN thread' = [thread EXCEPT ![t] =
                         [thread[t] EXCEPT !.at = "pause", !.until = now + pause, !.timeout = 0, !.tries = thread[t].tries + 1]]
       ELSE Return(t)
  /\ UNCHANGED <<now, ledger, limiterLock, times, grants, spoiled, fetches, kills>>

Retry(t) ==
  /\ InStage(t, "pause") /\ now >= thread[t].until
  /\ IF Remaining(t) <= 0 THEN Return(t)
     ELSE Move(t, "lock", 0)
  /\ UNCHANGED <<now, ledger, limiterLock, times, grants, spoiled, fetches, kills>>

(***************************************************************************)
(* Processes that are killed and started again, and the clock.             *)
(***************************************************************************)
KillProcess(p) ==
  /\ kills < MaxKills
  /\ kills' = kills + 1
  /\ Spoil("kill", \E t \in Thread : ProcessOf[t] = p /\ InStage(t, "write"))
  /\ thread' = [t \in Thread |-> IF ProcessOf[t] = p THEN Idle ELSE thread[t]]
  /\ limiterLock' = [limiterLock EXCEPT ![p] = Nobody] /\ times' = [times EXCEPT ![p] = <<>>]
  /\ UNCHANGED <<now, ledger, grants, fetches>>

Queued(t) == InStage(t, "lock") /\ limiterLock[ProcessOf[t]] # Nobody
Waits(t) ==
  \/ InStage(t, "idle") \/ Queued(t)
  \/ thread[t].at \in {"nap", "pause", "request", "body"} /\ now < thread[t].until

Tick ==
  /\ now < Horizon /\ \A t \in Thread : Waits(t)
  /\ now' = now + 1
  /\ thread' = [t \in Thread |-> [thread[t] EXCEPT !.queued = thread[t].queued \/ Queued(t)]]
  /\ grants' = Recent(grants, now' - Window)
  /\ UNCHANGED <<ledger, limiterLock, times, spoiled, fetches, kills>>

Acts(t) ==
  \/ LoadLedger(t) \/ Truncate(t) \/ Write(t) \/ SaveFails(t)
  \/ Chunk(t) \/ Answered(t) \/ (\E pause \in RetryAfter : Throttled(t, pause)) \/ Retry(t)

FetchNext ==
  \/ \E t \in Thread : Start(t) \/ Acts(t)
  \/ \E p \in Process : KillProcess(p)
  \/ Tick

FetchSpec == FetchInit /\ [][FetchNext]_fetchVars

\* Something that can happen does: a thread runs, the peer's silence ends in
\* a socket timeout, or time passes.
FairFetch == FetchSpec /\ WF_fetchVars(Tick \/ \E t \in Thread : Acts(t))

(***************************************************************************)
(* Properties.                                                             *)
(***************************************************************************)
Paced ==
  /\ Len(grants) <= Limit
  /\ \A i \in 2..Len(grants) : grants[i] - grants[i - 1] >= MinInterval

\* As long as no two processes were inside the limiter at once, no kill hit
\* a save and no save failed, no window holds more than Limit slots and two
\* slots are never closer than MinInterval, over all threads and restarts.
CapHolds == spoiled = "no" => Paced

\* A call that never queued for the limiter's lock never pauses, takes a slot
\* or sends past its budget, whatever the peer answers and however full the
\* window is.  Past it, it can only be in the request it sent before, and
\* there for Longest at most: the timeout bounds one socket operation, and
\* the deadline is looked at only when a chunk arrives.
BudgetHolds ==
  \A t \in Thread : Busy(t) /\ ~thread[t].queued =>
    \/ now <= thread[t].end
    \/ InRequest(t) /\ now <= thread[t].end + Longest

\* Every call ends.
EveryFetchEnds == \A t \in Thread : Busy(t) ~> ~Busy(t)

\* "A ledger that cannot be written degrades to in-memory pacing": with a
\* single process, which keeps its memory.
UnwritableLedgerStillPaces == spoiled \in {"no", "disk"} /\ kills = 0 => Paced

=============================================================================
