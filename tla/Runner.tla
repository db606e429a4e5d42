------------------------------- MODULE Runner -------------------------------
(***************************************************************************)
(* The analyser behind every attempt (harness/runner.py): threads that     *)
(* share one Runner, the worker processes it spawns one after another, and *)
(* the watchdog thread that enforces every deadline by killing a process   *)
(* group.  Workers follow harness/analysis_worker.py: bound to one         *)
(* environment at a time, one reply per request, and free to hang or die.  *)
(*                                                                         *)
(* A deadline is the nondeterministic choice of when the watchdog fires.   *)
(***************************************************************************)
EXTENDS Naturals, Sequences

CONSTANTS
  Threads,   \* the threads that use the runner
  Envs,      \* the campaign environments it can be pointed at
  FirstEnv,  \* the one it was constructed with
  Nothing,   \* no thread, no environment, no deadline
  MaxCalls   \* bound on the calls made

ASSUME RunnerAssumption ==
  /\ FirstEnv \in Envs /\ Nothing \notin Threads \cup Envs /\ MaxCalls \in Nat \ {0}

None == 0                      \* no session; workers are numbered by spawn
Worker == 1..MaxCalls
Ops == {"analyze", "restart", "rebind"}  \* analyze stands for restore, parity and the rest

VARIABLES
  lock,     \* the thread that holds _lock, or Nothing
  env,      \* the runner's _env
  session,  \* the worker of _session, or None
  spawned,  \* workers cloned so far
  proc,     \* each worker process, with the two pipes to it
  call,     \* what each thread is doing in the runner
  armed,    \* the watchdog's _deadline and _fire, or Nothing
  firing,   \* the deadline being fired, condition held, or Nothing
  calls,    \* calls made so far, bounded by MaxCalls
  stranded  \* workers whose spawn raised after the clone; ghost

vars == <<lock, env, session, spawned, proc, call, armed, firing, calls, stranded>>

(***************************************************************************)
(* id names the call; cold marks the bind that a fresh worker gets before  *)
(* the call's own request.  A request and its reply carry both.            *)
(***************************************************************************)
Tag == [id : 1..MaxCalls, cold : BOOLEAN]
Request == [tag : Tag, op : Ops \cup {"bind"}, env : Envs]
Reply == [tag : Tag, ok : BOOLEAN, env : Envs \cup {Nothing}]
Deadline == [thread : Threads, tag : Tag, on : {"spawn", "request"}, worker : Worker \cup {None}]

Outcomes == {"none", "ok", "error", "gone", "timeout"}
Steps == {"out", "ensure", "clone", "setup", "spawned", "arm", "send", "read",
          "caught", "settle", "disarm"}

TypeOK ==
  /\ lock \in Threads \cup {Nothing}
  /\ env \in Envs
  /\ session \in Worker \cup {None} /\ spawned \in Worker \cup {None} /\ calls \in Worker \cup {None}
  /\ proc \in [Worker -> [state : {"unborn", "setup", "live", "dead"},
                          bound : Envs \cup {Nothing}, inbox : Seq(Request), outbox : Seq(Reply)]]
  /\ call \in [Threads -> [at : Steps, op : Ops, tag : Tag, worker : Worker \cup {None},
                           late : BOOLEAN, outcome : Outcomes, answer : Reply \cup {Nothing}]]
  /\ armed \in Deadline \cup {Nothing} /\ firing \in Deadline \cup {Nothing} /\ stranded \in SUBSET Worker

Init ==
  /\ lock = Nothing /\ env = FirstEnv /\ session = None /\ spawned = None /\ calls = 0
  /\ proc = [w \in Worker |-> [state |-> "unborn", bound |-> Nothing, inbox |-> <<>>, outbox |-> <<>>]]
  /\ call = [t \in Threads |-> [at |-> "out", op |-> "analyze", tag |-> [id |-> 1, cold |-> FALSE],
                                worker |-> None, late |-> FALSE, outcome |-> "none", answer |-> Nothing]]
  /\ armed = Nothing /\ firing = Nothing /\ stranded = {}

(***************************************************************************)
(* What a caller does, lock held.                                          *)
(***************************************************************************)
At(t, step) == call[t].at = step
Alive(w) == proc[w].state \in {"setup", "live"}

\* kill_group: SIGKILL takes the worker and its tokenizer pool.
Killed(w) == [proc EXCEPT ![w].state = "dead"]

\* Mutant: the old session is forgotten, its worker lives on.
DroppedAlive(w) == [proc EXCEPT ![w] = [@ EXCEPT !.inbox = <<>>, !.outbox = <<>>]]

\* A reply that a dead worker left in its pipe goes with the pipe.
Dropped(w) == [proc EXCEPT ![w] = [state |-> "dead", bound |-> Nothing, inbox |-> <<>>, outbox |-> <<>>]]

Condition == firing = Nothing  \* arm and disarm wait while the watchdog fires

\* Mutant: callers are not serialised.
EnterUnlocked(t, op, e) ==
  /\ At(t, "out") /\ calls < MaxCalls
  /\ lock' = t /\ calls' = calls + 1
  /\ env' = IF op = "rebind" THEN e ELSE env
  /\ session' = IF op = "restart" THEN None ELSE session
  /\ proc' = IF op = "restart" /\ session # None THEN Dropped(session) ELSE proc
  /\ call' = [call EXCEPT ![t] = [@ EXCEPT !.at = "ensure", !.op = op, !.tag = [id |-> calls', cold |-> FALSE],
                                           !.outcome = "none", !.answer = Nothing]]
  /\ UNCHANGED <<spawned, armed, firing, stranded>>

\* restart drops the session first, rebind adopts the environment first.
Enter(t, op, e) ==
  /\ lock = Nothing
  /\ At(t, "out") /\ calls < MaxCalls
  /\ lock' = t /\ calls' = calls + 1
  /\ env' = IF op = "rebind" THEN e ELSE env
  /\ session' = IF op = "restart" THEN None ELSE session
  /\ proc' = IF op = "restart" /\ session # None THEN Dropped(session) ELSE proc
  /\ call' = [call EXCEPT ![t] = [@ EXCEPT !.at = "ensure", !.op = op, !.tag = [id |-> calls', cold |-> FALSE],
                                           !.outcome = "none", !.answer = Nothing]]
  /\ UNCHANGED <<spawned, armed, firing, stranded>>

\* A request's deadline kills the session it was sent to; a spawn's kills
\* the pid that is in the box by then.
Arm(t, on, w) == armed' = [thread |-> t, tag |-> call'[t].tag, on |-> on, worker |-> w]
Target == IF firing.on = "spawn" THEN call[firing.thread].worker ELSE firing.worker

EnsureWarm(t) ==
  /\ At(t, "ensure") /\ session # None
  /\ call' = [call EXCEPT ![t] = [@ EXCEPT !.at = "arm", !.worker = session]]
  /\ UNCHANGED <<lock, env, session, spawned, proc, armed, firing, calls, stranded>>

EnsureCold(t) ==
  /\ At(t, "ensure") /\ session = None /\ Condition
  /\ call' = [call EXCEPT ![t] = [@ EXCEPT !.at = "clone", !.tag.cold = TRUE, !.worker = None]]
  /\ Arm(t, "spawn", None)
  /\ UNCHANGED <<lock, env, session, spawned, proc, firing, calls, stranded>>

\* The child's pid reaches the box as the clone returns.
Clone(t) ==
  /\ At(t, "clone")
  /\ spawned' = spawned + 1
  /\ proc' = [proc EXCEPT ![spawned'].state = "setup"]
  /\ call' = [call EXCEPT ![t] = [@ EXCEPT !.at = "setup", !.worker = spawned']]
  /\ UNCHANGED <<lock, env, session, armed, firing, calls, stranded>>

\* The limits and the hardening hold and the child execs the worker.
Exec(t) ==
  /\ At(t, "setup") /\ proc[call[t].worker].state = "setup"
  /\ proc' = [proc EXCEPT ![call[t].worker].state = "live"]
  /\ call' = [call EXCEPT ![t].at = "spawned"]
  /\ UNCHANGED <<lock, env, session, spawned, armed, firing, calls, stranded>>

\* The spawn raises; a child that it had cloned is left as it is.
SpawnRaises(t) ==
  /\ call' = [call EXCEPT ![t] = [@ EXCEPT !.at = "spawned", !.outcome = "error"]]
  /\ UNCHANGED <<lock, env, session, spawned, armed, firing, calls>>

Strand(t) == SpawnRaises(t) /\ stranded' = stranded \cup {call[t].worker}

\* No user namespaces: nothing was cloned.
CloneRefused(t) == At(t, "clone") /\ SpawnRaises(t) /\ UNCHANGED <<proc, stranded>>

\* The deadline killed the child during its setup, or it died there.
SetupKilled(t) ==
  At(t, "setup") /\ proc[call[t].worker].state = "dead" /\ SpawnRaises(t) /\ UNCHANGED <<proc, stranded>>

\* A limit, a pipe or the exec was refused: nobody kills the child.
SetupRefused(t) ==
  At(t, "setup") /\ proc[call[t].worker].state = "setup" /\ Strand(t) /\ UNCHANGED proc

\* After the exec the caller's ends of the pipes could not be wrapped: the
\* worker waits for requests, and no session was made of it.
WrapRefused(t) ==
  /\ At(t, "setup") /\ proc[call[t].worker].state = "setup"
  /\ proc' = [proc EXCEPT ![call[t].worker].state = "live"]
  /\ Strand(t)

\* The call returns or raises; its locals go.
Leave(t) ==
  /\ lock' = Nothing
  /\ call' = [call EXCEPT ![t] = [@ EXCEPT !.at = "out", !.worker = None, !.late = FALSE, !.answer = Nothing]]

\* The spawn's deadline is disarmed; a live child becomes the session.
DisarmSpawn(t) ==
  /\ At(t, "spawned") /\ Condition
  /\ armed' = Nothing
  /\ IF call[t].outcome = "error"
       THEN /\ Leave(t)
            /\ UNCHANGED session
       ELSE /\ session' = call[t].worker /\ call' = [call EXCEPT ![t].at = "arm"]
            /\ UNCHANGED lock
  /\ UNCHANGED <<env, spawned, proc, firing, calls, stranded>>

ArmRequest(t) ==
  /\ At(t, "arm") /\ Condition
  /\ call' = [call EXCEPT ![t] = [@ EXCEPT !.at = "send", !.late = FALSE, !.answer = Nothing]]
  /\ Arm(t, "request", call[t].worker)
  /\ UNCHANGED <<lock, env, session, spawned, proc, firing, calls, stranded>>

Asked(t) ==
  [tag |-> call[t].tag, env |-> env,
   op |-> IF call[t].tag.cold \/ call[t].op = "rebind" THEN "bind" ELSE call[t].op]

Send(t) ==
  /\ At(t, "send")
  /\ LET w == call[t].worker IN
       IF proc[w].state = "live"
         THEN /\ proc' = [proc EXCEPT ![w].inbox = Append(@, Asked(t))]
              /\ call' = [call EXCEPT ![t].at = "read"]
         ELSE /\ call' = [call EXCEPT ![t] = [@ EXCEPT !.at = "caught", !.outcome = "gone"]]
              /\ UNCHANGED proc
  /\ UNCHANGED <<lock, env, session, spawned, armed, firing, calls, stranded>>

\* One line, whoever wrote it.
Read(t) ==
  /\ At(t, "read")
  /\ LET w == call[t].worker IN
       /\ proc[w].outbox # <<>>
       /\ LET reply == Head(proc[w].outbox) IN
            call' = [call EXCEPT ![t] = [@ EXCEPT !.answer = reply,
                       !.outcome = IF reply.ok THEN "ok" ELSE "error",
                       !.at = IF reply.ok THEN "disarm" ELSE "caught"]]
       /\ proc' = [proc EXCEPT ![w].outbox = Tail(@)]
  /\ UNCHANGED <<lock, env, session, spawned, armed, firing, calls, stranded>>

ReadEOF(t) ==
  /\ At(t, "read")
  /\ proc[call[t].worker].state = "dead" /\ proc[call[t].worker].outbox = <<>>
  /\ call' = [call EXCEPT ![t] = [@ EXCEPT !.at = "caught", !.outcome = "gone"]]
  /\ UNCHANGED <<lock, env, session, spawned, proc, armed, firing, calls, stranded>>

\* An error the worker answered with leaves the session alone.
KeepSession(t) ==
  /\ At(t, "caught") /\ call[t].outcome = "error" /\ ~call[t].late
  /\ call' = [call EXCEPT ![t].at = "disarm"]
  /\ UNCHANGED <<lock, env, session, spawned, proc, armed, firing, calls, stranded>>

\* A dead or a late worker is dropped.
DropSession(t) ==
  /\ At(t, "caught") /\ (call[t].late \/ call[t].outcome = "gone")
  /\ session' = None /\ proc' = Dropped(call[t].worker)
  /\ call' = [call EXCEPT ![t].at = "settle"]
  /\ UNCHANGED <<lock, env, spawned, armed, firing, calls, stranded>>

\* Whatever raised, a fired deadline makes it a timeout.
Settle(t) ==
  /\ At(t, "settle")
  /\ call' = [call EXCEPT ![t] = [@ EXCEPT !.at = "disarm",
                !.outcome = IF call[t].late THEN "timeout" ELSE "gone"]]
  /\ UNCHANGED <<lock, env, session, spawned, proc, armed, firing, calls, stranded>>

\* Mutant: the request's deadline stays armed.
FinishArmed(t) ==
  /\ At(t, "disarm") /\ Condition
  /\ IF call[t].tag.cold /\ call[t].outcome = "ok"
       THEN /\ call' = [call EXCEPT ![t] = [@ EXCEPT !.at = "arm", !.tag.cold = FALSE, !.outcome = "none"]]
            /\ UNCHANGED <<lock, session, proc>>
       ELSE /\ Leave(t)
            /\ session' = IF call[t].tag.cold THEN None ELSE session
            /\ proc' = IF call[t].tag.cold THEN Dropped(call[t].worker) ELSE proc
  /\ UNCHANGED <<env, spawned, armed, firing, calls, stranded>>

\* A bound worker goes on to the call's own request; a failed cold bind
\* drops the session, again if the request already did.
Finish(t) ==
  /\ At(t, "disarm") /\ Condition
  /\ armed' = Nothing
  /\ IF call[t].tag.cold /\ call[t].outcome = "ok"
       THEN /\ call' = [call EXCEPT ![t] = [@ EXCEPT !.at = "arm", !.tag.cold = FALSE, !.outcome = "none"]]
            /\ UNCHANGED <<lock, session, proc>>
       ELSE /\ Leave(t)
            /\ session' = IF call[t].tag.cold THEN None ELSE session
            /\ proc' = IF call[t].tag.cold THEN Dropped(call[t].worker) ELSE proc
  /\ UNCHANGED <<env, spawned, firing, calls, stranded>>

Caller(t) ==
  \/ EnsureWarm(t) \/ EnsureCold(t) \/ CloneRefused(t) \/ Clone(t) \/ Exec(t) \/ SetupKilled(t) \/ SetupRefused(t)
  \/ WrapRefused(t) \/ DisarmSpawn(t) \/ ArmRequest(t) \/ Send(t) \/ Read(t) \/ ReadEOF(t)
  \/ KeepSession(t) \/ DropSession(t) \/ Settle(t) \/ Finish(t)

(***************************************************************************)
(* The worker process, in its own time.                                    *)
(***************************************************************************)
Receives(w, ops) ==
  proc[w].state = "live" /\ proc[w].inbox # <<>> /\ Head(proc[w].inbox).op \in ops

Replies(w, ok, bound, state) ==
  /\ proc' = [proc EXCEPT ![w] = [state |-> state, bound |-> bound, inbox |-> Tail(@.inbox),
                outbox |-> Append(@.outbox, [tag |-> Head(@.inbox).tag, ok |-> ok, env |-> bound])]]
  /\ UNCHANGED <<lock, env, session, spawned, call, armed, firing, calls, stranded>>

Bind(w) == Receives(w, {"bind"}) /\ Replies(w, TRUE, Head(proc[w].inbox).env, "live")

\* Mutant: a worker whose bind failed goes on serving, half bound.
BindFailsAndServes(w) == Receives(w, {"bind"}) /\ Replies(w, FALSE, Nothing, "live")

\* A failed bind is answered and ends the worker.
BindFails(w) == Receives(w, {"bind"}) /\ Replies(w, FALSE, Nothing, "dead")

Serve(w) == Receives(w, Ops) /\ Replies(w, TRUE, proc[w].bound, "live")

Refuse(w) == Receives(w, Ops) /\ Replies(w, FALSE, proc[w].bound, "live")

\* A crash, an OOM kill, a CPU limit; a child may die during its setup too.
Die(w) ==
  /\ Alive(w)
  /\ proc' = Killed(w)
  /\ UNCHANGED <<lock, env, session, spawned, call, armed, firing, calls, stranded>>

(***************************************************************************)
(* The watchdog: it takes the deadline and marks the request late, then    *)
(* kills, both under its condition.  CloneIsPrompt is an assumption: the   *)
(* clone call itself returns within the spawn's deadline.                  *)
(***************************************************************************)
CloneIsPrompt == armed.on = "spawn" => call[armed.thread].worker # None

Fire ==
  /\ armed # Nothing /\ firing = Nothing
  /\ CloneIsPrompt
  /\ firing' = armed /\ armed' = Nothing
  /\ LET t == armed.thread IN
       call' = IF armed.on = "request" /\ call[t].tag = armed.tag
                 THEN [call EXCEPT ![t].late = TRUE] ELSE call
  /\ UNCHANGED <<lock, env, session, spawned, proc, calls, stranded>>

\* Mutant: the kill needs the portal, which a read in flight occupies.
KillThroughPortal ==
  /\ firing # Nothing /\ ~At(firing.thread, "read")
  /\ firing' = Nothing
  /\ proc' = IF Target # None THEN Killed(Target) ELSE proc
  /\ UNCHANGED <<lock, env, session, spawned, call, armed, calls, stranded>>

\* os.killpg needs no loop.
Kill ==
  /\ firing # Nothing
  /\ firing' = Nothing
  /\ proc' = IF Target # None THEN Killed(Target) ELSE proc
  /\ UNCHANGED <<lock, env, session, spawned, call, armed, calls, stranded>>

Next ==
  \/ \E t \in Threads : Caller(t) \/ \E op \in Ops, e \in Envs : Enter(t, op, e)
  \/ \E w \in Worker : Bind(w) \/ BindFails(w) \/ Serve(w) \/ Refuse(w) \/ Die(w)
  \/ Fire \/ Kill

Spec == Init /\ [][Next]_vars

(***************************************************************************)
(* The caller and the watchdog are scheduled; a worker may hang at any     *)
(* request, and a child at any step of its setup.                          *)
(***************************************************************************)
Scheduled(t) ==
  \/ EnsureWarm(t) \/ EnsureCold(t) \/ CloneRefused(t) \/ Clone(t) \/ SetupKilled(t)
  \/ DisarmSpawn(t) \/ ArmRequest(t) \/ Send(t) \/ Read(t) \/ ReadEOF(t)
  \/ KeepSession(t) \/ DropSession(t) \/ Settle(t) \/ Finish(t)

Fairness == (\A t \in Threads : WF_vars(Scheduled(t))) /\ WF_vars(Fire) /\ WF_vars(Kill)
FairSpec == Spec /\ Fairness

(***************************************************************************)
(* Properties.                                                             *)
(***************************************************************************)

\* The answer a call takes is the worker's answer to that very request,
\* whatever was killed, dropped or left in a pipe before it: _request under
\* _lock, one line per request.
ReplyIsMine ==
  \A t \in Threads :
    call[t].answer # Nothing /\ call[t].at \in {"caught", "disarm"} => call[t].answer.tag = call[t].tag

\* No analysis or restore is answered by a worker that is not bound to the
\* environment the runner was last pointed at, failed rebinds and respawns
\* included: rebind sets _env before it asks the worker.
AnsweredUnderItsEnvironment ==
  \A t \in Threads :
    At(t, "disarm") /\ call[t].outcome = "ok" => call[t].answer.env = env

\* Between calls at most the session's own worker is running, beside those
\* whose spawn raised after the clone and which no deadline reached in time:
\* every worker a call gave up on later was killed, so a campaign of timeouts
\* cannot pile up analysers.  A stranded child, which nobody kills, never
\* becomes the session, is never bound and is never asked anything.
NoOrphans ==
  /\ lock = Nothing => \A w \in Worker : Alive(w) => w = session \/ w \in stranded
  /\ \A w \in stranded : w # session /\ proc[w].bound = Nothing /\ proc[w].inbox = <<>>

\* A deadline kills only for the request that armed it: none outlives its
\* request to hit the next one's worker.
DeadlineHitsItsOwn ==
  [][firing # Nothing /\ firing' = Nothing =>
       lock = firing.thread /\ call[firing.thread].tag = firing.tag
         /\ ~At(firing.thread, "out")]_vars

\* Every call comes back, however the worker hangs: the watchdog kills it
\* from outside the portal, and the read in flight ends.
EveryCallEnds == \A t \in Threads : ~At(t, "out") ~> At(t, "out")
=============================================================================
