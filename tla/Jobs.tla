-------------------------------- MODULE Jobs --------------------------------
(***************************************************************************)
(* The MCP server (harness/mcp/server.py): campaigns and regressions run   *)
(* as jobs in threads of their own, each with a deadline; the other tools  *)
(* run in the thread of their call.  TrustSight's paths are globals of the *)
(* process, which Environment.bind points at one environment, and          *)
(* _analysis_lock is there to keep two tools from doing so at once.        *)
(*                                                                         *)
(* A finish writes a job field by field under _jobs_lock; a poll reads the *)
(* fields without it.  Whoever runs an analysis may never come back.       *)
(***************************************************************************)
EXTENDS Naturals, Sequences, SequencesExt, FiniteSets, Listing

CONSTANTS
  Job,         \* the jobs that can be created, numbered in that order
  Call,        \* the calls of the other tools
  Nobody,      \* the holder of a free lock
  Scratch,     \* the environment of the server's own runner
  MaxRunning,  \* MAX_RUNNING_JOBS
  MaxJobs      \* _MAX_JOBS

ASSUME JobsAssumption ==
  /\ Job \subseteq Nat /\ MaxRunning \in Nat \ {0} /\ MaxJobs \in Nat /\ MaxRunning <= MaxJobs
  /\ Call \cap (Job \cup {Nobody, Scratch}) = {} /\ Nobody # Scratch /\ {Nobody, Scratch} \cap Job = {}

\* analyze stands for analyze_diff, analyze_aur_package and fp_verify, which
\* takes the lock again for every reproducer; benign for a serial sweep too.
Tools == {"analyze", "preflight", "benign", "poll"}
Actor == Job \cup Call
Owner == Actor \cup {Scratch}

VARIABLES
  table,    \* _jobs, in insertion order
  job,      \* each job, with its thread and its timer
  settling, \* the job _finish_job is writing, under _jobs_lock
  clock,    \* finishes so far, the clock of finished_at
  analysisLock, \* the holder of _analysis_lock
  bound,    \* whose environment the process's paths name
  strayed,  \* binds whose files went to, or came from, another's directory; ghost
  ready,    \* _ANALYSIS_RUNNER exists
  call,     \* what each call is doing
  told      \* the outcomes that polls have answered about each job; ghost

jobVars == <<table, job, settling, clock>>
pathVars == <<analysisLock, bound, strayed, ready>>
serverVars == <<jobVars, pathVars, call, told>>

Status == {"running", "completed", "failed"}
Inside == {"point", "fill", "load", "run"}

ServerInit ==
  /\ table = <<>> /\ settling = Nobody /\ clock = 0
  /\ job = [j \in Job |-> [status |-> "running", finished |-> 0, timer |-> "none", thread |-> "none"]]
  /\ analysisLock = Nobody /\ bound = Nobody /\ strayed = {} /\ ready = FALSE
  /\ call = [c \in Call |-> [tool |-> "poll", at |-> "idle", job |-> Nobody]]
  /\ told = [j \in Job |-> {}]

Listed(j) == j \in ToSet(table)
Ended(j) == job[j].status # "running"
Created(j) == Listed(j) \/ Ended(j)
Running == {j \in ToSet(table) : ~Ended(j)}

ServerTypeOK ==
  /\ table \in Seq(Job) /\ settling \in Job \cup {Nobody} /\ clock \in Nat
  /\ job \in [Job -> [status : Status, finished : Nat,
                      timer : {"none", "armed", "off"},
                      thread : {"none", "lost", "lock", "out", "over"} \cup Inside]]
  /\ analysisLock \in Actor \cup {Nobody} /\ bound \in Owner \cup {Nobody}
  /\ strayed \subseteq Owner \X Owner /\ ready \in BOOLEAN
  /\ call \in [Call -> [tool : Tools, at : {"idle", "lock", "shown", "done"} \cup Inside,
                        job : Job \cup {Nobody}]]
  /\ told \in [Job -> SUBSET Status]

(***************************************************************************)
(* A job's life: _create_job, _run_in_thread, _finish_job.                 *)
(***************************************************************************)
\* Mutant: makes room for the jobs there are, not for the new one.
StaleOneShort(j) ==
  /\ Ended(j)
  /\ Cardinality({k \in ToSet(table) : Ended(k) /\ job[k].finished < job[j].finished}) < Len(table) - MaxJobs

\* Mutant: the job created first goes first.
StaleByCreation(j) ==
  /\ Ended(j)
  /\ Cardinality({k \in ToSet(table) : Ended(k) /\ k # j
                    /\ \E m, n \in DOMAIN table : m < n /\ table[m] = k /\ table[n] = j}) < Len(table) + 1 - MaxJobs

\* The ended jobs that make room for one more, the oldest outcome first.
Stale(j) ==
  /\ Ended(j)
  /\ Cardinality({k \in ToSet(table) : Ended(k) /\ job[k].finished < job[j].finished}) < Len(table) + 1 - MaxJobs

Create(j) ==
  /\ ~Created(j) /\ \A k \in Job : k < j => Created(k)
  /\ settling = Nobody /\ Cardinality(Running) < MaxRunning
  /\ table' = Append(Filtered(table, {k \in ToSet(table) : ~Stale(k)}), j)
  /\ UNCHANGED <<settling, clock, pathVars, call, told>>

Thread(j, at) == job' = [job EXCEPT ![j].thread = at]

CreateArmed(j) == Create(j) /\ job' = [job EXCEPT ![j].timer = "armed"]

\* A process out of threads cannot start the timer, or cannot start the
\* worker: the tool raises, and the job stays in the table.
CreateRefused(j) == Create(j) /\ Thread(j, "lost")

\* Mutant: the worker is started before its deadline, which is then not armed.
StartUnarmed(j) ==
  /\ Listed(j) /\ job[j].thread = "none"
  /\ job' = [job EXCEPT ![j].thread = "lock", ![j].timer = "off"]
  /\ UNCHANGED <<table, settling, clock, pathVars, call, told>>

StartThread(j) ==
  /\ job[j].thread = "none" /\ job[j].timer # "none"
  /\ Thread(j, "lock")
  /\ UNCHANGED <<table, settling, clock, pathVars, call, told>>

NoThread(j) ==
  /\ job[j].thread = "none" /\ job[j].timer # "none"
  /\ Thread(j, "lost")
  /\ UNCHANGED <<table, settling, clock, pathVars, call, told>>

\* The worker calls _finish_job once it is out, the timer once it has fired;
\* a timer that is settled while it waits for the lock finds the job ended.
Finisher(j, s, worker) ==
  IF worker THEN job[j].thread = "out" ELSE job[j].timer = "armed" /\ s = "failed"
Spent(j, worker) == IF worker THEN [job[j] EXCEPT !.thread = "over"] ELSE [job[j] EXCEPT !.timer = "off"]

\* Mutant: whoever comes last is right.
FinishAgain(j, s, worker) ==
  /\ settling = Nobody
  /\ Finisher(j, s, worker)
  /\ job' = [job EXCEPT ![j] = [Spent(j, worker) EXCEPT !.status = s]]
  /\ settling' = IF Ended(j) THEN Nobody ELSE j
  /\ UNCHANGED <<table, clock, pathVars, call, told>>

\* The first to come writes the status, the other returns.
Finish(j, s, worker) ==
  /\ settling = Nobody
  /\ Finisher(j, s, worker)
  /\ IF Ended(j) THEN job' = [job EXCEPT ![j] = Spent(j, worker)] /\ UNCHANGED settling
     ELSE job' = [job EXCEPT ![j] = [Spent(j, worker) EXCEPT !.status = s]] /\ settling' = j
  /\ UNCHANGED <<table, clock, pathVars, call, told>>

\* The other fields, the timer, the lock.
Settle(j) ==
  /\ settling = j
  /\ clock' = clock + 1
  /\ job' = [job EXCEPT ![j] =
                [@ EXCEPT !.finished = clock', !.timer = IF job[j].timer = "armed" THEN "off" ELSE job[j].timer]]
  /\ settling' = Nobody
  /\ UNCHANGED <<table, pathVars, call, told>>

(***************************************************************************)
(* Analyses: by a job, or by a call.                                       *)
(***************************************************************************)
At(a, step) == IF a \in Job THEN job[a].thread = step ELSE call[a].at = step
Go(a, step) ==
  IF a \in Job THEN Thread(a, step) /\ UNCHANGED call
  ELSE call' = [call EXCEPT ![a].at = step] /\ UNCHANGED job

Uses(a, tool) == a \in Call /\ call[a].tool = tool
Env(a) == IF Uses(a, "analyze") THEN Scratch ELSE a
First(a) == IF Uses(a, "preflight") \/ (Uses(a, "analyze") /\ ready) THEN "run" ELSE "point"
Release(a) == analysisLock' = IF analysisLock = a THEN Nobody ELSE analysisLock

\* Mutant: no tool takes the lock.
CallUnlocked(c, tool) ==
  /\ call[c].at = "idle"
  /\ call' = [call EXCEPT ![c] = [@ EXCEPT !.tool = tool, !.at = IF tool = "preflight" THEN "run" ELSE "point"]]
  /\ UNCHANGED <<jobVars, pathVars, told>>

CallTool(c, tool) ==
  /\ call[c].at = "idle"
  /\ call' = [call EXCEPT ![c] = [@ EXCEPT !.tool = tool, !.at = IF tool = "benign" THEN "point" ELSE "lock"]]
  /\ UNCHANGED <<jobVars, pathVars, told>>

Enter(a) ==
  /\ At(a, "lock") /\ analysisLock = Nobody
  /\ analysisLock' = a
  /\ Go(a, First(a))
  /\ UNCHANGED <<table, settling, clock, bound, strayed, ready, told>>

\* A deep preflight does not wait.
Busy(c) ==
  /\ Uses(c, "preflight") /\ At(c, "lock") /\ analysisLock # Nobody
  /\ Go(c, "done")
  /\ UNCHANGED <<jobVars, pathVars, told>>

\* Environment.bind points the paths, then writes the default configuration
\* to wherever they name.
Point(a) ==
  /\ At(a, "point")
  /\ bound' = Env(a)
  /\ Go(a, "fill")
  /\ UNCHANGED <<table, settling, clock, analysisLock, strayed, ready, told>>

Reach(a) == strayed' = IF bound = Env(a) THEN strayed ELSE strayed \cup {<<Env(a), bound>>}

Fill(a) ==
  /\ At(a, "fill")
  /\ Reach(a)
  /\ Go(a, IF a \in Job THEN "run" ELSE "load")
  /\ UNCHANGED <<table, settling, clock, analysisLock, bound, ready, told>>

\* The server's runner drops and rewrites the rules it finds; a benign scan
\* reads them.
Load(a) ==
  /\ At(a, "load")
  /\ Reach(a)
  /\ ready' = (ready \/ Uses(a, "analyze"))
  /\ Go(a, "run")
  /\ UNCHANGED <<table, settling, clock, analysisLock, bound, told>>

\* The analysis returns, or something inside has raised.
Leave(a) ==
  /\ \E step \in Inside : At(a, step)
  /\ Release(a)
  /\ Go(a, IF a \in Job THEN "out" ELSE "done")
  /\ UNCHANGED <<table, settling, clock, bound, strayed, ready, told>>

(***************************************************************************)
(* get_job_status: the lookup, then the status, then the status again.     *)
(***************************************************************************)
Tell(j) == told' = [told EXCEPT ![j] = @ \cup ({job[j].status} \ {"running"})]

Look(c, j) ==
  /\ call[c].at = "idle" /\ Listed(j) /\ settling = Nobody
  /\ call' = [call EXCEPT ![c] = [tool |-> "poll", at |-> "shown", job |-> j]]
  /\ Tell(j)
  /\ UNCHANGED <<jobVars, pathVars>>

AnswerPoll(c) ==
  /\ call[c].at = "shown"
  /\ Tell(call[c].job)
  /\ call' = [call EXCEPT ![c].at = "done"]
  /\ UNCHANGED <<jobVars, pathVars>>

Finishes(j) == \E s \in Status \ {"running"}, worker \in BOOLEAN : Finish(j, s, worker)

ServerNext ==
  \/ \E j \in Job : \/ CreateArmed(j) \/ CreateRefused(j) \/ StartThread(j) \/ NoThread(j)
                   \/ Finishes(j)\/ Settle(j)
  \/ \E c \in Call : \/ Busy(c) \/ (\E tool \in Tools \ {"poll"} : CallTool(c, tool))
                    \/ (\E j \in Job : Look(c, j)) \/ AnswerPoll(c)
  \/ \E a \in Actor : Enter(a) \/ Point(a) \/ Fill(a) \/ Load(a) \/ Leave(a)

ServerSpec == ServerInit /\ [][ServerNext]_serverVars

\* Threads and timers run; an analysis owes nothing, nor does a lock.
FairServer == ServerSpec /\ \A j \in Job : WF_serverVars(Finishes(j)) /\ WF_serverVars(Settle(j))

(***************************************************************************)
(* Properties.                                                             *)
(***************************************************************************)
\* A client is never told of one job that it completed and that it failed:
\* a worker that outlives its deadline does not rewrite the answer.
OneOutcomeTold == \A j \in Job : Cardinality(told[j]) <= 1

\* What a job, or the server's own runner, writes after pointing the paths
\* lands in its own environment, unless a tool that takes no lock has moved
\* them: neither a queued job nor one whose deadline has passed is disturbed.
OwnBindings ==
  \A pair \in strayed : pair[1] \in Job \cup {Scratch} => Uses(pair[2], "benign")

\* The table keeps to its bounds, and does so by forgetting ended jobs only,
\* never one before another that ended earlier.
ForgetsTheOldest ==
  [][/\ Len(table') <= MaxJobs /\ Cardinality(Running') <= MaxRunning
     /\ \A j \in ToSet(table) \ ToSet(table') :
          Ended(j) /\ \A k \in ToSet(table') : Ended(k) => job[k].finished > job[j].finished]_serverVars

\* A job whose worker was started ends, even if its analysis never does and
\* even if it never gets the analysis lock.
EveryJobEnds == \A j \in Job : job[j].thread = "lock" ~> Ended(j)

=============================================================================
