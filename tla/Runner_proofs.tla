--------------------------- MODULE Runner_proofs ---------------------------
(***************************************************************************)
(* The analyser, for any number of threads, environments and calls: whose  *)
(* reply a call takes, what it was measured under, whom a deadline kills   *)
(* and what is left running.  Then the other calls that threads make under *)
(* a deadline, the paced fetches: what their budgets and the cap mean.     *)
(***************************************************************************)
EXTENDS Runner, PacedFetch, SequenceTheorems, WellFoundedInduction, TLAPS

ProcRec == [state : {"unborn", "setup", "live", "dead"},
            bound : Envs \cup {Nothing}, inbox : Seq(Request), outbox : Seq(Reply)]
CallRec == [at : Steps, op : Ops, tag : Tag, worker : Worker \cup {None},
            late : BOOLEAN, outcome : Outcomes, answer : Reply \cup {Nothing}]

LEMMA Constants == /\ FirstEnv \in Envs /\ Nothing \notin Threads /\ Nothing \notin Envs
                   /\ MaxCalls \in Nat /\ MaxCalls > 0 /\ None = 0 /\ None \notin Worker /\ 1 \in Worker
  BY RunnerAssumption DEF None, Worker

(***************************************************************************)
(* The clones are counted by the calls.                                    *)
(***************************************************************************)
Serial == \A t \in Threads : lock = t <=> ~At(t, "out")

Budgeted == spawned <= calls /\ \A t \in Threads : call[t].at \in {"ensure", "clone"} => spawned < calls

\* A caller past its spawn has a worker to talk to.
Manned(c) ==
  c.at \in {"setup", "arm", "send", "read", "caught", "settle", "disarm"} \/ (c.at = "spawned" /\ c.outcome # "error")
    => c.worker # None
Staffed == \A t \in Threads : Manned(call[t])

Typed == TypeOK /\ Serial /\ Budgeted /\ Staffed

LEMMA InitTyped == Init => Typed
<1> SUFFICES ASSUME Init PROVE Typed
  OBVIOUS
<1> USE DEF Init
<1>1. proc \in [Worker -> ProcRec]
  BY DEF ProcRec
<1>2. [id |-> 1, cold |-> FALSE] \in Tag
  BY Constants DEF Tag, Worker
<1>3. call \in [Threads -> CallRec]
  BY <1>2 DEF CallRec, Steps, Ops, Outcomes
<1>4. Serial /\ Budgeted /\ Staffed
  BY Constants DEF Serial, Budgeted, At, None, Staffed, Manned
<1> QED BY <1>1, <1>3, <1>4, Constants DEF Typed, TypeOK, ProcRec, CallRec

\* What a step may do to one caller.
LEMMA CallSteps ==
  ASSUME Typed, NEW t \in Threads, NEW moved \in CallRec, call' = [call EXCEPT ![t] = moved]
  PROVE  call' \in [Threads -> CallRec] /\ call'[t] = moved /\ \A u \in Threads : u # t => call'[u] = call[u]
  BY DEF Typed, TypeOK, CallRec

LEMMA ProcSteps ==
  ASSUME Typed, NEW w \in Worker, NEW moved \in ProcRec, proc' = [proc EXCEPT ![w] = moved]
  PROVE  proc' \in [Worker -> ProcRec] /\ proc'[w] = moved /\ \A v \in Worker : v # w => proc'[v] = proc[v]
  BY DEF Typed, TypeOK, ProcRec

LEMMA Fields ==
  ASSUME TypeOK
  PROVE  /\ proc \in [Worker -> ProcRec] /\ call \in [Threads -> CallRec]
         /\ lock \in Threads \cup {Nothing} /\ env \in Envs
         /\ session \in Worker \cup {None} /\ spawned \in Worker \cup {None} /\ calls \in Worker \cup {None}
         /\ armed \in Deadline \cup {Nothing} /\ firing \in Deadline \cup {Nothing} /\ stranded \in SUBSET Worker
  BY DEF TypeOK, ProcRec, CallRec

LEMMA Typing ==
  ASSUME proc' \in [Worker -> ProcRec], call' \in [Threads -> CallRec],
         lock' \in Threads \cup {Nothing}, env' \in Envs,
         session' \in Worker \cup {None}, spawned' \in Worker \cup {None}, calls' \in Worker \cup {None},
         armed' \in Deadline \cup {Nothing}, firing' \in Deadline \cup {Nothing}, stranded' \in SUBSET Worker
  PROVE  TypeOK'
  BY DEF TypeOK, ProcRec, CallRec

\* The worker's side of a pipe.
LEMMA DroppedTyped ==
  ASSUME TypeOK, NEW w \in Worker
  PROVE  /\ Dropped(w) \in [Worker -> ProcRec] /\ \A v \in Worker : v # w => Dropped(w)[v] = proc[v]
         /\ Dropped(w)[w] = [state |-> "dead", bound |-> Nothing, inbox |-> <<>>, outbox |-> <<>>]
<1>1. <<>> \in Seq(Request) /\ <<>> \in Seq(Reply)
  OBVIOUS
<1> QED BY <1>1, Fields DEF Dropped, ProcRec

LEMMA KilledTyped ==
  ASSUME TypeOK, NEW w \in Worker
  PROVE  /\ Killed(w) \in [Worker -> ProcRec] /\ \A v \in Worker : v # w => Killed(w)[v] = proc[v]
         /\ Killed(w)[w].state = "dead" /\ Killed(w)[w].bound = proc[w].bound
         /\ Killed(w)[w].inbox = proc[w].inbox /\ Killed(w)[w].outbox = proc[w].outbox
  BY Fields DEF Killed, ProcRec

LEMMA EnterTyped ==
  ASSUME Typed, NEW t \in Threads, NEW op \in Ops, NEW e \in Envs, Enter(t, op, e)
  PROVE  Typed'
<1> USE Fields DEF Typed
<1> DEFINE moved == [call[t] EXCEPT !.at = "ensure", !.op = op, !.tag = [id |-> calls', cold |-> FALSE],
                                  !.outcome = "none", !.answer = Nothing]
<1>1. calls' \in Worker /\ calls < calls' /\ calls \in Nat
  BY Constants DEF Enter, Worker
<1>2. moved \in CallRec
  <2>1. call[t] \in CallRec
    OBVIOUS
  <2>2. [id |-> calls', cold |-> FALSE] \in Tag
    BY <1>1 DEF Tag, Worker
  <2> QED BY <2>1, <2>2 DEF CallRec, Steps, Outcomes
<1>3. call' = [call EXCEPT ![t] = moved]
  BY DEF Enter
<1>4. moved.at = "ensure"
  BY DEF CallRec
<1> HIDE DEF moved
<1>5. call' \in [Threads -> CallRec] /\ call'[t] = moved /\ \A u \in Threads : u # t => call'[u] = call[u]
  BY <1>2, <1>3, CallSteps
<1>6. proc' \in [Worker -> ProcRec]
  BY DroppedTyped DEF Enter
<1>7. TypeOK'
  BY <1>1, <1>5, <1>6, Typing DEF Enter
<1>8. Serial'
  BY <1>4, <1>5, Constants DEF Serial, At, Enter
<1>9. Budgeted'
  BY <1>1, <1>5, Constants DEF Budgeted, Enter, Worker
<1>10. Staffed'
  BY <1>4, <1>5 DEF Staffed, Manned
<1> QED BY <1>7, <1>8, <1>9, <1>10

\* A step of the caller that holds the lock; it may be its last.
LEMMA MoveTyped ==
  ASSUME Typed, NEW t \in Threads, ~At(t, "out"), NEW moved \in CallRec, call' = [call EXCEPT ![t] = moved],
         proc' \in [Worker -> ProcRec], session' \in Worker \cup {None}, spawned' \in Worker \cup {None},
         armed' \in Deadline \cup {Nothing}, UNCHANGED <<env, calls, firing>>, stranded' \in SUBSET Worker,
         lock' = IF moved.at = "out" THEN Nothing ELSE lock,
         spawned' <= calls, moved.at \in {"ensure", "clone"} => spawned' < calls, Manned(moved)
  PROVE  Typed' /\ lock = t /\ call'[t] = moved /\ \A u \in Threads : u # t => call'[u] = call[u] /\ At(u, "out")
<1> USE Fields DEF Typed
<1>1. lock = t /\ \A u \in Threads : u # t => At(u, "out")
  BY DEF Serial
<1>2. call' \in [Threads -> CallRec] /\ call'[t] = moved /\ \A u \in Threads : u # t => call'[u] = call[u]
  BY CallSteps
<1>3. TypeOK'
  BY <1>1, <1>2, Typing
<1>4. Serial'
  BY <1>1, <1>2, Constants DEF Serial, At
<1>5. Budgeted'
  BY <1>1, <1>2 DEF Budgeted, At
<1>6. Staffed'
  BY <1>1, <1>2 DEF Staffed
<1> QED BY <1>1, <1>2, <1>3, <1>4, <1>5, <1>6

LEMMA TagTyped ==
  ASSUME NEW tag \in Tag, NEW b \in BOOLEAN
  PROVE  [tag EXCEPT !.cold = b] \in Tag
  BY DEF Tag

LEMMA CallerTyped ==
  ASSUME Typed, NEW t \in Threads, Caller(t)
  PROVE  /\ Typed' /\ lock = t /\ ~At(t, "out") /\ UNCHANGED <<env, calls, firing>>
         /\ \A u \in Threads : u # t => call'[u] = call[u] /\ At(u, "out")
<1> USE Fields, Constants DEF Typed
<1>a. call[t] \in CallRec /\ call[t].at \in Steps /\ call[t].outcome \in Outcomes /\ call[t].worker \in Worker \cup {None}
      /\ call[t].tag \in Tag /\ call[t].op \in Ops /\ call[t].late \in BOOLEAN /\ call[t].answer \in Reply \cup {Nothing}
  BY DEF CallRec
<1>b. spawned <= calls
  BY DEF Budgeted
<1>c. Manned(call[t])
  BY DEF Staffed
<1>1. CASE EnsureWarm(t)
  <2> DEFINE moved == [call[t] EXCEPT !.at = "arm", !.worker = session]
  <2>1. moved \in CallRec /\ moved.at = "arm" /\ Manned(moved)
    BY <1>1, <1>a DEF EnsureWarm, CallRec, Manned, Steps
  <2>2. call' = [call EXCEPT ![t] = moved] /\ ~At(t, "out")
    BY <1>1 DEF EnsureWarm, At
  <2> HIDE DEF moved
  <2> QED BY <1>1, <1>b, <2>1, <2>2, MoveTyped DEF EnsureWarm
<1>2. CASE EnsureCold(t)
  <2> DEFINE moved == [call[t] EXCEPT !.at = "clone", !.tag.cold = TRUE, !.worker = None]
  <2>1. moved \in CallRec /\ moved.at = "clone" /\ Manned(moved)
    BY <1>a, <1>c, TagTyped DEF CallRec, Manned, Steps
  <2>2. call' = [call EXCEPT ![t] = moved] /\ ~At(t, "out")
    BY <1>2 DEF EnsureCold, At
  <2>3. call'[t].tag \in Tag
    BY <1>a, <2>1, <2>2 DEF CallRec
  <2>4. armed' \in Deadline
    BY <1>2, <2>3 DEF EnsureCold, Arm, Deadline
  <2>5. spawned < calls
    BY <1>2 DEF EnsureCold, At, Budgeted
  <2> HIDE DEF moved
  <2> QED BY <1>2, <1>b, <2>1, <2>2, <2>4, <2>5, MoveTyped DEF EnsureCold
<1>3. CASE CloneRefused(t) \/ SetupKilled(t) \/ SetupRefused(t) \/ WrapRefused(t)
  <2> DEFINE moved == [call[t] EXCEPT !.at = "spawned", !.outcome = "error"]
  <2>1. moved \in CallRec /\ moved.at = "spawned" /\ Manned(moved)
    BY <1>a, <1>c DEF CallRec, Manned, Steps, Outcomes
  <2>2. call' = [call EXCEPT ![t] = moved] /\ ~At(t, "out") /\ UNCHANGED <<lock, env, session, spawned, armed, firing, calls>>
    BY <1>3 DEF CloneRefused, SetupKilled, SetupRefused, WrapRefused, Strand, SpawnRaises, At
  <2>3. ASSUME At(t, "setup") PROVE call[t].worker \in Worker /\ proc[call[t].worker] \in ProcRec
    BY <1>a, <1>c, <2>3 DEF At, Manned
  <2>4. stranded' \in SUBSET Worker
    BY <1>3, <2>3 DEF CloneRefused, SetupKilled, SetupRefused, WrapRefused, Strand
  <2>5. proc' \in [Worker -> ProcRec]
    <3>1. CASE WrapRefused(t)
      <4>1. proc' = [proc EXCEPT ![call[t].worker].state = "live"] /\ At(t, "setup")
        BY <3>1 DEF WrapRefused
      <4> QED BY <2>3, <4>1 DEF ProcRec
    <3>2. CASE ~WrapRefused(t)
      BY <1>3, <3>2 DEF CloneRefused, SetupKilled, SetupRefused
    <3> QED BY <3>1, <3>2
  <2> HIDE DEF moved
  <2> QED BY <1>b, <2>1, <2>2, <2>4, <2>5, MoveTyped
<1>4. CASE Clone(t)
  <2> DEFINE moved == [call[t] EXCEPT !.at = "setup", !.worker = spawned']
  <2>1. spawned < calls
    BY <1>4 DEF Clone, At, Budgeted
  <2>2. spawned' \in Worker /\ spawned' <= calls
    BY <1>4, <2>1 DEF Clone, Worker
  <2>3. moved \in CallRec /\ moved.at = "setup" /\ Manned(moved)
    BY <1>a, <1>c, <2>2 DEF CallRec, Manned, Steps
  <2>4. call' = [call EXCEPT ![t] = moved] /\ ~At(t, "out")
    BY <1>4 DEF Clone, At
  <2>5. proc' \in [Worker -> ProcRec]
    BY <1>4, <2>2 DEF Clone, ProcRec
  <2> HIDE DEF moved
  <2> QED BY <1>4, <2>2, <2>3, <2>4, <2>5, MoveTyped DEF Clone
<1>5. CASE Exec(t)
  <2> DEFINE moved == [call[t] EXCEPT !.at = "spawned"]
  <2>1. moved \in CallRec /\ moved.at = "spawned" /\ Manned(moved)
    BY <1>5, <1>a, <1>c DEF Exec, At, CallRec, Manned, Steps
  <2>2. call' = [call EXCEPT ![t] = moved] /\ ~At(t, "out")
    BY <1>5 DEF Exec, At
  <2>3. proc' \in [Worker -> ProcRec]
    <3>1. call[t].worker \in Worker
      BY <1>5, <1>a, <1>c DEF Exec, At, Manned
    <3>2. proc' = [proc EXCEPT ![call[t].worker].state = "live"]
      BY <1>5 DEF Exec
    <3>3. proc[call[t].worker] \in ProcRec
      BY <3>1
    <3> QED BY <3>1, <3>2, <3>3 DEF ProcRec
  <2> HIDE DEF moved
  <2> QED BY <1>5, <1>b, <2>1, <2>2, <2>3, MoveTyped DEF Exec
<1>6. CASE DisarmSpawn(t)
  <2>1. ~At(t, "out")
    BY <1>6 DEF DisarmSpawn, At
  <2>2. CASE call[t].outcome = "error"
    <3> DEFINE moved == [call[t] EXCEPT !.at = "out", !.worker = None, !.late = FALSE, !.answer = Nothing]
    <3>1. moved \in CallRec /\ moved.at = "out" /\ Manned(moved)
      BY <1>a, <1>c DEF CallRec, Manned, Steps
    <3>2. call' = [call EXCEPT ![t] = moved]
      BY <1>6, <2>2 DEF DisarmSpawn, Leave
    <3> HIDE DEF moved
    <3> QED BY <1>6, <1>b, <2>1, <2>2, <3>1, <3>2, MoveTyped DEF DisarmSpawn, Leave
  <2>3. CASE call[t].outcome # "error"
    <3> DEFINE moved == [call[t] EXCEPT !.at = "arm"]
    <3>1. moved \in CallRec /\ moved.at = "arm" /\ Manned(moved)
      BY <1>6, <2>3, <1>a, <1>c DEF DisarmSpawn, At, CallRec, Manned, Steps
    <3>2. call' = [call EXCEPT ![t] = moved]
      BY <1>6, <2>3 DEF DisarmSpawn
    <3> HIDE DEF moved
    <3> QED BY <1>6, <1>a, <1>b, <2>1, <2>3, <3>1, <3>2, MoveTyped DEF DisarmSpawn
  <2> QED BY <2>2, <2>3
<1>7. CASE ArmRequest(t)
  <2> DEFINE moved == [call[t] EXCEPT !.at = "send", !.late = FALSE, !.answer = Nothing]
  <2>1. moved \in CallRec /\ moved.at = "send" /\ Manned(moved)
    BY <1>7, <1>a, <1>c DEF ArmRequest, At, CallRec, Manned, Steps
  <2>2. call' = [call EXCEPT ![t] = moved] /\ ~At(t, "out")
    BY <1>7 DEF ArmRequest, At
  <2>3. call'[t].tag \in Tag
    BY <1>a, <2>1, <2>2 DEF CallRec
  <2>4. armed' \in Deadline
    BY <1>7, <1>a, <2>3 DEF ArmRequest, Arm, Deadline
  <2> HIDE DEF moved
  <2> QED BY <1>7, <1>b, <2>1, <2>2, <2>4, MoveTyped DEF ArmRequest
<1>8. CASE Send(t)
  <2>1. call[t].worker \in Worker /\ ~At(t, "out") /\ proc[call[t].worker] \in ProcRec
    BY <1>8, <1>a, <1>c DEF Send, At, Manned
  <2>2. CASE proc[call[t].worker].state = "live"
    <3> DEFINE moved == [call[t] EXCEPT !.at = "read"]
    <3>1. moved \in CallRec /\ moved.at = "read" /\ Manned(moved)
      BY <2>1, <1>a DEF CallRec, Steps, Manned
    <3>2. call' = [call EXCEPT ![t] = moved]
      BY <1>8, <2>2 DEF Send
    <3>3. Asked(t) \in Request
      BY <1>a DEF Asked, Request, Ops
    <3>4. proc' \in [Worker -> ProcRec]
      <4>1. proc[call[t].worker].inbox \in Seq(Request)
        BY <2>1 DEF ProcRec
      <4>2. Append(proc[call[t].worker].inbox, Asked(t)) \in Seq(Request)
        BY <4>1, <3>3
      <4>3. [proc[call[t].worker] EXCEPT !.inbox = Append(proc[call[t].worker].inbox, Asked(t))] \in ProcRec
        BY <4>2, <2>1 DEF ProcRec
      <4>4. proc' = [proc EXCEPT ![call[t].worker] =
                       [proc[call[t].worker] EXCEPT !.inbox = Append(proc[call[t].worker].inbox, Asked(t))]]
        BY <1>8, <2>2 DEF Send
      <4> QED BY <4>3, <4>4
    <3> HIDE DEF moved
    <3> QED BY <1>8, <1>b, <2>1, <3>1, <3>2, <3>4, MoveTyped DEF Send
  <2>3. CASE proc[call[t].worker].state # "live"
    <3> DEFINE moved == [call[t] EXCEPT !.at = "caught", !.outcome = "gone"]
    <3>1. moved \in CallRec /\ moved.at = "caught" /\ Manned(moved)
      BY <2>1, <1>a DEF CallRec, Steps, Outcomes, Manned
    <3>2. call' = [call EXCEPT ![t] = moved]
      BY <1>8, <2>3 DEF Send
    <3> HIDE DEF moved
    <3> QED BY <1>8, <1>b, <2>1, <2>3, <3>1, <3>2, MoveTyped DEF Send
  <2> QED BY <2>2, <2>3
<1>9. CASE Read(t)
  <2> DEFINE w == call[t].worker
             reply == Head(proc[w].outbox)
             moved == [call[t] EXCEPT !.answer = reply, !.outcome = IF reply.ok THEN "ok" ELSE "error",
                                    !.at = IF reply.ok THEN "disarm" ELSE "caught"]
  <2>1. w \in Worker /\ ~At(t, "out") /\ proc[w] \in ProcRec /\ proc[w].outbox # <<>>
    BY <1>9, <1>a, <1>c DEF Read, At, Manned
  <2>2. reply \in Reply /\ Tail(proc[w].outbox) \in Seq(Reply)
    <3>1. proc[w].outbox \in Seq(Reply)
      BY <2>1 DEF ProcRec
    <3> QED BY <3>1, <2>1
  <2>3. call' = [call EXCEPT ![t] = moved]
    BY <1>9 DEF Read
  <2>4. proc' = [proc EXCEPT ![w] = [proc[w] EXCEPT !.outbox = Tail(proc[w].outbox)]]
    BY <1>9 DEF Read
  <2>5. proc' \in [Worker -> ProcRec]
    BY <2>1, <2>2, <2>4 DEF ProcRec
  <2>6. moved \in CallRec /\ moved.at \in {"disarm", "caught"} /\ Manned(moved)
    <3> HIDE DEF reply
    <3> QED BY <2>1, <2>2, <1>a DEF CallRec, Steps, Outcomes, Manned
  <2> HIDE DEF moved
  <2> QED BY <1>9, <1>b, <2>1, <2>3, <2>5, <2>6, MoveTyped DEF Read
<1>10. CASE ReadEOF(t)
  <2> DEFINE moved == [call[t] EXCEPT !.at = "caught", !.outcome = "gone"]
  <2>1. call[t].worker # None /\ ~At(t, "out")
    BY <1>10, <1>c DEF ReadEOF, At, Manned
  <2>2. moved \in CallRec /\ moved.at = "caught" /\ Manned(moved)
    BY <2>1, <1>a DEF CallRec, Steps, Outcomes, Manned
  <2>3. call' = [call EXCEPT ![t] = moved]
    BY <1>10 DEF ReadEOF
  <2> HIDE DEF moved
  <2> QED BY <1>10, <1>b, <2>1, <2>2, <2>3, MoveTyped DEF ReadEOF
<1>11. CASE KeepSession(t)
  <2> DEFINE moved == [call[t] EXCEPT !.at = "disarm"]
  <2>1. call[t].worker # None /\ ~At(t, "out")
    BY <1>11, <1>c DEF KeepSession, At, Manned
  <2>2. moved \in CallRec /\ moved.at = "disarm" /\ Manned(moved)
    BY <2>1, <1>a DEF CallRec, Steps, Outcomes, Manned
  <2>3. call' = [call EXCEPT ![t] = moved]
    BY <1>11 DEF KeepSession
  <2> HIDE DEF moved
  <2> QED BY <1>11, <1>b, <2>1, <2>2, <2>3, MoveTyped DEF KeepSession
<1>12. CASE DropSession(t)
  <2> DEFINE moved == [call[t] EXCEPT !.at = "settle"]
  <2>1. call[t].worker \in Worker /\ ~At(t, "out")
    BY <1>12, <1>a, <1>c DEF DropSession, At, Manned
  <2>2. moved \in CallRec /\ moved.at = "settle" /\ Manned(moved)
    BY <2>1, <1>a DEF CallRec, Steps, Outcomes, Manned
  <2>3. call' = [call EXCEPT ![t] = moved]
    BY <1>12 DEF DropSession
  <2>4. proc' \in [Worker -> ProcRec]
    BY <1>12, <2>1, DroppedTyped DEF DropSession
  <2> HIDE DEF moved
  <2> QED BY <1>12, <1>b, <2>1, <2>2, <2>3, <2>4, MoveTyped DEF DropSession
<1>13. CASE Settle(t)
  <2> DEFINE moved == [call[t] EXCEPT !.at = "disarm", !.outcome = IF call[t].late THEN "timeout" ELSE "gone"]
  <2>1. call[t].worker # None /\ ~At(t, "out")
    BY <1>13, <1>c DEF Settle, At, Manned
  <2>2. moved \in CallRec /\ moved.at = "disarm" /\ Manned(moved)
    BY <2>1, <1>a DEF CallRec, Steps, Outcomes, Manned
  <2>3. call' = [call EXCEPT ![t] = moved]
    BY <1>13 DEF Settle
  <2> HIDE DEF moved
  <2> QED BY <1>13, <1>b, <2>1, <2>2, <2>3, MoveTyped DEF Settle
<1>14. CASE Finish(t)
  <2>1. call[t].worker \in Worker /\ ~At(t, "out")
    BY <1>14, <1>a, <1>c DEF Finish, At, Manned
  <2>2. CASE call[t].tag.cold /\ call[t].outcome = "ok"
    <3> DEFINE moved == [call[t] EXCEPT !.at = "arm", !.tag.cold = FALSE, !.outcome = "none"]
    <3>1. moved \in CallRec /\ moved.at = "arm" /\ Manned(moved)
      BY <2>1, <1>a, TagTyped DEF CallRec, Steps, Outcomes, Manned
    <3>2. call' = [call EXCEPT ![t] = moved]
      BY <1>14, <2>2 DEF Finish
    <3> HIDE DEF moved
    <3> QED BY <1>14, <1>b, <2>1, <2>2, <3>1, <3>2, MoveTyped DEF Finish
  <2>3. CASE ~(call[t].tag.cold /\ call[t].outcome = "ok")
    <3> DEFINE moved == [call[t] EXCEPT !.at = "out", !.worker = None, !.late = FALSE, !.answer = Nothing]
    <3>1. moved \in CallRec /\ moved.at = "out" /\ Manned(moved)
      BY <1>a DEF CallRec, Steps, Manned
    <3>2. call' = [call EXCEPT ![t] = moved]
      BY <1>14, <2>3 DEF Finish, Leave
    <3>3. proc' \in [Worker -> ProcRec] /\ session' \in Worker \cup {None}
      BY <1>14, <2>1, <2>3, DroppedTyped DEF Finish
    <3> HIDE DEF moved
    <3> QED BY <1>14, <1>b, <2>1, <2>3, <3>1, <3>2, <3>3, MoveTyped DEF Finish, Leave
  <2> QED BY <2>2, <2>3
<1> QED BY <1>1, <1>2, <1>3, <1>4, <1>5, <1>6, <1>7, <1>8, <1>9, <1>10, <1>11, <1>12, <1>13, <1>14 DEF Caller

\* A worker's step, its death included.
Serves(w) == Bind(w) \/ BindFails(w) \/ Serve(w) \/ Refuse(w)
WorkerStep(w) == Bind(w) \/ BindFails(w) \/ Serve(w) \/ Refuse(w) \/ Die(w)

LEMMA WorkerTyped ==
  ASSUME Typed, NEW w \in Worker, WorkerStep(w)
  PROVE  Typed' /\ UNCHANGED <<lock, env, session, spawned, call, armed, firing, calls, stranded>>
<1> USE Fields DEF Typed
<1>1. UNCHANGED <<lock, env, session, spawned, call, armed, firing, calls, stranded>>
  BY DEF WorkerStep, Bind, BindFails, Serve, Refuse, Die, Replies
<1>2. proc' \in [Worker -> ProcRec]
  <2>1. CASE Die(w)
    BY <2>1, KilledTyped DEF Die
  <2>2. ASSUME NEW ok \in BOOLEAN, NEW b \in Envs \cup {Nothing}, NEW s \in {"live", "dead"},
               Replies(w, ok, b, s), proc[w].inbox # <<>>
        PROVE  proc' \in [Worker -> ProcRec]
    <3> DEFINE r == [tag |-> Head(proc[w].inbox).tag, ok |-> ok, env |-> b]
               moved == [state |-> s, bound |-> b, inbox |-> Tail(proc[w].inbox), outbox |-> Append(proc[w].outbox, r)]
    <3>1. proc[w].inbox \in Seq(Request) /\ proc[w].outbox \in Seq(Reply)
      BY DEF ProcRec
    <3>2. Head(proc[w].inbox) \in Request /\ Tail(proc[w].inbox) \in Seq(Request)
      BY <2>2, <3>1
    <3>3. r \in Reply
      BY <3>2 DEF Request, Reply
    <3>4. Append(proc[w].outbox, r) \in Seq(Reply)
      BY <3>1, <3>3
    <3>5. moved \in ProcRec
      BY <3>2, <3>4 DEF ProcRec
    <3>6. proc' = [proc EXCEPT ![w] = moved]
      BY <2>2 DEF Replies
    <3> HIDE DEF moved
    <3> QED BY <3>5, <3>6, ProcSteps
  <2>3. ASSUME proc[w].inbox # <<>>
        PROVE  Head(proc[w].inbox) \in Request /\ Head(proc[w].inbox).env \in Envs
    <3>1. proc[w].inbox \in Seq(Request)
      BY DEF ProcRec
    <3>2. Head(proc[w].inbox) \in Request
      BY <2>3, <3>1
    <3> QED BY <3>2 DEF Request
  <2>4. proc[w].bound \in Envs \cup {Nothing}
    BY DEF ProcRec
  <2> QED BY <2>1, <2>2, <2>3, <2>4 DEF WorkerStep, Bind, BindFails, Serve, Refuse, Receives
<1>3. TypeOK'
  BY <1>1, <1>2, Typing
<1>4. Serial' /\ Budgeted' /\ Staffed'
  BY <1>1 DEF Serial, Budgeted, Staffed, At
<1> QED BY <1>1, <1>3, <1>4

\* The watchdog marks the request late, then kills.
LEMMA FireTyped ==
  ASSUME Typed, Fire
  PROVE  Typed' /\ \A t \in Threads : /\ call'[t].at = call[t].at /\ call'[t].op = call[t].op /\ call'[t].tag = call[t].tag
                                      /\ call'[t].worker = call[t].worker /\ call'[t].outcome = call[t].outcome
                                      /\ call'[t].answer = call[t].answer
<1> USE Fields DEF Typed
<1>1. armed \in Deadline /\ armed.thread \in Threads
  BY DEF Fire, Deadline
<1> DEFINE u == armed.thread
           moved == [call[u] EXCEPT !.late = TRUE]
<1>2. moved \in CallRec
  BY <1>1 DEF CallRec
<1>3. call' = [call EXCEPT ![u] = moved] \/ call' = call
  BY DEF Fire
<1>4. /\ call' \in [Threads -> CallRec]
      /\ \A t \in Threads : /\ call'[t].at = call[t].at /\ call'[t].op = call[t].op /\ call'[t].tag = call[t].tag
                            /\ call'[t].worker = call[t].worker /\ call'[t].outcome = call[t].outcome
                            /\ call'[t].answer = call[t].answer
  BY <1>1, <1>2, <1>3 DEF CallRec
<1>5. TypeOK'
  BY <1>1, <1>4, Typing DEF Fire
<1>6. Serial' /\ Budgeted' /\ Staffed'
  BY <1>4 DEF Serial, Budgeted, Staffed, Manned, At, Fire
<1> QED BY <1>4, <1>5, <1>6

LEMMA KillTyped ==
  ASSUME Typed, Kill
  PROVE  /\ Typed' /\ UNCHANGED <<lock, env, session, spawned, call, armed, calls, stranded>>
         /\ proc' = proc \/ \E w \in Worker : proc' = Killed(w)
<1> USE Fields DEF Typed
<1>1. UNCHANGED <<lock, env, session, spawned, call, armed, calls, stranded>> /\ firing' = Nothing
  BY DEF Kill
<1>2. firing \in Deadline
  BY DEF Kill
<1>3. Target \in Worker \cup {None}
  BY <1>2 DEF Target, Deadline, CallRec
<1>4. proc' = proc \/ \E w \in Worker : proc' = Killed(w)
  BY <1>3 DEF Kill
<1>5. proc' \in [Worker -> ProcRec]
  BY <1>4, KilledTyped
<1>6. TypeOK'
  BY <1>1, <1>5, Typing
<1>7. Serial' /\ Budgeted' /\ Staffed'
  BY <1>1 DEF Serial, Budgeted, Staffed, At
<1> QED BY <1>1, <1>4, <1>6, <1>7

LEMMA StepTyped == Typed /\ [Next]_vars => Typed'
<1> SUFFICES ASSUME Typed, [Next]_vars PROVE Typed'
  OBVIOUS
<1>1. CASE UNCHANGED vars
  BY <1>1 DEF vars, Typed, TypeOK, Serial, Budgeted, Staffed, At
<1>2. ASSUME NEW t \in Threads, Caller(t) PROVE Typed'
  BY <1>2, CallerTyped
<1>3. ASSUME NEW t \in Threads, NEW op \in Ops, NEW e \in Envs, Enter(t, op, e) PROVE Typed'
  BY <1>3, EnterTyped
<1>4. ASSUME NEW w \in Worker, WorkerStep(w) PROVE Typed'
  BY <1>4, WorkerTyped
<1>5. CASE Fire
  BY <1>5, FireTyped
<1>6. CASE Kill
  BY <1>6, KillTyped
<1> QED BY <1>1, <1>2, <1>3, <1>4, <1>5, <1>6 DEF Next, WorkerStep

(***************************************************************************)
(* What each step of a caller leaves it with, whether or not it is late.   *)
(***************************************************************************)
Now(t, at, tag, worker, outcome, answer) ==
  /\ call'[t].at = at /\ call'[t].op = call[t].op /\ call'[t].tag = tag /\ call'[t].worker = worker
  /\ call'[t].outcome = outcome /\ call'[t].answer = answer

Reread(t) == Head(proc[call[t].worker].outbox)

LEMMA Moves ==
  ASSUME Typed, NEW t \in Threads
  PROVE  LET c == call[t] IN
         /\ EnsureWarm(t) => Now(t, "arm", c.tag, session, c.outcome, c.answer)
         /\ EnsureCold(t) => Now(t, "clone", [c.tag EXCEPT !.cold = TRUE], None, c.outcome, c.answer)
         /\ CloneRefused(t) \/ SetupKilled(t) \/ SetupRefused(t) \/ WrapRefused(t) => Now(t, "spawned", c.tag, c.worker, "error", c.answer)
         /\ Clone(t) => Now(t, "setup", c.tag, spawned', c.outcome, c.answer)
         /\ Exec(t) => Now(t, "spawned", c.tag, c.worker, c.outcome, c.answer)
         /\ DisarmSpawn(t) /\ c.outcome = "error" => Now(t, "out", c.tag, None, c.outcome, Nothing)
         /\ DisarmSpawn(t) /\ c.outcome # "error" => Now(t, "arm", c.tag, c.worker, c.outcome, c.answer)
         /\ ArmRequest(t) => Now(t, "send", c.tag, c.worker, c.outcome, Nothing)
         /\ Send(t) /\ proc[c.worker].state = "live" => Now(t, "read", c.tag, c.worker, c.outcome, c.answer)
         /\ Send(t) /\ proc[c.worker].state # "live" => Now(t, "caught", c.tag, c.worker, "gone", c.answer)
         /\ Read(t) /\ Reread(t).ok => Now(t, "disarm", c.tag, c.worker, "ok", Reread(t))
         /\ Read(t) /\ ~Reread(t).ok => Now(t, "caught", c.tag, c.worker, "error", Reread(t))
         /\ ReadEOF(t) => Now(t, "caught", c.tag, c.worker, "gone", c.answer)
         /\ KeepSession(t) => Now(t, "disarm", c.tag, c.worker, c.outcome, c.answer)
         /\ DropSession(t) => Now(t, "settle", c.tag, c.worker, c.outcome, c.answer)
         /\ Settle(t) => Now(t, "disarm", c.tag, c.worker, IF c.late THEN "timeout" ELSE "gone", c.answer)
         /\ Finish(t) /\ c.tag.cold /\ c.outcome = "ok" =>
              Now(t, "arm", [c.tag EXCEPT !.cold = FALSE], c.worker, "none", c.answer)
         /\ Finish(t) /\ ~(c.tag.cold /\ c.outcome = "ok") => Now(t, "out", c.tag, None, c.outcome, Nothing)
<1> DEFINE c == call[t]
<1>1. call \in [Threads -> CallRec] /\ call[t] \in CallRec
  BY Fields DEF Typed
<1> USE <1>1
<1>2. EnsureWarm(t) => Now(t, "arm", c.tag, session, c.outcome, c.answer)
  BY DEF EnsureWarm, Now, CallRec
<1>3. EnsureCold(t) => Now(t, "clone", [c.tag EXCEPT !.cold = TRUE], None, c.outcome, c.answer)
  BY DEF EnsureCold, Now, CallRec
<1>4. CloneRefused(t) \/ SetupKilled(t) \/ SetupRefused(t) \/ WrapRefused(t) => Now(t, "spawned", c.tag, c.worker, "error", c.answer)
  <2>1. SpawnRaises(t) => Now(t, "spawned", c.tag, c.worker, "error", c.answer)
    BY DEF SpawnRaises, Now, CallRec
  <2> QED BY <2>1 DEF CloneRefused, SetupKilled, SetupRefused, WrapRefused, Strand
<1>5. Clone(t) => Now(t, "setup", c.tag, spawned', c.outcome, c.answer)
  BY DEF Clone, Now, CallRec
<1>6. Exec(t) => Now(t, "spawned", c.tag, c.worker, c.outcome, c.answer)
  BY DEF Exec, Now, CallRec
<1>a. Leave(t) => Now(t, "out", c.tag, None, c.outcome, Nothing)
  BY DEF Leave, Now, CallRec
<1>7. /\ DisarmSpawn(t) /\ c.outcome = "error" => Now(t, "out", c.tag, None, c.outcome, Nothing)
      /\ DisarmSpawn(t) /\ c.outcome # "error" => Now(t, "arm", c.tag, c.worker, c.outcome, c.answer)
  <2>1. DisarmSpawn(t) /\ c.outcome = "error" => Leave(t)
    BY DEF DisarmSpawn
  <2>2. ASSUME DisarmSpawn(t), c.outcome # "error" PROVE Now(t, "arm", c.tag, c.worker, c.outcome, c.answer)
    BY <2>2 DEF DisarmSpawn, Now, CallRec
  <2> QED BY <1>a, <2>1, <2>2
<1>8. ArmRequest(t) => Now(t, "send", c.tag, c.worker, c.outcome, Nothing)
  BY DEF ArmRequest, Now, CallRec
<1>9. /\ Send(t) /\ proc[c.worker].state = "live" => Now(t, "read", c.tag, c.worker, c.outcome, c.answer)
      /\ Send(t) /\ proc[c.worker].state # "live" => Now(t, "caught", c.tag, c.worker, "gone", c.answer)
  <2>1. ASSUME Send(t), proc[c.worker].state = "live" PROVE Now(t, "read", c.tag, c.worker, c.outcome, c.answer)
    BY <2>1 DEF Send, Now, CallRec
  <2>2. ASSUME Send(t), proc[c.worker].state # "live" PROVE Now(t, "caught", c.tag, c.worker, "gone", c.answer)
    BY <2>2 DEF Send, Now, CallRec
  <2> QED BY <2>1, <2>2
<1>10. /\ Read(t) /\ Reread(t).ok => Now(t, "disarm", c.tag, c.worker, "ok", Reread(t))
       /\ Read(t) /\ ~Reread(t).ok => Now(t, "caught", c.tag, c.worker, "error", Reread(t))
  <2>1. ASSUME Read(t), Reread(t).ok PROVE Now(t, "disarm", c.tag, c.worker, "ok", Reread(t))
    BY <2>1 DEF Read, Now, CallRec, Reread
  <2>2. ASSUME Read(t), ~Reread(t).ok PROVE Now(t, "caught", c.tag, c.worker, "error", Reread(t))
    BY <2>2 DEF Read, Now, CallRec, Reread
  <2> QED BY <2>1, <2>2
<1>11. ReadEOF(t) => Now(t, "caught", c.tag, c.worker, "gone", c.answer)
  BY DEF ReadEOF, Now, CallRec
<1>12. KeepSession(t) => Now(t, "disarm", c.tag, c.worker, c.outcome, c.answer)
  BY DEF KeepSession, Now, CallRec
<1>13. DropSession(t) => Now(t, "settle", c.tag, c.worker, c.outcome, c.answer)
  BY DEF DropSession, Now, CallRec
<1>14. Settle(t) => Now(t, "disarm", c.tag, c.worker, IF c.late THEN "timeout" ELSE "gone", c.answer)
  BY DEF Settle, Now, CallRec
<1>15. Finish(t) /\ c.tag.cold /\ c.outcome = "ok" =>
         Now(t, "arm", [c.tag EXCEPT !.cold = FALSE], c.worker, "none", c.answer)
  <2>1. ASSUME Finish(t), c.tag.cold, c.outcome = "ok"
        PROVE  Now(t, "arm", [c.tag EXCEPT !.cold = FALSE], c.worker, "none", c.answer)
    <3>1. call' = [call EXCEPT ![t] = [@ EXCEPT !.at = "arm", !.tag.cold = FALSE, !.outcome = "none"]]
      BY <2>1 DEF Finish
    <3> QED BY <3>1 DEF Now, CallRec
  <2> QED BY <2>1
<1>16. Finish(t) /\ ~(c.tag.cold /\ c.outcome = "ok") => Now(t, "out", c.tag, None, c.outcome, Nothing)
  BY <1>a DEF Finish
<1> QED BY <1>2, <1>3, <1>4, <1>5, <1>6, <1>7, <1>8, <1>9, <1>10, <1>11, <1>12, <1>13, <1>14, <1>15, <1>16

\* Entering is for a thread that is out, with the lock free.
LEMMA EnterMoves ==
  ASSUME Typed, NEW t \in Threads, NEW op \in Ops, NEW e \in Envs, Enter(t, op, e)
  PROVE  /\ call'[t].at = "ensure" /\ call'[t].op = op /\ call'[t].tag = [id |-> calls', cold |-> FALSE]
         /\ call'[t].worker = call[t].worker /\ call'[t].outcome = "none" /\ call'[t].answer = Nothing
         /\ lock = Nothing /\ \A u \in Threads : At(u, "out") /\ (u # t => call'[u] = call[u])
<1>1. call \in [Threads -> CallRec] /\ call[t] \in CallRec /\ DOMAIN call = Threads
  BY Fields DEF Typed
<1>2. /\ call'[t].at = "ensure" /\ call'[t].op = op /\ call'[t].tag = [id |-> calls', cold |-> FALSE]
      /\ call'[t].worker = call[t].worker /\ call'[t].outcome = "none" /\ call'[t].answer = Nothing
  BY <1>1 DEF Enter, CallRec
<1>3. lock = Nothing /\ \A u \in Threads : u # t => call'[u] = call[u]
  BY <1>1 DEF Enter
<1>4. \A u \in Threads : At(u, "out")
  BY <1>3, Constants DEF Typed, Serial
<1> QED BY <1>2, <1>3, <1>4

(***************************************************************************)
(* A deadline belongs to the request under way.                            *)
(***************************************************************************)
Owns(d) == lock = d.thread /\ call[d.thread].tag = d.tag
OwnDeadlines == (armed # Nothing => Owns(armed)) /\ (firing # Nothing => Owns(firing))

LEMMA StepDeadlines == Typed /\ OwnDeadlines /\ [Next]_vars => OwnDeadlines'
<1> SUFFICES ASSUME Typed, OwnDeadlines, [Next]_vars PROVE OwnDeadlines'
  OBVIOUS
<1>1. CASE UNCHANGED vars
  BY <1>1 DEF vars, OwnDeadlines, Owns
<1>2. ASSUME NEW t \in Threads, Caller(t) PROVE OwnDeadlines'
  <2>1. lock = t /\ UNCHANGED <<env, calls, firing>>
    BY <1>2, CallerTyped
  <2>2. (armed # Nothing => armed.thread = t) /\ (firing # Nothing => firing.thread = t)
    BY <2>1 DEF OwnDeadlines, Owns
  <2>3. CASE EnsureCold(t)
    BY <2>1, <2>3 DEF EnsureCold, Arm, Condition, OwnDeadlines, Owns
  <2>4. CASE ArmRequest(t)
    BY <2>1, <2>4 DEF ArmRequest, Arm, Condition, OwnDeadlines, Owns
  <2>5. CASE DisarmSpawn(t) \/ Finish(t)
    BY <2>1, <2>5 DEF DisarmSpawn, Finish, Condition, OwnDeadlines
  <2>6. CASE \/ EnsureWarm(t) \/ CloneRefused(t) \/ Clone(t) \/ Exec(t) \/ SetupKilled(t) \/ SetupRefused(t)
             \/ WrapRefused(t) \/ Send(t) \/ Read(t) \/ ReadEOF(t) \/ KeepSession(t) \/ DropSession(t) \/ Settle(t)
    <3>1. call'[t].tag = call[t].tag
      BY <2>6, Moves DEF Now
    <3>2. UNCHANGED <<lock, armed, firing>>
      BY <2>6 DEF EnsureWarm, CloneRefused, Clone, Exec, SetupKilled, SetupRefused, WrapRefused, Strand, SpawnRaises, Send,
                  Read, ReadEOF, KeepSession, DropSession, Settle
    <3> QED BY <2>1, <2>2, <3>1, <3>2 DEF OwnDeadlines, Owns
  <2> QED BY <1>2, <2>3, <2>4, <2>5, <2>6 DEF Caller
<1>3. ASSUME NEW t \in Threads, NEW op \in Ops, NEW e \in Envs, Enter(t, op, e) PROVE OwnDeadlines'
  <2>1. lock = Nothing /\ armed \in Deadline \cup {Nothing} /\ firing \in Deadline \cup {Nothing}
    BY <1>3, EnterMoves, Fields DEF Typed
  <2>2. armed = Nothing /\ firing = Nothing
    BY <2>1, Constants DEF OwnDeadlines, Owns, Deadline
  <2> QED BY <1>3, <2>2 DEF Enter, OwnDeadlines
<1>4. ASSUME NEW w \in Worker, WorkerStep(w) PROVE OwnDeadlines'
  BY <1>4, WorkerTyped DEF OwnDeadlines, Owns
<1>5. CASE Fire
  <2>1. armed \in Deadline /\ armed.thread \in Threads
    BY <1>5, Fields DEF Typed, Fire, Deadline
  <2>2. call'[armed.thread].tag = call[armed.thread].tag
    BY <1>5, <2>1, FireTyped
  <2> QED BY <1>5, <2>2 DEF Fire, OwnDeadlines, Owns
<1>6. CASE Kill
  BY <1>6, KillTyped DEF Kill, OwnDeadlines, Owns
<1> QED BY <1>1, <1>2, <1>3, <1>4, <1>5, <1>6 DEF Next, WorkerStep

(***************************************************************************)
(* Where a caller is says what its worker is to the runner, and an answer  *)
(* it holds is the one to its request.                                     *)
(***************************************************************************)
Stage(c) ==
  /\ c.at \in {"out", "ensure", "clone"} => c.worker = None
  /\ c.at \in {"clone", "setup", "spawned", "settle"} => session = None
  /\ c.at \in {"clone", "setup", "spawned"} => c.tag.cold
  /\ c.at \in {"ensure", "clone", "setup"} => c.outcome = "none"
  /\ c.at \in {"arm", "send", "read", "caught"} => session = c.worker
  /\ c.at \in {"send", "read"} => c.answer = Nothing
  /\ c.at = "caught" => c.outcome \in {"error", "gone"}
  /\ c.at = "disarm" => session = IF c.outcome \in {"ok", "error"} THEN c.worker ELSE None
  /\ c.at \in {"caught", "settle", "disarm"} => (c.answer # Nothing => c.answer.tag = c.tag)
  /\ c.at = "disarm" /\ c.outcome = "ok" => c.answer.env = env
Staged == \A t \in Threads : Stage(call[t])

\* At most one line is under way, to the caller that reads from the worker:
\* its request, or the answer to it.  A worker found dead may keep a request.
Quiet(p) == p.inbox = <<>> /\ p.outbox = <<>>
Answers(p, c) ==
  p.inbox = <<>> /\ \E r \in Reply : p.outbox = <<r>> /\ r.tag = c.tag /\ (r.ok => r.env = env)
Line(p, c, asked) ==
  \/ c.at = "read" /\ ((p.inbox = <<asked>> /\ p.outbox = <<>>) \/ Answers(p, c))
  \/ c.at = "caught" /\ c.outcome = "gone" /\ p.state # "live" /\ p.outbox = <<>>
Pipes == \A w \in Worker : Quiet(proc[w]) \/ \E t \in Threads : call[t].worker = w /\ Line(proc[w], call[t], Asked(t))

\* What a caller reads is the answer to what it asked.
LEMMA ReadsItsAnswer ==
  ASSUME Typed, Pipes, NEW t \in Threads, Read(t)
  PROVE  /\ Reread(t) \in Reply /\ Reread(t).tag = call[t].tag /\ (Reread(t).ok => Reread(t).env = env)
         /\ Answers(proc[call[t].worker], call[t]) /\ proc[call[t].worker].outbox = <<Reread(t)>>
<1> DEFINE w == call[t].worker
<1>1. w \in Worker /\ call[t].at = "read" /\ ~At(t, "out")
  BY Fields DEF Typed, Staffed, Manned, Read, At, CallRec
<1>2. proc[w].outbox # <<>>
  BY DEF Read
<1>3. PICK u \in Threads : call[u].worker = w /\ Line(proc[w], call[u], Asked(u))
  BY <1>1, <1>2 DEF Pipes, Quiet
<1>4. u = t
  BY <1>1, <1>3 DEF Line, Typed, Serial, At
<1>5. Answers(proc[w], call[t])
  BY <1>1, <1>2, <1>3, <1>4 DEF Line
<1>6. PICK r \in Reply : proc[w].outbox = <<r>> /\ r.tag = call[t].tag /\ (r.ok => r.env = env)
  BY <1>5 DEF Answers
<1>7. Reread(t) = r
  BY <1>6 DEF Reread
<1> QED BY <1>5, <1>6, <1>7

LEMMA StepStaged == Typed /\ Staged /\ Pipes /\ [Next]_vars => Staged'
<1> SUFFICES ASSUME Typed, Staged, Pipes, [Next]_vars, NEW u \in Threads PROVE Stage(call[u])'
  BY DEF Staged
<1> USE Constants
<1>s. Stage(call[u])
  BY DEF Staged
<1>1. CASE UNCHANGED vars
  BY <1>1, <1>s DEF vars, Stage
<1>2. ASSUME NEW t \in Threads, Caller(t) PROVE Stage(call[u])'
  <2>1. /\ lock = t /\ UNCHANGED <<env, calls, firing>> /\ call[t] \in CallRec /\ call[t].tag \in Tag
        /\ \A v \in Threads : v # t => call'[v] = call[v] /\ At(v, "out")
    BY <1>2, CallerTyped, Fields DEF Typed, CallRec
  <2>2. CASE u # t
    BY <2>1, <2>2, <1>s DEF Stage, At
  <2>3. Stage(call[t])
    BY DEF Staged
  <2>4. Stage(call[t])'
    <3> DEFINE c == call[t]
    <3>1. CASE EnsureWarm(t)
      <4>1. Now(t, "arm", c.tag, session, c.outcome, c.answer)
        BY <3>1, Moves
      <4> QED BY <2>1, <2>3, <3>1, <4>1 DEF EnsureWarm, At, Now, Stage
    <3>2. CASE EnsureCold(t)
      <4>1. Now(t, "clone", [c.tag EXCEPT !.cold = TRUE], None, c.outcome, c.answer)
        BY <3>2, Moves
      <4>2. [c.tag EXCEPT !.cold = TRUE].cold
        BY <2>1 DEF Tag
      <4> QED BY <2>1, <2>3, <3>2, <4>1, <4>2 DEF EnsureCold, At, Now, Stage
    <3>3. CASE CloneRefused(t) \/ SetupKilled(t) \/ SetupRefused(t) \/ WrapRefused(t)
      <4>1. Now(t, "spawned", c.tag, c.worker, "error", c.answer)
        BY <3>3, Moves
      <4>2. /\ call[t].at \in {"clone", "setup"} /\ UNCHANGED session
        BY <3>3 DEF CloneRefused, SetupKilled, SetupRefused, WrapRefused, Strand, SpawnRaises, At
      <4> QED BY <2>1, <2>3, <4>1, <4>2 DEF Now, Stage
    <3>4. CASE Clone(t)
      <4>1. Now(t, "setup", c.tag, spawned', c.outcome, c.answer)
        BY <3>4, Moves
      <4> QED BY <2>1, <2>3, <3>4, <4>1 DEF Clone, At, Now, Stage
    <3>5. CASE Exec(t)
      <4>1. Now(t, "spawned", c.tag, c.worker, c.outcome, c.answer)
        BY <3>5, Moves
      <4> QED BY <2>1, <2>3, <3>5, <4>1 DEF Exec, At, Now, Stage
    <3>6. CASE DisarmSpawn(t)
      <4>1. /\ c.outcome = "error" => Now(t, "out", c.tag, None, c.outcome, Nothing)
            /\ c.outcome # "error" => Now(t, "arm", c.tag, c.worker, c.outcome, c.answer)
        BY <3>6, Moves
      <4> QED BY <2>1, <2>3, <3>6, <4>1 DEF DisarmSpawn, Leave, At, Now, Stage
    <3>7. CASE ArmRequest(t)
      <4>1. Now(t, "send", c.tag, c.worker, c.outcome, Nothing)
        BY <3>7, Moves
      <4> QED BY <2>1, <2>3, <3>7, <4>1 DEF ArmRequest, At, Now, Stage
    <3>8. CASE Send(t)
      <4>1. /\ proc[c.worker].state = "live" => Now(t, "read", c.tag, c.worker, c.outcome, c.answer)
            /\ proc[c.worker].state # "live" => Now(t, "caught", c.tag, c.worker, "gone", c.answer)
        BY <3>8, Moves
      <4> QED BY <2>1, <2>3, <3>8, <4>1 DEF Send, At, Now, Stage
    <3>9. CASE Read(t)
      <4>1. /\ Reread(t).ok => Now(t, "disarm", c.tag, c.worker, "ok", Reread(t))
            /\ ~Reread(t).ok => Now(t, "caught", c.tag, c.worker, "error", Reread(t))
        BY <3>9, Moves
      <4>2. Reread(t).tag = c.tag /\ (Reread(t).ok => Reread(t).env = env)
        BY <3>9, ReadsItsAnswer
      <4> QED BY <2>1, <2>3, <3>9, <4>1, <4>2 DEF Read, At, Now, Stage
    <3>10. CASE ReadEOF(t)
      <4>1. Now(t, "caught", c.tag, c.worker, "gone", c.answer)
        BY <3>10, Moves
      <4> QED BY <2>1, <2>3, <3>10, <4>1 DEF ReadEOF, At, Now, Stage
    <3>11. CASE KeepSession(t)
      <4>1. Now(t, "disarm", c.tag, c.worker, c.outcome, c.answer)
        BY <3>11, Moves
      <4> QED BY <2>1, <2>3, <3>11, <4>1 DEF KeepSession, At, Now, Stage
    <3>12. CASE DropSession(t)
      <4>1. Now(t, "settle", c.tag, c.worker, c.outcome, c.answer)
        BY <3>12, Moves
      <4> QED BY <2>1, <2>3, <3>12, <4>1 DEF DropSession, At, Now, Stage
    <3>13. CASE Settle(t)
      <4>1. Now(t, "disarm", c.tag, c.worker, IF c.late THEN "timeout" ELSE "gone", c.answer)
        BY <3>13, Moves
      <4> QED BY <2>1, <2>3, <3>13, <4>1 DEF Settle, At, Now, Stage
    <3>14. CASE Finish(t)
      <4>1. /\ c.tag.cold /\ c.outcome = "ok" => Now(t, "arm", [c.tag EXCEPT !.cold = FALSE], c.worker, "none", c.answer)
            /\ ~(c.tag.cold /\ c.outcome = "ok") => Now(t, "out", c.tag, None, c.outcome, Nothing)
        BY <3>14, Moves
      <4> QED BY <2>1, <2>3, <3>14, <4>1 DEF Finish, Leave, At, Now, Stage
    <3> QED BY <1>2, <3>1, <3>2, <3>3, <3>4, <3>5, <3>6, <3>7, <3>8, <3>9, <3>10, <3>11, <3>12, <3>13, <3>14 DEF Caller
  <2> QED BY <2>2, <2>4
<1>3. ASSUME NEW t \in Threads, NEW op \in Ops, NEW e \in Envs, Enter(t, op, e) PROVE Stage(call[u])'
  <2>1. At(u, "out") /\ call[u].worker = None
    BY <1>3, <1>s, EnterMoves DEF Stage, At
  <2>2. CASE u = t
    BY <1>3, <2>1, <2>2, EnterMoves DEF Stage
  <2>3. CASE u # t
    BY <1>3, <2>1, <2>3, <1>s, EnterMoves DEF Stage, At
  <2> QED BY <2>2, <2>3
<1>4. ASSUME NEW w \in Worker, WorkerStep(w) PROVE Stage(call[u])'
  BY <1>4, <1>s, WorkerTyped DEF Stage
<1>5. CASE Fire
  BY <1>5, <1>s, FireTyped DEF Stage, Fire
<1>6. CASE Kill
  BY <1>6, <1>s, KillTyped DEF Stage
<1> QED BY <1>1, <1>2, <1>3, <1>4, <1>5, <1>6 DEF Next, WorkerStep

LEMMA SendMoves ==
  ASSUME Typed, NEW t \in Threads, Send(t), NEW w \in Worker
  PROVE  /\ proc'[w].state = proc[w].state /\ proc'[w].bound = proc[w].bound /\ proc'[w].outbox = proc[w].outbox
         /\ proc'[w].inbox = IF w = call[t].worker /\ proc[w].state = "live"
                               THEN Append(proc[w].inbox, Asked(t)) ELSE proc[w].inbox
<1>1. proc \in [Worker -> ProcRec] /\ proc[w] \in ProcRec
  BY Fields DEF Typed
<1>2. CASE proc[call[t].worker].state = "live"
  <2>1. proc' = [proc EXCEPT ![call[t].worker].inbox = Append(@, Asked(t))]
    BY <1>2 DEF Send
  <2> QED BY <1>1, <1>2, <2>1 DEF ProcRec
<1>3. CASE proc[call[t].worker].state # "live"
  BY <1>3 DEF Send
<1> QED BY <1>2, <1>3

LEMMA ReadMoves ==
  ASSUME Typed, NEW t \in Threads, Read(t), NEW w \in Worker
  PROVE  /\ proc'[w].state = proc[w].state /\ proc'[w].bound = proc[w].bound /\ proc'[w].inbox = proc[w].inbox
         /\ proc'[w].outbox = IF w = call[t].worker THEN Tail(proc[w].outbox) ELSE proc[w].outbox
<1>1. proc \in [Worker -> ProcRec] /\ proc[w] \in ProcRec
  BY Fields DEF Typed
<1>2. proc' = [proc EXCEPT ![call[t].worker].outbox = Tail(@)]
  BY DEF Read
<1> QED BY <1>1, <1>2 DEF ProcRec

LEMMA DropMoves ==
  ASSUME Typed, NEW t \in Threads, DropSession(t) \/ (Finish(t) /\ call[t].tag.cold /\ call[t].outcome # "ok")
  PROVE  /\ call[t].worker \in Worker /\ session' = None
         /\ proc'[call[t].worker].state = "dead" /\ Quiet(proc'[call[t].worker])
         /\ \A w \in Worker : w # call[t].worker => proc'[w] = proc[w]
<1>1. call[t].worker \in Worker
  BY Fields DEF Typed, CallRec, Staffed, Manned, DropSession, Finish, At
<1>2. session' = None /\ proc' = Dropped(call[t].worker)
  BY DEF DropSession, Finish
<1> QED BY <1>1, <1>2, DroppedTyped DEF Typed, Quiet

Born(t) == Clone(t) \/ Exec(t) \/ WrapRefused(t)

LEMMA BirthMoves ==
  ASSUME Typed, NEW t \in Threads, Born(t), NEW w \in Worker
  PROVE  /\ proc'[w].bound = proc[w].bound /\ proc'[w].inbox = proc[w].inbox /\ proc'[w].outbox = proc[w].outbox
         /\ proc'[w].state = proc[w].state \/ w = IF Clone(t) THEN spawned' ELSE call[t].worker
<1>1. proc \in [Worker -> ProcRec] /\ proc[w] \in ProcRec
  BY Fields DEF Typed
<1>2. CASE Clone(t)
  <2>1. proc' = [proc EXCEPT ![spawned'].state = "setup"]
    BY <1>2 DEF Clone
  <2> QED BY <1>1, <1>2, <2>1 DEF ProcRec
<1>3. CASE Exec(t) \/ WrapRefused(t)
  <2>1. proc' = [proc EXCEPT ![call[t].worker].state = "live"] /\ ~Clone(t)
    BY <1>3 DEF Exec, WrapRefused, Clone, At
  <2> QED BY <1>1, <1>3, <2>1 DEF ProcRec
<1> QED BY <1>2, <1>3 DEF Born

\* The remaining steps of a caller leave the workers alone.
Aside(t) ==
  \/ EnsureWarm(t) \/ EnsureCold(t) \/ CloneRefused(t) \/ SetupKilled(t) \/ SetupRefused(t) \/ DisarmSpawn(t)
  \/ ArmRequest(t) \/ ReadEOF(t) \/ KeepSession(t) \/ Settle(t)
  \/ Finish(t) /\ ~(call[t].tag.cold /\ call[t].outcome # "ok")

LEMMA AsideMoves ==
  ASSUME NEW t \in Threads, Aside(t)
  PROVE  /\ proc' = proc /\ spawned' = spawned /\ (DisarmSpawn(t) \/ session' = session)
         /\ SetupRefused(t) \/ stranded' = stranded
<1>1. CASE Finish(t) /\ ~(call[t].tag.cold /\ call[t].outcome # "ok")
  BY <1>1 DEF Finish
<1>2. CASE DisarmSpawn(t)
  BY <1>2 DEF DisarmSpawn
<1> QED BY <1>1, <1>2 DEF Aside, EnsureWarm, EnsureCold, CloneRefused, SetupKilled, SetupRefused, Strand, SpawnRaises, ArmRequest,
                         ReadEOF, KeepSession, Settle

LEMMA CallerCases ==
  ASSUME NEW t \in Threads, Caller(t)
  PROVE  \/ Aside(t) \/ Born(t) \/ Send(t) \/ Read(t)
         \/ DropSession(t) \/ (Finish(t) /\ call[t].tag.cold /\ call[t].outcome # "ok")
  BY DEF Caller, Aside, Born

\* Only a clone numbers a worker, only a spawn that raises strands one.
LEMMA CallerCounts ==
  ASSUME NEW t \in Threads, Caller(t)
  PROVE  /\ Clone(t) \/ spawned' = spawned
         /\ SetupRefused(t) \/ WrapRefused(t) \/ stranded' = stranded
  BY DEF Caller, EnsureWarm, EnsureCold, CloneRefused, Clone, Exec, SetupKilled, SetupRefused, WrapRefused, Strand,
         SpawnRaises, DisarmSpawn, ArmRequest, Send, Read, ReadEOF, KeepSession, DropSession, Settle, Finish

LEMMA EnterCounts ==
  ASSUME NEW t, NEW op, NEW e, Enter(t, op, e)
  PROVE  spawned' = spawned /\ stranded' = stranded /\ (session' = session \/ session' = None)
  BY DEF Enter

\* What entering a call, serving, dying and the watchdog may do to a worker.
LEMMA Elsewhere ==
  ASSUME Typed, NEW w \in Worker,
         \/ \E t \in Threads, op \in Ops, e \in Envs : Enter(t, op, e)
         \/ \E v \in Worker : Die(v)
         \/ Fire \/ Kill
  PROVE  /\ spawned' = spawned /\ stranded' = stranded /\ (session' = session \/ session' = None)
         /\ proc'[w] = proc[w] \/ proc'[w].state = "dead"
         /\ proc'[w].bound = proc[w].bound \/ proc'[w].bound = Nothing
         /\ proc'[w].inbox = proc[w].inbox \/ proc'[w].inbox = <<>>
<1> USE Fields DEF Typed
<1>1. ASSUME NEW v \in Worker, proc' = Killed(v) \/ proc' = Dropped(v)
      PROVE  /\ proc'[w] = proc[w] \/ proc'[w].state = "dead"
             /\ proc'[w].bound = proc[w].bound \/ proc'[w].bound = Nothing
             /\ proc'[w].inbox = proc[w].inbox \/ proc'[w].inbox = <<>>
  BY <1>1, KilledTyped, DroppedTyped
<1>2. ASSUME NEW t \in Threads, NEW op \in Ops, NEW e \in Envs, Enter(t, op, e)
      PROVE  proc' = proc \/ \E v \in Worker : proc' = Dropped(v)
  BY <1>2 DEF Enter
<1>3. CASE Fire
  BY <1>3 DEF Fire
<1>4. CASE Kill
  BY <1>1, <1>4, KillTyped
<1>5. CASE \E v \in Worker : Die(v)
  BY <1>1, <1>5 DEF Die
<1> QED BY <1>1, <1>2, <1>3, <1>4, <1>5, EnterCounts

(***************************************************************************)
(* A worker that has not started is bound to nothing and was asked         *)
(* nothing, and so is a stranded one.                                      *)
(***************************************************************************)
Young == \A w \in Worker :
           /\ Alive(w) => w <= spawned
           /\ w > spawned \/ proc[w].state = "setup" => proc[w].bound = Nothing /\ proc[w].inbox = <<>>

Aground(w) ==
  /\ w # session /\ w <= spawned /\ proc[w].bound = Nothing /\ proc[w].inbox = <<>>
  /\ \A t \in Threads : call[t].worker = w => At(t, "spawned") /\ call[t].outcome = "error"
Strands == \A w \in stranded : Aground(w)

LEMMA StepYoung == Typed /\ Staged /\ Pipes /\ Young /\ [Next]_vars => Young'
<1> SUFFICES ASSUME Typed, Staged, Pipes, Young, [Next]_vars, NEW w \in Worker
             PROVE  /\ Alive(w)' => w <= spawned'
                    /\ w > spawned' \/ proc'[w].state = "setup" => proc'[w].bound = Nothing /\ proc'[w].inbox = <<>>
  BY DEF Young, Alive
<1> USE Constants DEF Alive
<1>y. /\ proc[w].state \in {"setup", "live"} => w <= spawned
      /\ w > spawned \/ proc[w].state = "setup" => proc[w].bound = Nothing /\ proc[w].inbox = <<>>
  BY DEF Young
<1>n. spawned \in Nat /\ w \in Nat
  BY Fields DEF Typed, Worker, None
<1>1. CASE UNCHANGED vars
  BY <1>1, <1>y DEF vars
<1>2. ASSUME NEW t \in Threads, Caller(t)
      PROVE  /\ proc'[w].state \in {"setup", "live"} => w <= spawned'
             /\ w > spawned' \/ proc'[w].state = "setup" => proc'[w].bound = Nothing /\ proc'[w].inbox = <<>>
  <2>1. Clone(t) \/ spawned' = spawned
    BY <1>2, CallerCounts
  <2>2. CASE Aside(t)
    BY <1>y, <2>2, AsideMoves
  <2>3. CASE Clone(t)
    <3>1. spawned' = spawned + 1
      BY <2>3 DEF Clone
    <3>2. /\ proc'[w].bound = proc[w].bound /\ proc'[w].inbox = proc[w].inbox
          /\ proc'[w].state = proc[w].state \/ w = spawned'
      BY <2>3, BirthMoves DEF Born
    <3> QED BY <1>y, <1>n, <3>1, <3>2
  <2>4. CASE Born(t) /\ ~Clone(t)
    <3>1. proc[call[t].worker].state = "setup"
      BY <2>4 DEF Born, Exec, WrapRefused
    <3>2. /\ proc'[w].bound = proc[w].bound /\ proc'[w].inbox = proc[w].inbox
          /\ proc'[w].state = proc[w].state \/ w = call[t].worker
      BY <2>4, BirthMoves
    <3> QED BY <1>y, <2>1, <2>4, <3>1, <3>2
  <2>5. CASE Send(t)
    <3>1. Send(t) /\ ~Clone(t)
      BY <2>5 DEF Send, Clone, At
    <3> QED BY <1>y, <1>n, <2>1, <3>1, SendMoves
  <2>6. CASE Read(t)
    <3>1. Read(t) /\ ~Clone(t)
      BY <2>6 DEF Read, Clone, At
    <3> QED BY <1>y, <2>1, <3>1, ReadMoves
  <2>7. CASE DropSession(t) \/ (Finish(t) /\ call[t].tag.cold /\ call[t].outcome # "ok")
    <3>1. ~Clone(t)
      BY <2>7 DEF DropSession, Finish, Clone, At
    <3>2. proc' = Dropped(call[t].worker) /\ call[t].worker \in Worker
      BY <2>7, DropMoves DEF DropSession, Finish
    <3> QED BY <1>y, <2>1, <3>1, <3>2, DroppedTyped DEF Typed
  <2> QED BY <1>2, <2>2, <2>3, <2>4, <2>5, <2>6, <2>7, CallerCases
<1>3. CASE \/ \E t \in Threads, op \in Ops, e \in Envs : Enter(t, op, e)
           \/ \E v \in Worker : Die(v)
           \/ Fire \/ Kill
  BY <1>3, <1>y, Elsewhere
<1>4. ASSUME NEW v \in Worker, Serves(v)
      PROVE  /\ proc'[w].state \in {"setup", "live"} => w <= spawned'
             /\ w > spawned' \/ proc'[w].state = "setup" => proc'[w].bound = Nothing /\ proc'[w].inbox = <<>>
  <2>1. spawned' = spawned
    BY <1>4, WorkerTyped DEF Serves, WorkerStep
  <2>2. proc[v].state = "live" /\ v <= spawned
    BY <1>4 DEF Serves, Bind, BindFails, Serve, Refuse, Receives, Young
  <2>3. proc'[v].state \in {"live", "dead"} /\ (w # v => proc'[w] = proc[w])
    BY <1>4, Fields DEF Typed, ProcRec, Serves, Bind, BindFails, Serve, Refuse, Replies
  <2> QED BY <1>y, <1>n, <2>1, <2>2, <2>3
<1> QED BY <1>1, <1>2, <1>3, <1>4 DEF Next, Serves

LEMMA StepStrands == Typed /\ Staged /\ Pipes /\ Young /\ Strands /\ [Next]_vars => Strands'
<1> SUFFICES ASSUME Typed, Staged, Pipes, Young, Strands, [Next]_vars, NEW w \in stranded'
             PROVE  Aground(w)'
  BY DEF Strands
<1> USE Constants
<1>t. Typed' /\ stranded' \in SUBSET Worker /\ spawned' \in Worker \cup {None}
  <2>1. Typed'
    BY StepTyped
  <2> QED BY <2>1 DEF Typed, TypeOK
<1>n. /\ spawned \in Nat /\ spawned' \in Nat /\ stranded \in SUBSET Worker /\ w \in Worker /\ w \in Nat
      /\ session \in Worker \cup {None}
  <2>1. Worker \cup {None} \subseteq Nat
    BY DEF Worker, None
  <2>2. spawned \in Worker \cup {None} /\ stranded \in SUBSET Worker /\ session \in Worker \cup {None}
    BY Fields DEF Typed
  <2> QED BY <1>t, <2>1, <2>2
<1>s. w \in stranded => Aground(w)
  BY DEF Strands
<1>1. CASE UNCHANGED vars
  BY <1>1, <1>s DEF vars, Aground, At
<1>2. ASSUME NEW t \in Threads, Caller(t) PROVE Aground(w)'
  <2>1. Stage(call[t]) /\ \A u \in Threads : u # t => call'[u] = call[u] /\ call[u].at = "out"
    BY <1>2, CallerTyped DEF Staged, At
  <2>2. \A u \in Threads : u # t => call'[u].worker = None
    BY <2>1 DEF Staged, Stage
  <2>3. CASE w \notin stranded
    <3>1. (SetupRefused(t) \/ WrapRefused(t)) /\ Strand(t) /\ w = call[t].worker
      BY <1>2, <2>3, CallerCounts DEF SetupRefused, WrapRefused, Strand
    <3>2. proc[w].state = "setup" /\ session = None /\ session' = session /\ spawned' = spawned
      BY <2>1, <3>1 DEF SetupRefused, WrapRefused, Stage, At, Strand, SpawnRaises
    <3>3. proc'[w].bound = proc[w].bound /\ proc'[w].inbox = proc[w].inbox
      BY <1>n, <3>1, BirthMoves DEF SetupRefused, Born
    <3>4. Now(t, "spawned", call[t].tag, w, "error", call[t].answer)
      BY <3>1, Moves
    <3> QED BY <1>n, <2>2, <3>2, <3>3, <3>4 DEF Young, Alive, Aground, Now, At
  <2>4. CASE w \in stranded
    <3> USE <1>s, <2>4
    <3>1. /\ w # session /\ w <= spawned /\ proc[w].bound = Nothing /\ proc[w].inbox = <<>>
          /\ call[t].worker = w => call[t].at = "spawned" /\ call[t].outcome = "error"
      BY DEF Aground, At
    <3>2. /\ call'[t].worker = w => call'[t].at = "spawned" /\ call'[t].outcome = "error"
          /\ w # session' /\ w <= spawned' /\ proc'[w].bound = Nothing /\ proc'[w].inbox = <<>>
          => Aground(w)'
      BY <1>n, <2>2 DEF Aground, At
    <3>3. CASE EnsureWarm(t)
      <4>1. Now(t, "arm", call[t].tag, session, call[t].outcome, call[t].answer)
        BY <3>3, Moves
      <4> QED BY <3>1, <3>2, <3>3, <4>1 DEF EnsureWarm, Now
    <3>4. CASE EnsureCold(t)
      <4>1. Now(t, "clone", [call[t].tag EXCEPT !.cold = TRUE], None, call[t].outcome, call[t].answer)
        BY <3>4, Moves
      <4> QED BY <1>n, <3>1, <3>2, <3>4, <4>1 DEF EnsureCold, Now
    <3>5. CASE CloneRefused(t) \/ SetupKilled(t) \/ SetupRefused(t) \/ WrapRefused(t)
      <4>1. Now(t, "spawned", call[t].tag, call[t].worker, "error", call[t].answer)
        BY <3>5, Moves
      <4>2. session' = session /\ spawned' = spawned
        BY <3>5 DEF CloneRefused, SetupKilled, SetupRefused, WrapRefused, Strand, SpawnRaises
      <4>3. proc'[w].bound = proc[w].bound /\ proc'[w].inbox = proc[w].inbox
        BY <1>n, <3>5, BirthMoves, AsideMoves DEF Born, Aside
      <4> QED BY <3>1, <3>2, <4>1, <4>2, <4>3 DEF Now
    <3>6. CASE Clone(t)
      <4>1. Now(t, "setup", call[t].tag, spawned', call[t].outcome, call[t].answer)
        BY <3>6, Moves
      <4>2. spawned' = spawned + 1 /\ session' = session
        BY <3>6 DEF Clone
      <4>3. proc'[w].bound = proc[w].bound /\ proc'[w].inbox = proc[w].inbox
        BY <1>n, <3>6, BirthMoves DEF Born
      <4> QED BY <1>n, <3>1, <3>2, <4>1, <4>2, <4>3 DEF Now
    <3>7. CASE Exec(t)
      <4>1. Now(t, "spawned", call[t].tag, call[t].worker, call[t].outcome, call[t].answer)
        BY <3>7, Moves
      <4>2. session' = session /\ spawned' = spawned /\ call[t].at = "setup"
        BY <3>7 DEF Exec, At
      <4>3. proc'[w].bound = proc[w].bound /\ proc'[w].inbox = proc[w].inbox
        BY <1>n, <3>7, BirthMoves DEF Born
      <4> QED BY <3>1, <3>2, <4>1, <4>2, <4>3 DEF Now
    <3>8. CASE DisarmSpawn(t)
      <4>1. UNCHANGED <<proc, spawned>>
        BY <3>8 DEF DisarmSpawn
      <4>2. CASE call[t].outcome = "error"
        <5>1. Now(t, "out", call[t].tag, None, call[t].outcome, Nothing) /\ session' = session
          BY <3>8, <4>2, Moves DEF DisarmSpawn
        <5> QED BY <1>n, <3>1, <3>2, <4>1, <5>1 DEF Now
      <4>3. CASE call[t].outcome # "error"
        <5>1. /\ Now(t, "arm", call[t].tag, call[t].worker, call[t].outcome, call[t].answer)
              /\ session' = call[t].worker
          BY <3>8, <4>3, Moves DEF DisarmSpawn
        <5> QED BY <3>1, <3>2, <4>1, <4>3, <5>1 DEF Now
      <4> QED BY <4>2, <4>3
    <3>9. CASE Send(t)
      <4>1. session' = session /\ spawned' = spawned /\ call[t].at = "send"
        BY <3>9 DEF Send, At
      <4>2. \E at, outcome : Now(t, at, call[t].tag, call[t].worker, outcome, call[t].answer)
        BY <3>9, Moves
      <4>3. proc'[w].bound = Nothing /\ proc'[w].inbox = <<>>
        BY <1>n, <3>1, <3>9, <4>1, SendMoves
      <4> QED BY <3>1, <3>2, <4>1, <4>2, <4>3 DEF Now
    <3>10. CASE Read(t)
      <4>1. session' = session /\ spawned' = spawned /\ call[t].at = "read"
        BY <3>10 DEF Read, At
      <4>2. \E at, outcome, answer : Now(t, at, call[t].tag, call[t].worker, outcome, answer)
        BY <3>10, Moves
      <4>3. proc'[w].bound = Nothing /\ proc'[w].inbox = <<>>
        BY <1>n, <3>1, <3>10, ReadMoves
      <4> QED BY <3>1, <3>2, <4>1, <4>2, <4>3 DEF Now
    <3>11. CASE ArmRequest(t) \/ ReadEOF(t) \/ KeepSession(t) \/ Settle(t)
      <4>1. UNCHANGED <<session, spawned, proc>> /\ call[t].at # "spawned"
        BY <3>11 DEF ArmRequest, ReadEOF, KeepSession, Settle, At
      <4>2. \E at, outcome, answer : Now(t, at, call[t].tag, call[t].worker, outcome, answer)
        BY <3>11, Moves
      <4> QED BY <3>1, <3>2, <4>1, <4>2 DEF Now
    <3>12. CASE DropSession(t)
      <4>1. /\ Now(t, "settle", call[t].tag, call[t].worker, call[t].outcome, call[t].answer)
            /\ call[t].at = "caught" /\ spawned' = spawned
        BY <3>12, Moves DEF DropSession, At
      <4>2. session' = None /\ call[t].worker \in Worker /\ (w # call[t].worker => proc'[w] = proc[w])
        BY <1>n, <3>12, DropMoves
      <4> QED BY <1>n, <3>1, <3>2, <4>1, <4>2 DEF Now
    <3>13. CASE Finish(t) /\ call[t].tag.cold /\ call[t].outcome = "ok"
      <4>1. Now(t, "arm", [call[t].tag EXCEPT !.cold = FALSE], call[t].worker, "none", call[t].answer)
        BY <3>13, Moves
      <4>2. UNCHANGED <<session, spawned, proc>> /\ call[t].at # "spawned"
        BY <3>13 DEF Finish, At
      <4> QED BY <3>1, <3>2, <4>1, <4>2 DEF Now
    <3>14. CASE Finish(t) /\ ~(call[t].tag.cold /\ call[t].outcome = "ok")
      <4>1. Now(t, "out", call[t].tag, None, call[t].outcome, Nothing) /\ spawned' = spawned /\ call[t].at = "disarm"
        BY <3>14, Moves DEF Finish, At
      <4>2. (session' = session \/ session' = None) /\ (proc' = proc \/ (w # call[t].worker => proc'[w] = proc[w]))
        <5>1. CASE call[t].tag.cold
          BY <1>n, <3>14, <5>1, DropMoves
        <5>2. CASE ~call[t].tag.cold
          BY <3>14, <5>2 DEF Finish
        <5> QED BY <5>1, <5>2
      <4> QED BY <1>n, <3>1, <3>2, <4>1, <4>2 DEF Now
    <3> QED BY <1>2, <3>3, <3>4, <3>5, <3>6, <3>7, <3>8, <3>9, <3>10, <3>11, <3>12, <3>13, <3>14 DEF Caller
  <2> QED BY <2>3, <2>4
<1>3. CASE \/ \E t \in Threads, op \in Ops, e \in Envs : Enter(t, op, e)
           \/ \E v \in Worker : Die(v)
           \/ Fire \/ Kill
  <2>1. w \in stranded /\ w # session' /\ w <= spawned' /\ proc'[w].bound = Nothing /\ proc'[w].inbox = <<>>
    BY <1>3, <1>n, <1>s, Elsewhere DEF Aground
  <2>2. ASSUME NEW t \in Threads, NEW op \in Ops, NEW e \in Envs, Enter(t, op, e), NEW u \in Threads
        PROVE  call'[u].worker = None
    BY <2>2, EnterMoves DEF Staged, Stage, At
  <2>3. CASE \E t \in Threads, op \in Ops, e \in Envs : Enter(t, op, e)
    BY <1>n, <2>1, <2>2, <2>3 DEF Aground
  <2>4. CASE Fire
    BY <1>s, <2>1, <2>4, FireTyped DEF Aground, At
  <2>5. CASE Kill \/ \E v \in Worker : Die(v)
    <3>1. call' = call
      BY <2>5 DEF Kill, Die
    <3> QED BY <1>s, <2>1, <3>1 DEF Aground, At
  <2> QED BY <1>3, <2>3, <2>4, <2>5
<1>4. ASSUME NEW v \in Worker, Serves(v) PROVE Aground(w)'
  <2>1. UNCHANGED <<session, spawned, call, stranded>>
    BY <1>4, WorkerTyped DEF Serves, WorkerStep
  <2>2. v # w
    BY <1>4, <1>s, <2>1 DEF Serves, Bind, BindFails, Serve, Refuse, Receives, Aground
  <2>3. proc'[w] = proc[w]
    BY <1>4, <1>n, <2>2, Fields DEF Typed, ProcRec, Serves, Bind, BindFails, Serve, Refuse, Replies
  <2> QED BY <1>s, <2>1, <2>3 DEF Aground, At
<1> QED BY <1>1, <1>2, <1>3, <1>4 DEF Next, Serves

(***************************************************************************)
(* A worker that runs is the session's, is being spawned this moment, or   *)
(* was stranded.                                                           *)
(***************************************************************************)
Spawns(c, w) == c.at \in {"setup", "spawned"} /\ c.outcome # "error" /\ c.worker = w
Kept(w) == w = session \/ w \in stranded \/ \E t \in Threads : Spawns(call[t], w)
Claimed == \A w \in Worker : Alive(w) => Kept(w)

LEMMA StepClaimed == Typed /\ Staged /\ Claimed /\ [Next]_vars => Claimed'
<1> SUFFICES ASSUME Typed, Staged, Claimed, [Next]_vars, NEW w \in Worker, Alive(w)'
             PROVE  Kept(w)'
  BY DEF Claimed
<1> USE Constants DEF Alive
<1>c. Alive(w) => Kept(w)
  BY DEF Claimed
<1>1. CASE UNCHANGED vars
  BY <1>1, <1>c DEF vars, Kept, Spawns
<1>2. ASSUME NEW t \in Threads, Caller(t) PROVE Kept(w)'
  <2>1. Stage(call[t]) /\ \A u \in Threads : u # t => call'[u] = call[u] /\ call[u].at = "out"
    BY <1>2, CallerTyped DEF Staged, At
  <2>2. Alive(w) => w = session \/ w \in stranded \/ Spawns(call[t], w)
    BY <1>c, <2>1 DEF Kept, Spawns
  <2>3. CASE Aside(t) /\ ~DisarmSpawn(t) /\ ~SetupRefused(t)
    <3>1. session' = session /\ proc' = proc /\ stranded' = stranded
      BY <2>3, AsideMoves
    <3>2. call[t].at \notin {"setup", "spawned"} \/ SetupKilled(t)
      BY <2>3 DEF Aside, EnsureWarm, EnsureCold, CloneRefused, ArmRequest, ReadEOF, KeepSession, Settle, Finish, At
    <3>3. ~Spawns(call[t], w)
      BY <3>1, <3>2 DEF Spawns, SetupKilled
    <3> QED BY <2>2, <3>1, <3>3 DEF Kept
  <2>4. CASE DisarmSpawn(t)
    <3>1. UNCHANGED <<proc, stranded>> /\ session = None /\ (call[t].outcome # "error" => session' = call[t].worker)
      BY <2>1, <2>4 DEF Stage, DisarmSpawn, At
    <3> QED BY <2>2, <3>1 DEF Spawns, Kept
  <2>5. CASE SetupRefused(t)
    <3>1. UNCHANGED <<proc, session>> /\ stranded' = stranded \cup {call[t].worker}
      BY <2>5 DEF SetupRefused, Strand, SpawnRaises
    <3> QED BY <2>2, <3>1 DEF Spawns, Kept
  <2>6. CASE Clone(t)
    <3>1. call[t].at = "clone" /\ call[t].outcome = "none" /\ UNCHANGED <<session, stranded>>
      BY <2>1, <2>6 DEF Clone, At, Stage
    <3>2. Now(t, "setup", call[t].tag, spawned', call[t].outcome, call[t].answer)
      BY <2>6, Moves
    <3>3. proc'[w].state = proc[w].state \/ w = spawned'
      BY <2>6, BirthMoves DEF Born
    <3> QED BY <2>2, <3>1, <3>2, <3>3 DEF Spawns, Now, Kept
  <2>7. CASE Exec(t)
    <3>1. call[t].at = "setup" /\ call[t].outcome = "none" /\ UNCHANGED <<session, stranded>>
      BY <2>1, <2>7 DEF Exec, At, Stage
    <3>2. Now(t, "spawned", call[t].tag, call[t].worker, call[t].outcome, call[t].answer)
      BY <2>7, Moves
    <3>3. proc'[w].state = proc[w].state \/ w = call[t].worker
      BY <2>7, <3>1, BirthMoves DEF Born, Clone, At
    <3> QED BY <2>2, <3>1, <3>2, <3>3 DEF Spawns, Now, Kept
  <2>8. CASE WrapRefused(t)
    <3>1. session' = session /\ stranded' = stranded \cup {call[t].worker}
      BY <2>8 DEF WrapRefused, Strand, SpawnRaises
    <3>2. proc'[w].state = proc[w].state \/ w = call[t].worker
      BY <2>8, BirthMoves DEF Born, WrapRefused, Clone, At
    <3> QED BY <2>2, <3>1, <3>2 DEF Spawns, Kept
  <2>9. CASE Send(t)
    <3>1. UNCHANGED <<session, stranded>> /\ call[t].at = "send" /\ proc'[w].state = proc[w].state
      BY <2>9, SendMoves DEF Send, At
    <3> QED BY <2>2, <3>1 DEF Spawns, Kept
  <2>10. CASE Read(t)
    <3>1. UNCHANGED <<session, stranded>> /\ call[t].at = "read" /\ proc'[w].state = proc[w].state
      BY <2>10, ReadMoves DEF Read, At
    <3> QED BY <2>2, <3>1 DEF Spawns, Kept
  <2>11. CASE DropSession(t) \/ (Finish(t) /\ call[t].tag.cold /\ call[t].outcome # "ok")
    <3>1. w # call[t].worker /\ proc'[w] = proc[w]
      BY <2>11, DropMoves
    <3>2. call[t].at \in {"caught", "disarm"} /\ stranded' = stranded
      BY <2>11 DEF DropSession, Finish, At
    <3>3. session \in {call[t].worker, None}
      BY <2>1, <3>2 DEF Stage
    <3> QED BY <2>2, <3>1, <3>2, <3>3 DEF Spawns, Kept
  <2> QED BY <1>2, <2>3, <2>4, <2>5, <2>6, <2>7, <2>8, <2>9, <2>10, <2>11, CallerCases DEF Born
<1>3. ASSUME NEW t \in Threads, NEW op \in Ops, NEW e \in Envs, Enter(t, op, e) PROVE Kept(w)'
  <2>1. Alive(w) => w = session \/ w \in stranded
    BY <1>3, <1>c, EnterMoves DEF Kept, Spawns, At
  <2>2. stranded' = stranded
    BY <1>3, EnterCounts
  <2>3. CASE op = "restart" /\ session # None
    <3>1. session \in Worker /\ proc' = Dropped(session)
      BY <1>3, <2>3, Fields DEF Enter, Typed
    <3> QED BY <2>1, <2>2, <3>1, DroppedTyped DEF Typed, Kept
  <2>4. CASE ~(op = "restart" /\ session # None)
    <3>1. proc' = proc /\ session' = session
      BY <1>3, <2>4 DEF Enter
    <3> QED BY <2>1, <2>2, <3>1 DEF Kept
  <2> QED BY <2>3, <2>4
<1>4. ASSUME NEW v \in Worker, WorkerStep(v) PROVE Kept(w)'
  <2>1. Alive(w)
    BY <1>4, Fields DEF Typed, WorkerStep, Bind, BindFails, Serve, Refuse, Receives, Replies, Die, Killed, ProcRec
  <2> QED BY <1>4, <1>c, <2>1, WorkerTyped DEF Kept, Spawns
<1>5. CASE Fire
  <2>1. Alive(w) /\ session' = session /\ stranded' = stranded
    BY <1>5 DEF Fire
  <2> QED BY <1>5, <1>c, <2>1, FireTyped DEF Kept, Spawns
<1>6. CASE Kill
  <2>1. Alive(w) /\ UNCHANGED <<session, stranded, call>>
    BY <1>6, KillTyped, KilledTyped DEF Typed
  <2> QED BY <1>c, <2>1 DEF Kept, Spawns
<1> QED BY <1>1, <1>2, <1>3, <1>4, <1>5, <1>6 DEF Next, WorkerStep

(***************************************************************************)
(* The session's worker is bound to the runner's environment, or the       *)
(* request that will bind it is still to be answered.                      *)
(***************************************************************************)
Pending(c, p) == (c.op = "rebind" \/ c.tag.cold) /\ (c.at \in {"ensure", "arm", "send"} \/ (c.at = "read" /\ p.inbox # <<>>))
Bound == session # None /\ proc[session].state = "live" /\ proc[session].bound # env
           => \E t \in Threads : Pending(call[t], proc[session])

LEMMA ServedOne ==
  ASSUME Typed, Staged, Pipes, NEW w \in Worker, Serves(w)
  PROVE  \E t \in Threads : /\ call[t].worker = w /\ call[t].at = "read" /\ lock = t /\ session = w
                            /\ proc[w].inbox = <<Asked(t)>> /\ proc[w].outbox = <<>>
<1>1. proc[w].state = "live" /\ proc[w].inbox # <<>>
  BY DEF Serves, Bind, BindFails, Serve, Refuse, Receives
<1>2. PICK t \in Threads : call[t].worker = w /\ Line(proc[w], call[t], Asked(t))
  BY <1>1 DEF Pipes, Quiet
<1>3. call[t].at = "read" /\ proc[w].inbox = <<Asked(t)>> /\ proc[w].outbox = <<>>
  BY <1>1, <1>2 DEF Line, Answers
<1>4. lock = t /\ session = w
  BY <1>2, <1>3 DEF Typed, Serial, At, Staged, Stage
<1> QED BY <1>2, <1>3, <1>4

LEMMA ServedTruly ==
  ASSUME Typed, Staged, Pipes, Bound, NEW w \in Worker, Serves(w)
  PROVE  /\ \E t \in Threads : call[t].worker = w /\ call[t].at = "read" /\ Answers(proc[w], call[t])'
         /\ session = w /\ (proc'[w].state = "live" => proc'[w].bound = env)
         /\ \A v \in Worker : v # w => proc'[v] = proc[v]
<1>1. PICK t \in Threads : /\ call[t].worker = w /\ call[t].at = "read" /\ lock = t /\ session = w
                           /\ proc[w].inbox = <<Asked(t)>> /\ proc[w].outbox = <<>>
  BY ServedOne
<1>2. /\ proc \in [Worker -> ProcRec] /\ proc[w] \in ProcRec /\ call[t].tag \in Tag /\ env \in Envs /\ call[t].op \in Ops
      /\ UNCHANGED <<env, call>> /\ w # None
  BY Fields, WorkerTyped, Constants DEF Typed, CallRec, WorkerStep, Serves
<1> DEFINE q == Asked(t)
<1>3. Head(proc[w].inbox) = q /\ Tail(proc[w].inbox) = <<>> /\ q.tag = call[t].tag /\ q.env = env
  BY <1>1 DEF Asked
<1>4. q.op \in Ops /\ proc[w].state = "live" => proc[w].bound = env
  <2>1. ASSUME q.op \in Ops PROVE ~(call[t].tag.cold \/ call[t].op = "rebind")
    BY <2>1 DEF Asked, Ops
  <2>2. ASSUME NEW u \in Threads, u # t PROVE call[u].at = "out"
    BY <1>1, <2>2 DEF Typed, Serial, At
  <2> QED BY <1>1, <1>2, <2>1, <2>2 DEF Bound, Pending
<1>5. PICK ok \in BOOLEAN, b \in Envs \cup {Nothing}, s \in {"live", "dead"} :
        Replies(w, ok, b, s) /\ (ok => b = env) /\ (s = "live" => b = env)
  <2>1. CASE Bind(w)
    BY <1>2, <1>3, <2>1 DEF Bind
  <2>2. CASE BindFails(w)
    BY <2>2 DEF BindFails
  <2>3. CASE Serve(w) \/ Refuse(w)
    <3>1. proc[w].bound = env
      BY <1>3, <1>4, <2>3 DEF Serve, Refuse, Receives
    <3>2. Replies(w, TRUE, proc[w].bound, "live") \/ Replies(w, FALSE, proc[w].bound, "live")
      BY <2>3 DEF Serve, Refuse
    <3> QED BY <1>2, <3>1, <3>2
  <2> QED BY <2>1, <2>2, <2>3 DEF Serves
<1> DEFINE r == [tag |-> call[t].tag, ok |-> ok, env |-> b]
<1>6. proc' = [proc EXCEPT ![w] = [state |-> s, bound |-> b, inbox |-> Tail(proc[w].inbox),
                outbox |-> Append(proc[w].outbox, [tag |-> Head(proc[w].inbox).tag, ok |-> ok, env |-> b])]]
  BY <1>5 DEF Replies
<1>7. Append(proc[w].outbox, [tag |-> Head(proc[w].inbox).tag, ok |-> ok, env |-> b]) = <<r>>
  BY <1>1, <1>3
<1>8. /\ proc'[w].state = s /\ proc'[w].bound = b /\ proc'[w].inbox = <<>> /\ proc'[w].outbox = <<r>>
      /\ \A v \in Worker : v # w => proc'[v] = proc[v]
  BY <1>2, <1>3, <1>6, <1>7
<1>9. r \in Reply
  BY <1>2 DEF Reply
<1>10. Answers(proc[w], call[t])'
  BY <1>2, <1>5, <1>8, <1>9 DEF Answers
<1> QED BY <1>1, <1>5, <1>8, <1>10

LEMMA StepPipes == Typed /\ Staged /\ Pipes /\ Bound /\ [Next]_vars => Pipes'
<1> DEFINE Good(w) == Quiet(proc[w]) \/ \E u \in Threads : call[u].worker = w /\ Line(proc[w], call[u], Asked(u))
<1> SUFFICES ASSUME Typed, Staged, Pipes, Bound, [Next]_vars, NEW w \in Worker PROVE Good(w)'
  BY DEF Pipes
<1> USE Constants
<1>g. Good(w)
  BY DEF Pipes
<1>1. CASE UNCHANGED vars
  BY <1>1, <1>g DEF vars, Quiet, Line, Answers, Asked
<1>2. ASSUME NEW t \in Threads, Caller(t) PROVE Good(w)'
  <2>1. /\ env' = env /\ call'[t].op = call[t].op
        /\ \A u \in Threads : u # t => call'[u] = call[u] /\ call[u].at = "out"
    BY <1>2, CallerTyped, Moves DEF At, Caller, Now
  <2>2. Quiet(proc[w]) \/ (call[t].worker = w /\ Line(proc[w], call[t], Asked(t)))
    BY <1>g, <2>1 DEF Line
  <2>3. CASE Aside(t)
    <3>1. proc' = proc
      BY <2>3, AsideMoves
    <3>2. CASE ReadEOF(t)
      <4>1. Now(t, "caught", call[t].tag, call[t].worker, "gone", call[t].answer)
        BY <3>2, Moves
      <4>2. Quiet(proc[w]) \/ (call[t].worker = w /\ proc[w].state # "live" /\ proc[w].outbox = <<>>)
        BY <2>2, <3>2 DEF ReadEOF
      <4>3. CASE Quiet(proc[w])
        BY <3>1, <4>3
      <4>4. CASE call[t].worker = w /\ proc[w].state # "live" /\ proc[w].outbox = <<>>
        BY <3>1, <4>1, <4>4 DEF Now, Line
      <4> QED BY <4>2, <4>3, <4>4
    <3>3. CASE ~ReadEOF(t)
      <4>1. ~Line(proc[w], call[t], Asked(t))
        BY <2>3, <3>3 DEF Line, Aside, EnsureWarm, EnsureCold, CloneRefused, SetupKilled, SetupRefused, ArmRequest,
                          KeepSession, Settle, Finish, DisarmSpawn, At
      <4> QED BY <2>2, <3>1, <4>1
    <3> QED BY <3>2, <3>3
  <2>4. CASE Born(t)
    <3>1. Quiet(proc[w])
      BY <2>2, <2>4 DEF Born, Clone, Exec, WrapRefused, At, Line
    <3> QED BY <2>4, <3>1, BirthMoves DEF Quiet
  <2>5. CASE Send(t)
    <3>1. Quiet(proc[w])
      BY <2>2, <2>5 DEF Send, At, Line
    <3>2. CASE w = call[t].worker /\ proc[w].state = "live"
      <4>1. Now(t, "read", call[t].tag, call[t].worker, call[t].outcome, call[t].answer)
        BY <2>5, <3>2, Moves
      <4>2. Asked(t)' = Asked(t)
        BY <2>1, <4>1 DEF Asked, Now
      <4>3. proc'[w].inbox = Append(proc[w].inbox, Asked(t)) /\ proc'[w].outbox = proc[w].outbox
        BY <2>5, <3>2, SendMoves
      <4>4. proc'[w].inbox = <<Asked(t)>> /\ proc'[w].outbox = <<>>
        BY <3>1, <4>3 DEF Quiet
      <4>5. call'[t].worker = w /\ call'[t].at = "read"
        BY <3>2, <4>1 DEF Now
      <4>6. Line(proc[w], call[t], Asked(t))'
        BY <4>2, <4>4, <4>5, Zenon DEF Line
      <4>7. (call[t].worker = w /\ Line(proc[w], call[t], Asked(t)))'
        BY <4>5, <4>6
      <4> QED BY <4>7
    <3>3. CASE ~(w = call[t].worker /\ proc[w].state = "live")
      BY <2>5, <3>1, <3>3, SendMoves DEF Quiet
    <3> QED BY <3>2, <3>3
  <2>6. CASE Read(t)
    <3>1. CASE w = call[t].worker
      <4>1. proc[w].inbox = <<>> /\ proc[w].outbox = <<Reread(t)>>
        BY <2>6, <3>1, ReadsItsAnswer DEF Answers
      <4>2. proc'[w].inbox = <<>> /\ proc'[w].outbox = Tail(<<Reread(t)>>)
        BY <2>6, <3>1, <4>1, ReadMoves
      <4> QED BY <4>2 DEF Quiet
    <3>2. CASE w # call[t].worker
      BY <2>2, <2>6, <3>2, ReadMoves DEF Quiet
    <3> QED BY <3>1, <3>2
  <2>7. CASE DropSession(t) \/ (Finish(t) /\ call[t].tag.cold /\ call[t].outcome # "ok")
    <3>1. CASE w = call[t].worker
      BY <2>7, <3>1, DropMoves DEF Quiet
    <3>2. CASE w # call[t].worker
      BY <2>2, <2>7, <3>2, DropMoves DEF Quiet
    <3> QED BY <3>1, <3>2
  <2> QED BY <1>2, <2>3, <2>4, <2>5, <2>6, <2>7, CallerCases
<1>3. ASSUME NEW t \in Threads, NEW op \in Ops, NEW e \in Envs, Enter(t, op, e) PROVE Good(w)'
  <2>1. Quiet(proc[w])
    BY <1>3, <1>g, EnterMoves DEF Line, At
  <2>2. CASE op = "restart" /\ session # None
    <3>1. session \in Worker /\ proc' = Dropped(session)
      BY <1>3, <2>2, Fields DEF Enter, Typed
    <3> QED BY <2>1, <3>1, DroppedTyped DEF Typed, Quiet
  <2>3. CASE ~(op = "restart" /\ session # None)
    BY <1>3, <2>1, <2>3 DEF Enter
  <2> QED BY <2>2, <2>3
<1>4. ASSUME NEW v \in Worker, Serves(v) PROVE Good(w)'
  <2>1. UNCHANGED <<call, env>>
    BY <1>4, WorkerTyped DEF WorkerStep, Serves
  <2>2. CASE w = v
    BY <1>4, <2>1, <2>2, ServedTruly DEF Line
  <2>3. CASE w # v
    <3>1. proc'[w] = proc[w]
      BY <1>4, <2>3, ServedTruly
    <3> QED BY <1>g, <2>1, <3>1 DEF Quiet, Line, Answers, Asked
  <2> QED BY <2>2, <2>3
<1>5. CASE Fire
  <2>1. proc' = proc /\ env' = env
    BY <1>5 DEF Fire
  <2>2. CASE Quiet(proc[w])
    BY <2>1, <2>2
  <2>3. ASSUME NEW u \in Threads, call[u].worker = w, Line(proc[w], call[u], Asked(u)) PROVE Good(w)'
    <3>1. /\ call'[u].at = call[u].at /\ call'[u].tag = call[u].tag /\ call'[u].worker = w
          /\ call'[u].op = call[u].op /\ call'[u].outcome = call[u].outcome
      BY <1>5, <2>3, FireTyped
    <3>2. Asked(u)' = Asked(u)
      BY <2>1, <3>1 DEF Asked
    <3>3. Line(proc[w], call[u], Asked(u))'
      BY <2>1, <2>3, <3>1, <3>2 DEF Line, Answers
    <3> QED BY <3>1, <3>3
  <2> QED BY <1>g, <2>2, <2>3
<1>6. CASE Kill \/ \E v \in Worker : Die(v)
  <2>1. UNCHANGED <<call, env>> /\ (proc' = proc \/ \E v \in Worker : proc' = Killed(v))
    BY <1>6, KillTyped DEF Die
  <2>2. /\ proc'[w].inbox = proc[w].inbox /\ proc'[w].outbox = proc[w].outbox
        /\ proc'[w].state # "live" \/ proc'[w].state = proc[w].state
    BY <2>1, KilledTyped DEF Typed
  <2> QED BY <1>g, <2>1, <2>2 DEF Quiet, Line, Answers, Asked
<1> QED BY <1>1, <1>2, <1>3, <1>4, <1>5, <1>6 DEF Next, Serves

LEMMA NeverEmpty ==
  ASSUME NEW S, NEW q \in Seq(S), NEW e \in S
  PROVE  Append(q, e) # <<>>
<1>1. Len(Append(q, e)) = Len(q) + 1 /\ Len(q) \in Nat
  OBVIOUS
<1>2. Len(<<>>) = 0
  OBVIOUS
<1> QED BY <1>1, <1>2

LEMMA StepBound == Typed /\ Staged /\ Pipes /\ Bound /\ [Next]_vars => Bound'
<1> SUFFICES ASSUME Typed, Staged, Pipes, Bound, [Next]_vars,
                    session' # None, proc'[session'].state = "live", proc'[session'].bound # env'
             PROVE  \E u \in Threads : Pending(call[u], proc[session])'
  BY DEF Bound
<1> USE Constants
<1>s. session \in Worker \cup {None} /\ session' \in Worker /\ Typed'
  <2>1. Typed'
    BY StepTyped
  <2> QED BY <2>1, Fields DEF Typed, TypeOK
<1>b. session # None /\ proc[session].state = "live" /\ proc[session].bound # env
        => \E u \in Threads : Pending(call[u], proc[session])
  BY DEF Bound
<1>1. CASE UNCHANGED vars
  BY <1>1, <1>b DEF vars, Pending
<1>2. ASSUME NEW t \in Threads, Caller(t) PROVE \E u \in Threads : Pending(call[u], proc[session])'
  <2>1. /\ env' = env /\ call'[t].op = call[t].op /\ Stage(call[t])
        /\ \A u \in Threads : u # t => call'[u] = call[u] /\ call[u].at = "out"
    BY <1>2, CallerTyped, Moves DEF At, Caller, Now, Staged
  <2>2. session # None /\ proc[session].state = "live" /\ proc[session].bound # env => Pending(call[t], proc[session])
    BY <1>b, <2>1 DEF Pending
  <2>3. CASE EnsureWarm(t)
    <3>1. Now(t, "arm", call[t].tag, session, call[t].outcome, call[t].answer)
      BY <2>3, Moves
    <3> QED BY <2>1, <2>2, <2>3, <3>1 DEF EnsureWarm, Now, Pending, At
  <2>4. CASE ArmRequest(t)
    <3>1. Now(t, "send", call[t].tag, call[t].worker, call[t].outcome, Nothing)
      BY <2>4, Moves
    <3> QED BY <2>1, <2>2, <2>4, <3>1 DEF ArmRequest, Now, Pending, At
  <2>5. CASE DisarmSpawn(t)
    <3>1. call[t].outcome # "error" /\ call[t].tag.cold
      BY <2>1, <2>5 DEF DisarmSpawn, At, Stage
    <3>2. Now(t, "arm", call[t].tag, call[t].worker, call[t].outcome, call[t].answer)
      BY <2>5, <3>1, Moves
    <3> QED BY <3>1, <3>2 DEF Now, Pending
  <2>6. CASE Aside(t) /\ ~EnsureWarm(t) /\ ~ArmRequest(t) /\ ~DisarmSpawn(t)
    <3>1. proc' = proc /\ session' = session
      BY <2>6, AsideMoves
    <3>2. Pending(call[t], proc[session])
      BY <2>1, <2>2, <3>1
    <3>3. ReadEOF(t)
      <4>1. call[t].at \notin {"clone", "setup", "caught", "settle", "disarm"}
        BY <3>2 DEF Pending
      <4>2. ~EnsureCold(t)
        BY <1>s, <3>1 DEF EnsureCold
      <4> QED BY <2>6, <4>1, <4>2 DEF Aside, CloneRefused, SetupKilled, SetupRefused, KeepSession, Settle, Finish, At
    <3>4. call[t].worker = session /\ proc[session].state = "dead"
      BY <2>1, <3>3 DEF ReadEOF, At, Stage
    <3> QED BY <3>1, <3>4
  <2>7. CASE Born(t)
    <3>1. session' = session /\ session = None
      BY <2>1, <2>7 DEF Born, Clone, Exec, WrapRefused, Strand, SpawnRaises, At, Stage
    <3> QED BY <3>1
  <2>8. CASE Send(t)
    <3>1. session' = session /\ call[t].at = "send" /\ session = call[t].worker
      BY <2>1, <2>8 DEF Send, At, Stage
    <3>2. /\ proc[session].state = "live" /\ proc[session].bound # env
          /\ proc'[session].inbox = Append(proc[session].inbox, Asked(t))
      BY <1>s, <2>1, <2>8, <3>1, SendMoves
    <3>3. Now(t, "read", call[t].tag, call[t].worker, call[t].outcome, call[t].answer)
      BY <2>8, <3>1, <3>2, Moves
    <3>4. Append(proc[session].inbox, Asked(t)) # <<>>
      <4>1. proc[session].inbox \in Seq(Request)
        BY <1>s, <3>1, Fields DEF Typed, ProcRec
      <4>2. Asked(t) \in Request
        BY Fields DEF Typed, CallRec, Asked, Request, Ops
      <4> QED BY <4>1, <4>2, NeverEmpty
    <3>5. call[t].op = "rebind" \/ call[t].tag.cold
      BY <1>s, <2>2, <3>1, <3>2 DEF Pending
    <3> QED BY <2>1, <3>1, <3>2, <3>3, <3>4, <3>5 DEF Now, Pending
  <2>9. CASE Read(t)
    <3>1. session' = session /\ session = call[t].worker /\ call[t].at = "read"
      BY <2>1, <2>9 DEF Read, At, Stage
    <3>2. proc[session].state = "live" /\ proc[session].bound # env
      BY <1>s, <2>1, <2>9, <3>1, ReadMoves
    <3>3. proc[session].inbox = <<>>
      BY <2>9, <3>1, ReadsItsAnswer DEF Answers
    <3> QED BY <1>s, <2>2, <3>1, <3>2, <3>3 DEF Pending
  <2>10. CASE DropSession(t) \/ (Finish(t) /\ call[t].tag.cold /\ call[t].outcome # "ok")
    BY <2>10, DropMoves
  <2> QED BY <1>2, <2>3, <2>4, <2>5, <2>6, <2>7, <2>8, <2>9, <2>10, CallerCases
<1>3. ASSUME NEW t \in Threads, NEW op \in Ops, NEW e \in Envs, Enter(t, op, e)
      PROVE  \E u \in Threads : Pending(call[u], proc[session])'
  <2>1. op # "restart" /\ session' = session /\ proc' = proc
    BY <1>3 DEF Enter
  <2>2. \A u \in Threads : ~Pending(call[u], proc[session])
    BY <1>3, EnterMoves DEF Pending, At
  <2>3. proc[session].bound = env
    BY <1>b, <2>1, <2>2
  <2>4. op = "rebind"
    BY <1>3, <2>1, <2>3 DEF Enter
  <2> QED BY <1>3, <2>4, EnterMoves DEF Pending
<1>4. ASSUME NEW w \in Worker, Serves(w) PROVE \E u \in Threads : Pending(call[u], proc[session])'
  <2>1. session' = session /\ env' = env /\ session = w /\ (proc'[w].state = "live" => proc'[w].bound = env)
    BY <1>4, ServedTruly, WorkerTyped DEF WorkerStep, Serves
  <2> QED BY <2>1
<1>5. CASE Fire
  <2>1. UNCHANGED <<session, proc, env>>
    BY <1>5 DEF Fire
  <2> QED BY <1>5, <1>b, <2>1, FireTyped DEF Pending
<1>6. CASE Kill \/ \E w \in Worker : Die(w)
  <2>1. UNCHANGED <<call, env, session>> /\ (proc' = proc \/ \E w \in Worker : proc' = Killed(w))
    BY <1>6, KillTyped DEF Die
  <2>2. proc'[session] = proc[session]
    BY <1>s, <2>1, KilledTyped DEF Typed
  <2> QED BY <1>b, <2>1, <2>2 DEF Pending
<1> QED BY <1>1, <1>2, <1>3, <1>4, <1>5, <1>6 DEF Next, Serves

(***************************************************************************)
(* The runner's promises.                                                  *)
(***************************************************************************)
RunnerInv == Typed /\ OwnDeadlines /\ Staged /\ Young /\ Strands /\ Claimed /\ Pipes /\ Bound

LEMMA RunnerStarts == Init => RunnerInv
<1> SUFFICES ASSUME Init PROVE RunnerInv
  OBVIOUS
<1>1. Typed
  BY InitTyped
<1>2. \A t \in Threads : call[t].at = "out" /\ call[t].worker = None
  BY DEF Init
<1>3. \A w \in Worker : proc[w].state = "unborn" /\ Quiet(proc[w])
  BY DEF Init, Quiet
<1>4. session = None /\ armed = Nothing /\ firing = Nothing
  BY DEF Init
<1>5. stranded = {} /\ spawned = None /\ \A w \in Worker : proc[w].bound = Nothing /\ proc[w].inbox = <<>>
  BY DEF Init
<1> QED BY <1>1, <1>2, <1>3, <1>4, <1>5
        DEF RunnerInv, OwnDeadlines, Staged, Stage, Young, Strands, Claimed, Alive, Pipes, Bound

LEMMA RunnerSteps == RunnerInv /\ [Next]_vars => RunnerInv'
  BY StepTyped, StepDeadlines, StepStaged, StepYoung, StepStrands, StepClaimed, StepPipes, StepBound DEF RunnerInv

LEMMA RunnerHolds == Spec => []RunnerInv
  BY RunnerStarts, RunnerSteps, PTL DEF Spec

\* The state of the runner, its workers and its pipes stays well formed, and
\* no more workers are numbered than calls were made.
THEOREM TypeCorrect == Spec => []TypeOK
<1>1. RunnerInv => TypeOK
  BY DEF RunnerInv, Typed
<1> QED BY <1>1, RunnerHolds, PTL

\* _request: whatever was killed, dropped or left in a pipe, for any number of
\* threads and calls, the answer a call takes is the one to its own request.
THEOREM RepliesAreMine == Spec => []ReplyIsMine
<1>1. RunnerInv => ReplyIsMine
  BY DEF RunnerInv, Staged, Stage, ReplyIsMine
<1> QED BY <1>1, RunnerHolds, PTL

\* rebind, restart, _ensure: no answer comes from a worker bound to any other
\* environment than the one the runner was last pointed at, for any sequence
\* of failed binds, deaths, deadlines and respawns.
THEOREM AnsweredThere == Spec => []AnsweredUnderItsEnvironment
<1>1. RunnerInv => AnsweredUnderItsEnvironment
  BY DEF RunnerInv, Staged, Stage, AnsweredUnderItsEnvironment, At
<1> QED BY <1>1, RunnerHolds, PTL

\* _drop_session, _async_spawn: between calls no worker runs but the session's
\* own and those a failed spawn left behind, and of those none is ever made
\* the session, bound or asked anything.
THEOREM NothingLeftRunning == Spec => []NoOrphans
<1>1. ASSUME RunnerInv, lock = Nothing, NEW w \in Worker, Alive(w) PROVE w = session \/ w \in stranded
  BY <1>1, Constants DEF RunnerInv, Typed, Serial, At, Claimed, Kept, Spawns
<1>2. ASSUME RunnerInv, NEW w \in stranded PROVE w # session /\ proc[w].bound = Nothing /\ proc[w].inbox = <<>>
  BY <1>2 DEF RunnerInv, Strands, Aground
<1>3. RunnerInv => NoOrphans
  BY <1>1, <1>2 DEF NoOrphans
<1> QED BY <1>3, RunnerHolds, PTL

\* _Watchdog.arm, _Watchdog.disarm: a deadline kills while the request that
\* armed it is still the one under way.
THEOREM DeadlinesHitTheirOwn == Spec => DeadlineHitsItsOwn
<1>1. RunnerInv /\ [Next]_vars =>
        [firing # Nothing /\ firing' = Nothing =>
           lock = firing.thread /\ call[firing.thread].tag = firing.tag /\ ~At(firing.thread, "out")]_vars
  <2> SUFFICES ASSUME RunnerInv, firing # Nothing
               PROVE  lock = firing.thread /\ call[firing.thread].tag = firing.tag /\ ~At(firing.thread, "out")
    OBVIOUS
  <2>1. firing \in Deadline /\ firing.thread \in Threads
    BY Fields DEF RunnerInv, Typed, Deadline
  <2> QED BY <2>1 DEF RunnerInv, OwnDeadlines, Owns, Typed, Serial
<1> QED BY <1>1, RunnerHolds, PTL DEF Spec, DeadlineHitsItsOwn

(***************************************************************************)
(* Paced fetching, for any threads and processes and any cap, budget and   *)
(* pauses: sequences of timestamps first, then the calls' types, their     *)
(* budgets, and the cap.                                                   *)
(***************************************************************************)
Times == 0..Horizon
Call == [at : Stages, end : Times, until : Nat, timeout : 0..SocketTimeout, tries : 0..MaxRetries,
         queued : BOOLEAN]

LEMMA LongestType == Longest \in Nat
<1>1. Reads \in Nat /\ SocketTimeout \in Nat
  BY FetchAssumption
<1> QED BY <1>1 DEF Longest

LEMMA HorizonType == Horizon \in Nat
<1>1. Longest \in Nat
  BY LongestType
<1> QED BY <1>1, FetchAssumption DEF Horizon

\* Every look at the deadline comes within Longest of the one before.
LEMMA ReadsAreBounded ==
  ASSUME NEW patience \in 0..SocketTimeout
  PROVE  Reads * patience \in Nat /\ Reads * patience <= Longest
<1>1. Reads \in Nat /\ SocketTimeout \in Nat /\ patience \in Nat
  BY FetchAssumption
<1>2. PICK rest \in Nat : SocketTimeout = patience + rest
  <2>1. SocketTimeout - patience \in Nat /\ SocketTimeout = patience + (SocketTimeout - patience)
    BY <1>1
  <2> QED BY <2>1
<1>3. /\ Reads * SocketTimeout = Reads * patience + Reads * rest
      /\ Reads * rest \in Nat /\ Reads * patience \in Nat
  BY <1>1, <1>2
<1> QED BY <1>3 DEF Longest

\* The prefix the limiter drops exists and there is only one.
LEMMA AgedPrefix ==
  ASSUME NEW ts \in Seq(Int), NEW cutoff \in Int
  PROVE  /\ Aged(ts, cutoff) \in 0..Len(ts)
         /\ \A i \in 1..Aged(ts, cutoff) : ts[i] <= cutoff
         /\ Aged(ts, cutoff) < Len(ts) => ts[Aged(ts, cutoff) + 1] > cutoff
<1> DEFINE A == {k \in 0..Len(ts) : k < Len(ts) => ts[k + 1] > cutoff}
<1>1. Len(ts) \in Nat /\ Len(ts) \in A /\ A \subseteq Nat
  BY LenProperties
<1>2. PICK k \in A : \A j \in A : ~ (<<j, k>> \in OpToRel(<, Nat))
  <2>1. IsWellFoundedOn(OpToRel(<, Nat), Nat)
    BY NatLessThanWellFounded
  <2>2. A # {}
    BY <1>1
  <2> HIDE DEF A
  <2> QED BY <1>1, <2>1, <2>2, WFMin
<1>3. \A j \in A : k <= j
  <2> SUFFICES ASSUME NEW j \in A PROVE k <= j
    OBVIOUS
  <2>1. j \in Nat /\ k \in Nat
    BY <1>1
  <2>2. ~ (j < k)
    BY <1>2, <2>1 DEF OpToRel
  <2> QED BY <2>1, <2>2
<1>4. \A i \in 1..k : ts[i] <= cutoff
  <2> SUFFICES ASSUME NEW i \in 1..k PROVE ts[i] <= cutoff
    OBVIOUS
  <2>1. k \in 0..Len(ts) /\ i \in 1..Len(ts) /\ i - 1 \in 0..Len(ts) /\ i - 1 < Len(ts)
    BY <1>1
  <2>2. ts[i] \in Int
    BY <2>1, ElementOfSeq
  <2>3. i - 1 \notin A
    BY <1>3, <2>1
  <2>4. ~ (ts[(i - 1) + 1] > cutoff)
    BY <2>1, <2>3
  <2>5. (i - 1) + 1 = i
    BY <2>1
  <2> QED BY <2>2, <2>4, <2>5
<1>5. k \in 0..Len(ts) /\ (k < Len(ts) => ts[k + 1] > cutoff)
  OBVIOUS
<1> HIDE DEF A
<1> QED BY <1>4, <1>5 DEF Aged

LEMMA AgedUnique ==
  ASSUME NEW ts \in Seq(Int), NEW cutoff \in Int, NEW k \in 0..Len(ts),
         \A i \in 1..k : ts[i] <= cutoff, k < Len(ts) => ts[k + 1] > cutoff
  PROVE  Aged(ts, cutoff) = k
<1> DEFINE a == Aged(ts, cutoff)
<1>1. a \in 0..Len(ts) /\ (\A i \in 1..a : ts[i] <= cutoff) /\ (a < Len(ts) => ts[a + 1] > cutoff)
  BY AgedPrefix
<1>2. Len(ts) \in Nat /\ \A i \in 1..Len(ts) : ts[i] \in Int
  BY LenProperties, ElementOfSeq
<1> HIDE DEF a
<1>3. ~ (a < k)
  <2> SUFFICES ASSUME a < k PROVE FALSE
    OBVIOUS
  <2>1. a + 1 \in 1..k /\ a + 1 \in 1..Len(ts) /\ a < Len(ts)
    BY <1>1, <1>2
  <2>2. ts[a + 1] \in Int
    BY <1>2, <2>1
  <2>3. ts[a + 1] <= cutoff /\ ts[a + 1] > cutoff
    BY <1>1, <2>1
  <2> QED BY <2>2, <2>3
<1>4. ~ (k < a)
  <2> SUFFICES ASSUME k < a PROVE FALSE
    OBVIOUS
  <2>1. k + 1 \in 1..a /\ k + 1 \in 1..Len(ts) /\ k < Len(ts)
    BY <1>1, <1>2
  <2>2. ts[k + 1] \in Int
    BY <1>2, <2>1
  <2>3. ts[k + 1] <= cutoff /\ ts[k + 1] > cutoff
    BY <1>1, <2>1
  <2> QED BY <2>2, <2>3
<1>5. a \in Int /\ k \in Int
  BY <1>1, <1>2
<1>6. a = k
  BY <1>3, <1>4, <1>5
<1> QED BY <1>6 DEF a

\* What is left of a window is a suffix of it that starts inside the window.
LEMMA RecentIs ==
  ASSUME NEW ts \in Seq(Int), NEW cutoff \in Int
  PROVE  LET a == Aged(ts, cutoff) IN
         /\ a \in 0..Len(ts)
         /\ Recent(ts, cutoff) \in Seq(Int) /\ Len(Recent(ts, cutoff)) = Len(ts) - a
         /\ \A i \in 1..Len(ts) - a : Recent(ts, cutoff)[i] = ts[i + a]
         /\ \A i \in 1..a : ts[i] <= cutoff
         /\ a < Len(ts) => ts[a + 1] > cutoff
<1> DEFINE a == Aged(ts, cutoff)
           m == a + 1
           n == Len(ts)
<1>1. a \in 0..n /\ (\A i \in 1..a : ts[i] <= cutoff) /\ (a < n => ts[a + 1] > cutoff)
  BY AgedPrefix
<1>2. n \in Nat /\ \A i \in 1..n : ts[i] \in Int
  BY LenProperties, ElementOfSeq
<1>3. Recent(ts, cutoff) = SubSeq(ts, m, n)
  BY DEF Recent
<1> HIDE DEF a, n
<1>4. m \in Int /\ n \in Int /\ \A i \in m..n : ts[i] \in Int
  BY <1>1, <1>2
<1> HIDE DEF m
<1>5. /\ SubSeq(ts, m, n) \in Seq(Int)
      /\ Len(SubSeq(ts, m, n)) = IF m <= n THEN n - m + 1 ELSE 0
      /\ \A i \in 1..n - m + 1 : SubSeq(ts, m, n)[i] = ts[m + i - 1]
  BY <1>4, SubSeqProperties
<1>6. /\ (IF m <= n THEN n - m + 1 ELSE 0) = n - a /\ n - m + 1 = n - a
      /\ \A i \in 1..n - a : m + i - 1 = i + a
  BY <1>1, <1>2 DEF m
<1>7. /\ Recent(ts, cutoff) \in Seq(Int) /\ Len(Recent(ts, cutoff)) = n - a
      /\ \A i \in 1..n - a : Recent(ts, cutoff)[i] = ts[i + a]
  BY <1>3, <1>5, <1>6
<1> QED BY <1>1, <1>7 DEF a, n

LEMMA RecentType ==
  ASSUME NEW S \in SUBSET Int, NEW ts \in Seq(S), NEW cutoff \in Int
  PROVE  Recent(ts, cutoff) \in Seq(S)
<1> DEFINE a == Aged(ts, cutoff)
           m == a + 1
           n == Len(ts)
<1>1. ts \in Seq(Int)
  BY SeqMonotonic
<1>2. a \in 0..n /\ n \in Nat
  BY <1>1, AgedPrefix, LenProperties
<1>3. \A i \in 1..n : ts[i] \in S
  BY ElementOfSeq
<1>4. Recent(ts, cutoff) = SubSeq(ts, m, n)
  BY DEF Recent
<1> HIDE DEF a, n
<1>5. m \in Int /\ n \in Int /\ \A i \in m..n : ts[i] \in S
  BY <1>2, <1>3
<1> HIDE DEF m
<1> QED BY <1>4, <1>5, SubSeqProperties

LEMMA RecentOpens ==
  ASSUME NEW ts \in Seq(Int), NEW cutoff \in Int
  PROVE  Recent(ts, cutoff) = <<>> \/ Recent(ts, cutoff)[1] > cutoff
<1> DEFINE r == Recent(ts, cutoff)
           a == Aged(ts, cutoff)
<1>1. /\ a \in 0..Len(ts) /\ r \in Seq(Int) /\ Len(r) = Len(ts) - a
      /\ \A i \in 1..Len(ts) - a : r[i] = ts[i + a]
      /\ a < Len(ts) => ts[a + 1] > cutoff
  BY RecentIs
<1>2. Len(ts) \in Nat
  BY LenProperties
<1> HIDE DEF r, a
<1>3. CASE a = Len(ts)
  <2>1. Len(r) = 0
    BY <1>1, <1>2, <1>3
  <2>2. r = <<>>
    BY <1>1, <2>1, EmptySeq
  <2> QED BY <2>2 DEF r
<1>4. CASE a < Len(ts)
  <2>1. 1 \in 1..Len(ts) - a /\ 1 + a = a + 1
    BY <1>1, <1>2, <1>4
  <2>2. r[1] > cutoff
    BY <1>1, <1>4, <2>1
  <2> QED BY <2>2 DEF r
<1> QED BY <1>1, <1>2, <1>3, <1>4

LEMMA RecentAll ==
  ASSUME NEW ts \in Seq(Int), NEW cutoff \in Int, ts = <<>> \/ ts[1] > cutoff
  PROVE  Recent(ts, cutoff) = ts
<1>1. 0 \in 0..Len(ts) /\ (\A i \in 1..0 : ts[i] <= cutoff) /\ (0 < Len(ts) => ts[0 + 1] > cutoff)
  BY LenProperties, EmptySeq
<1>2. Aged(ts, cutoff) = 0
  BY <1>1, AgedUnique
<1> QED BY <1>2, SubSeqFull DEF Recent

\* Dropping what has aged now and dropping again later is dropping later.
LEMMA RecentTwice ==
  ASSUME NEW ts \in Seq(Int), NEW c \in Int, NEW d \in Int, c <= d
  PROVE  Recent(Recent(ts, c), d) = Recent(ts, d)
<1> DEFINE r == Recent(ts, c)
           a == Aged(ts, c)
           b == Aged(r, d)
           q == Recent(r, d)
           n == Len(ts)
<1>1. /\ a \in 0..n /\ r \in Seq(Int) /\ Len(r) = n - a
      /\ \A i \in 1..n - a : r[i] = ts[i + a]
      /\ \A i \in 1..a : ts[i] <= c
  BY RecentIs
<1>2. n \in Nat /\ \A i \in 1..n : ts[i] \in Int
  BY LenProperties, ElementOfSeq
<1>3. /\ b \in 0..Len(r) /\ q \in Seq(Int) /\ Len(q) = Len(r) - b
      /\ \A i \in 1..Len(r) - b : q[i] = r[i + b]
      /\ \A i \in 1..b : r[i] <= d
      /\ b < Len(r) => r[b + 1] > d
  <2>1. r \in Seq(Int)
    BY <1>1
  <2> HIDE DEF r
  <2> QED BY <2>1, RecentIs
<1> HIDE DEF r, a, b, q, n
<1>4. a + b \in 0..n
  BY <1>1, <1>2, <1>3
<1>5. \A i \in 1..a + b : ts[i] <= d
  <2> SUFFICES ASSUME NEW i \in 1..a + b PROVE ts[i] <= d
    OBVIOUS
  <2>0. i \in 1..n /\ ts[i] \in Int
    BY <1>1, <1>2, <1>3
  <2>1. CASE i <= a
    <3>1. i \in 1..a
      BY <1>1, <1>2, <2>0, <2>1
    <3> QED BY <1>1, <2>0, <3>1
  <2>2. CASE i > a
    <3>1. i - a \in 1..b /\ i - a \in 1..n - a /\ (i - a) + a = i
      BY <1>1, <1>2, <1>3, <2>2
    <3> QED BY <1>1, <1>3, <3>1
  <2> QED BY <1>1, <1>2, <2>0, <2>1, <2>2
<1>6. a + b < n => ts[(a + b) + 1] > d
  <2> SUFFICES ASSUME a + b < n PROVE ts[(a + b) + 1] > d
    OBVIOUS
  <2>1. b < Len(r) /\ b + 1 \in 1..n - a /\ (b + 1) + a = (a + b) + 1
    BY <1>1, <1>2, <1>3
  <2> QED BY <1>1, <1>3, <2>1
<1>7. Aged(ts, d) = a + b
  BY <1>4, <1>5, <1>6, AgedUnique DEF n
<1> DEFINE w == Recent(ts, d)
<1>8. /\ w \in Seq(Int) /\ Len(w) = n - (a + b)
      /\ \A i \in 1..n - (a + b) : w[i] = ts[i + (a + b)]
  BY <1>7, RecentIs DEF n
<1> HIDE DEF w
<1>9. Len(q) = Len(w)
  BY <1>1, <1>2, <1>3, <1>8
<1>10. \A i \in 1..Len(q) : q[i] = w[i]
  <2> SUFFICES ASSUME NEW i \in 1..Len(q) PROVE q[i] = w[i]
    OBVIOUS
  <2>1. i \in 1..Len(r) - b /\ i + b \in 1..n - a /\ (i + b) + a = i + (a + b) /\ i \in 1..n - (a + b)
    BY <1>1, <1>2, <1>3
  <2> QED BY <1>1, <1>3, <1>8, <2>1
<1>11. q = w
  BY <1>3, <1>8, <1>9, <1>10, SeqEqual
<1> QED BY <1>11 DEF q, w, r

(***************************************************************************)
(* Typing.                                                                 *)
(***************************************************************************)
LEMMA TimesAreIntegers ==
  /\ Times \subseteq Int /\ \A ts \in Seq(Times) : ts \in Seq(Int)
<1>1. Times \subseteq Int
  BY HorizonType DEF Times
<1> QED BY <1>1, SeqMonotonic

LEMMA WaitType ==
  ASSUME NEW ts \in Seq(Int), now \in Int
  PROVE  /\ Wait(ts) \in Nat
         /\ ts # <<>> => Wait(ts) >= MinInterval - (now - ts[Len(ts)])
         /\ Len(ts) >= Limit => Wait(ts) >= Window - (now - ts[1])
<1>1. Len(ts) \in Nat /\ \A i \in 1..Len(ts) : ts[i] \in Int
  BY LenProperties, ElementOfSeq
<1>2. MinInterval \in Int /\ Window \in Int /\ Limit \in Nat \ {0}
  BY FetchAssumption
<1>3. ts # <<>> => Len(ts) \in 1..Len(ts) /\ 1 \in 1..Len(ts)
  BY <1>1, EmptySeq
<1>4. Len(ts) >= Limit => 1 \in 1..Len(ts)
  BY <1>1, <1>2
<1> DEFINE spacing == IF ts # <<>> THEN MinInterval - (now - ts[Len(ts)]) ELSE 0
           slot == IF Len(ts) >= Limit THEN Window - (now - ts[1]) ELSE 0
<1>5. spacing \in Int
  BY <1>1, <1>2, <1>3
<1>6. slot \in Int
  BY <1>1, <1>2, <1>4
<1>7. Wait(ts) = Larger(0, Larger(spacing, slot))
  BY DEF Wait
<1>8. (ts # <<>> => spacing = MinInterval - (now - ts[Len(ts)]))
      /\ (Len(ts) >= Limit => slot = Window - (now - ts[1]))
  OBVIOUS
<1> HIDE DEF spacing, slot
<1>9. Wait(ts) \in Nat /\ Wait(ts) >= spacing /\ Wait(ts) >= slot
  BY <1>5, <1>6, <1>7 DEF Larger
<1> QED BY <1>8, <1>9

LEMMA LoadedType ==
  ASSUME FetchTypeOK, NEW p \in Process
  PROVE  Loaded(p) \in Seq(Times)
<1>1. times[p] \in Seq(Times) /\ ledger.times \in Seq(Times) /\ now \in Int /\ Window \in Int
  BY HorizonType, FetchAssumption DEF FetchTypeOK, File, Times
<1>2. now - Window \in Int
  BY <1>1
<1> QED BY <1>1, <1>2, TimesAreIntegers, RecentType DEF Loaded, Fresh

\* One thread's record changes; what it becomes is a call.
LEMMA MoveEffect ==
  ASSUME FetchTypeOK, NEW t \in Thread, NEW at \in Stages, NEW until \in Nat, Move(t, at, until)
  PROVE  /\ thread' \in [Thread -> Call]
         /\ thread'[t].at = at /\ thread'[t].until = until /\ thread'[t].end = thread[t].end
         /\ thread'[t].queued = thread[t].queued
         /\ \A u \in Thread \ {t} : thread'[u] = thread[u]
<1> DEFINE r == [thread[t] EXCEPT !.at = at, !.until = until]
<1>1. thread \in [Thread -> Call]
  BY DEF FetchTypeOK, Call, Times
<1>2. thread[t] \in Call
  BY <1>1
<1>3. /\ r \in Call /\ r.at = at /\ r.until = until /\ r.end = thread[t].end
      /\ r.queued = thread[t].queued
  BY <1>2 DEF Call
<1>4. thread' = [thread EXCEPT ![t] = r]
  BY DEF Move
<1> HIDE DEF r
<1> QED BY <1>1, <1>3, <1>4

LEMMA ReturnEffect ==
  ASSUME FetchTypeOK, NEW t \in Thread, Return(t)
  PROVE  /\ thread' \in [Thread -> Call]
         /\ thread'[t] = Idle /\ Idle.at = "idle" /\ \A u \in Thread \ {t} : thread'[u] = thread[u]
<1>1. thread \in [Thread -> Call] /\ Idle \in Call /\ Idle.at = "idle"
  BY HorizonType, FetchAssumption DEF FetchTypeOK, Call, Times, Idle, Stages
<1> QED BY <1>1 DEF Return

LEMMA FetchStart ==
  ASSUME FetchTypeOK, NEW t \in Thread, Start(t)
  PROVE  /\ FetchTypeOK'
         /\ thread'[t].at = "lock" /\ thread'[t].end = now + Budget /\ ~InStage(t, "nap") /\ ~InStage(t, "write")
         /\ \A u \in Thread \ {t} : thread'[u] = thread[u]
<1> DEFINE r == [Idle EXCEPT !.at = "lock", !.end = now + Budget]
<1>1. thread \in [Thread -> Call] /\ now \in Times /\ now <= LastStart
  BY DEF FetchTypeOK, Call, Times, Start
<1>2. now + Budget \in Times /\ 0 \in Times /\ 0 \in 0..MaxRetries /\ 0 \in 0..SocketTimeout
  BY <1>1, LongestType, FetchAssumption DEF Times, Horizon
<1>3. r \in Call
  BY <1>2 DEF Idle, Call, Stages
<1>4. thread' = [thread EXCEPT ![t] = r]
  BY DEF Start
<1>5. r.at = "lock" /\ r.end = now + Budget
  BY DEF Idle
<1> HIDE DEF r
<1>6. /\ thread' \in [Thread -> Call] /\ thread'[t] = r
      /\ \A u \in Thread \ {t} : thread'[u] = thread[u]
  BY <1>1, <1>3, <1>4
<1>7. fetches' \in 0..MaxFetches
  BY FetchAssumption DEF FetchTypeOK, Start
<1>8. FetchTypeOK'
  BY <1>6, <1>7 DEF FetchTypeOK, Start, Call, Times
<1> QED BY <1>5, <1>6, <1>8 DEF Start, InStage

\* What a thread does to its own record in each step of a call.
LEMMA FetchLoad ==
  ASSUME FetchTypeOK, NEW t \in Thread, LoadLedger(t)
  PROVE  /\ FetchTypeOK'
         /\ \/ /\ thread'[t] = Idle /\ Idle.at = "idle" /\ UNCHANGED <<limiterLock, spoiled>>
            \/ LET wait == Wait(Loaded(ProcessOf[t])) IN
               /\ wait \in Nat /\ now + wait \in Times
               /\ thread'[t].at = "nap" /\ thread'[t].until = now + wait
               /\ thread'[t].end = thread[t].end /\ thread'[t].queued = thread[t].queued
               /\ wait = 0 \/ now + wait <= thread[t].end
               /\ limiterLock' = [limiterLock EXCEPT ![ProcessOf[t]] = t]
               /\ Spoil("overlap", Overlaps(t))
         /\ \A u \in Thread \ {t} : thread'[u] = thread[u]
<1> DEFINE p == ProcessOf[t]
           wait == Wait(Loaded(p))
<1>1. p \in Process
  BY FetchAssumption
<1>2. thread \in [Thread -> Call] /\ now \in Times /\ thread[t].end \in Times
  BY DEF FetchTypeOK, Call, Times
<1>3. Loaded(p) \in Seq(Times)
  BY <1>1, LoadedType
<1>4. Loaded(p) \in Seq(Int) /\ now \in Int
  BY <1>2, <1>3, TimesAreIntegers
<1>5. wait \in Nat
  BY <1>4, WaitType
<1>6. times' = [times EXCEPT ![p] = Loaded(p)]
  BY DEF LoadLedger
<1>7. times' \in [Process -> Seq(Times)]
  BY <1>1, <1>3, <1>6 DEF FetchTypeOK, Times
<1>8. \/ wait > 0 /\ wait > Remaining(t) /\ Return(t) /\ UNCHANGED <<limiterLock, spoiled>>
      \/ /\ ~ (wait > 0 /\ wait > Remaining(t))
         /\ Move(t, "nap", now + wait)
         /\ limiterLock' = [limiterLock EXCEPT ![p] = t]
         /\ Spoil("overlap", Overlaps(t))
  BY DEF LoadLedger
<1>9. UNCHANGED <<now, ledger, grants, fetches, kills>>
  BY DEF LoadLedger
<1> HIDE DEF p, wait
<1>10. CASE wait > 0 /\ wait > Remaining(t) /\ Return(t) /\ UNCHANGED <<limiterLock, spoiled>>
  <2>1. FetchTypeOK'
    BY <1>7, <1>9, <1>10, ReturnEffect DEF FetchTypeOK, Call, Times
  <2> QED BY <1>10, <2>1, ReturnEffect
<1>11. CASE /\ ~ (wait > 0 /\ wait > Remaining(t))
            /\ Move(t, "nap", now + wait)
            /\ limiterLock' = [limiterLock EXCEPT ![p] = t]
            /\ Spoil("overlap", Overlaps(t))
  <2>1. wait = 0 \/ now + wait <= thread[t].end
    BY <1>2, <1>5, <1>11, HorizonType DEF Remaining, Times
  <2>2. now + wait \in Times
    BY <1>2, <1>5, <2>1, HorizonType DEF Times
  <2>3. /\ thread' \in [Thread -> Call]
        /\ thread'[t].at = "nap" /\ thread'[t].until = now + wait /\ thread'[t].end = thread[t].end
        /\ thread'[t].queued = thread[t].queued
        /\ \A u \in Thread \ {t} : thread'[u] = thread[u]
    <3>1. now + wait \in Nat
      BY <2>2, HorizonType DEF Times
    <3> QED BY <1>11, <3>1, MoveEffect DEF Stages
  <2>4. limiterLock' \in [Process -> Thread \cup {Nobody}]
    BY <1>1, <1>11 DEF FetchTypeOK
  <2>5. spoiled' \in {"no", "overlap", "kill", "disk"}
    BY <1>11 DEF FetchTypeOK, Spoil
  <2>6. FetchTypeOK'
    BY <1>7, <1>9, <2>3, <2>4, <2>5 DEF FetchTypeOK, Call, Times
  <2> QED BY <1>5, <1>11, <2>1, <2>2, <2>3, <2>6 DEF wait, p
<1> QED BY <1>8, <1>10, <1>11

LEMMA TakeType ==
  ASSUME FetchTypeOK, NEW t \in Thread, Take(t)
  PROVE  /\ times' \in [Process -> Seq(Times)]
         /\ times' = [times EXCEPT ![ProcessOf[t]] = Append(Fresh(times[ProcessOf[t]]), now)]
<1> DEFINE p == ProcessOf[t]
           s == Fresh(times[p])
<1>1. p \in Process /\ times[p] \in Seq(Times) /\ now \in Times /\ now - Window \in Int
  BY FetchAssumption, HorizonType DEF FetchTypeOK, Times
<1>2. s \in Seq(Times)
  BY <1>1, TimesAreIntegers, RecentType DEF Fresh
<1>3. times' = [times EXCEPT ![p] = Append(s, now)]
  BY DEF Take
<1> HIDE DEF s, p
<1>4. Append(s, now) \in Seq(Times)
  BY <1>1, <1>2, AppendProperties
<1>5. times' \in [Process -> Seq(Times)]
  BY <1>1, <1>3, <1>4 DEF FetchTypeOK, Times
<1> QED BY <1>3, <1>5 DEF s, p

LEMMA FetchTruncate ==
  ASSUME FetchTypeOK, NEW t \in Thread, Truncate(t)
  PROVE  /\ FetchTypeOK'
         /\ thread'[t].at = "write" /\ thread'[t].end = thread[t].end /\ thread'[t].queued = thread[t].queued
         /\ \A u \in Thread \ {t} : thread'[u] = thread[u]
<1> DEFINE r == [thread[t] EXCEPT !.at = "write"]
<1>1. thread \in [Thread -> Call]
  BY DEF FetchTypeOK, Call, Times
<1>2. thread[t] \in Call
  BY <1>1
<1>3. r \in Call /\ r.at = "write" /\ r.end = thread[t].end /\ r.queued = thread[t].queued
  BY <1>2 DEF Call, Stages
<1>4. thread' = [thread EXCEPT ![t] = r]
  BY <1>1 DEF Truncate
<1> HIDE DEF r
<1>5. /\ thread' \in [Thread -> Call] /\ thread'[t] = r
      /\ \A u \in Thread \ {t} : thread'[u] = thread[u]
  BY <1>1, <1>3, <1>4
<1>6. times' \in [Process -> Seq(Times)]
  BY TakeType DEF Truncate
<1>7. ledger' \in File
  BY HorizonType, EmptySeq DEF Truncate, Torn, File
<1>8. FetchTypeOK'
  BY <1>5, <1>6, <1>7 DEF FetchTypeOK, Truncate, Call, Times
<1> QED BY <1>3, <1>5, <1>8

\* A slot is granted whether or not it could be written down.
LEMMA GrantEffect ==
  ASSUME FetchTypeOK, NEW t \in Thread, Granted(t)
  PROVE  /\ thread' \in [Thread -> Call]
         /\ limiterLock' \in [Process -> Thread \cup {Nobody}]
         /\ grants' \in Seq(Times)
         /\ thread'[t].at = "request" /\ thread'[t].end = thread[t].end /\ thread'[t].queued = thread[t].queued
         /\ thread'[t].until <= now + Longest
         /\ \A u \in Thread \ {t} : thread'[u] = thread[u]
<1> DEFINE patience == Patience(t)
           until == now + Reads * patience
           r == [thread[t] EXCEPT !.at = "request", !.timeout = patience, !.until = until]
<1>1. now \in Times /\ 0 \in Times /\ grants \in Seq(Times) /\ ProcessOf[t] \in Process
  BY FetchAssumption, HorizonType DEF FetchTypeOK, Times
<1>2. thread \in [Thread -> Call] /\ thread[t] \in Call /\ thread[t].end \in Int /\ now \in Nat
  BY HorizonType DEF FetchTypeOK, Call, Times
<1>5. patience \in 0..SocketTimeout
  BY <1>2, FetchAssumption DEF Patience, Remaining, Larger
<1>6. thread' = [thread EXCEPT ![t] = r]
  BY <1>2 DEF Granted
<1> HIDE DEF patience
<1>7. until \in Nat /\ until <= now + Longest
  BY <1>2, <1>5, ReadsAreBounded, LongestType
<1> HIDE DEF until
<1>8. /\ r \in Call /\ r.at = "request" /\ r.until = until /\ r.end = thread[t].end
      /\ r.queued = thread[t].queued
  BY <1>2, <1>5, <1>7 DEF Call, Stages
<1> HIDE DEF r
<1>9. /\ thread' \in [Thread -> Call] /\ thread'[t] = r
      /\ \A u \in Thread \ {t} : thread'[u] = thread[u]
  BY <1>2, <1>6, <1>8
<1>3. grants' \in Seq(Times)
  BY <1>1, AppendProperties DEF Granted
<1>4. limiterLock' \in [Process -> Thread \cup {Nobody}]
  BY <1>1 DEF Granted, FetchTypeOK
<1> QED BY <1>3, <1>4, <1>7, <1>8, <1>9

LEMMA FetchWrite ==
  ASSUME FetchTypeOK, NEW t \in Thread, Write(t)
  PROVE  FetchTypeOK'
<1>1. ProcessOf[t] \in Process /\ times[ProcessOf[t]] \in Seq(Times)
  BY FetchAssumption DEF FetchTypeOK, Times
<1>2. ledger' \in File
  BY <1>1 DEF Write, Json, File, Times
<1> QED BY <1>2, GrantEffect DEF Write, FetchTypeOK, Call, Times

LEMMA FetchSaveFails ==
  ASSUME FetchTypeOK, NEW t \in Thread, SaveFails(t)
  PROVE  FetchTypeOK' /\ spoiled' # "no"
<1>1. times' \in [Process -> Seq(Times)]
  BY TakeType DEF SaveFails, FetchTypeOK, Times
<1>2. spoiled' \in {"no", "overlap", "kill", "disk"} /\ spoiled' # "no"
  BY DEF SaveFails, Spoil, FetchTypeOK
<1> QED BY <1>1, <1>2, GrantEffect DEF SaveFails, FetchTypeOK, Call, Times

LEMMA FetchChunk ==
  ASSUME FetchTypeOK, NEW t \in Thread, Chunk(t)
  PROVE  /\ FetchTypeOK' /\ now < thread[t].end
         /\ thread'[t].at = "body" /\ thread'[t].end = thread[t].end /\ thread'[t].queued = thread[t].queued
         /\ thread'[t].until <= now + Longest
         /\ \A u \in Thread \ {t} : thread'[u] = thread[u]
<1> DEFINE until == now + Reads * thread[t].timeout
<1>1. thread[t].timeout \in 0..SocketTimeout /\ thread[t].end \in Int /\ now \in Nat
  BY HorizonType DEF FetchTypeOK, Times
<1>2. until \in Nat /\ until <= now + Longest
  BY <1>1, ReadsAreBounded, LongestType
<1>3. Move(t, "body", until) /\ "body" \in Stages /\ now < thread[t].end
  BY <1>1 DEF Chunk, Stages, Remaining
<1> HIDE DEF until
<1>4. /\ thread' \in [Thread -> Call]
      /\ thread'[t].at = "body" /\ thread'[t].until = until /\ thread'[t].end = thread[t].end
      /\ thread'[t].queued = thread[t].queued
      /\ \A u \in Thread \ {t} : thread'[u] = thread[u]
  BY <1>2, <1>3, MoveEffect
<1>5. FetchTypeOK'
  BY <1>4 DEF Chunk, FetchTypeOK, Call, Times
<1> QED BY <1>2, <1>3, <1>4, <1>5

LEMMA FetchAnswered ==
  ASSUME FetchTypeOK, NEW t \in Thread, Answered(t)
  PROVE  /\ FetchTypeOK' /\ thread'[t] = Idle /\ Idle.at = "idle"
         /\ \A u \in Thread \ {t} : thread'[u] = thread[u]
  BY ReturnEffect DEF Answered, FetchTypeOK, Call, Times

LEMMA FetchThrottled ==
  ASSUME FetchTypeOK, NEW t \in Thread, NEW pause \in RetryAfter, Throttled(t, pause)
  PROVE  /\ FetchTypeOK'
         /\ \/ thread'[t] = Idle /\ Idle.at = "idle"
            \/ /\ thread'[t].at = "pause" /\ thread'[t].until <= thread'[t].end /\ now <= thread[t].end
               /\ thread'[t].end = thread[t].end /\ thread'[t].queued = thread[t].queued
         /\ \A u \in Thread \ {t} : thread'[u] = thread[u]
<1>1. thread \in [Thread -> Call] /\ now \in Times /\ pause \in Nat
  BY FetchAssumption DEF FetchTypeOK, Call, Times
<1>2. thread[t] \in Call
  BY <1>1
<1>3. UNCHANGED <<now, ledger, limiterLock, times, grants, spoiled, fetches, kills>>
  BY DEF Throttled
<1>4. CASE thread[t].tries < MaxRetries /\ pause <= Remaining(t)
  <2> DEFINE until == now + pause
             tries == thread[t].tries + 1
             r == [thread[t] EXCEPT !.at = "pause", !.until = until, !.timeout = 0, !.tries = tries]
  <2>1. thread' = [thread EXCEPT ![t] = r]
    BY <1>4 DEF Throttled
  <2>2. thread[t].end \in Times /\ thread[t].tries \in 0..MaxRetries
    BY <1>2 DEF Call
  <2>3. until \in Times /\ until <= thread[t].end /\ now <= thread[t].end
    BY <1>1, <1>4, <2>2, HorizonType DEF Remaining, Times
  <2>4. tries \in 0..MaxRetries /\ 0 \in 0..SocketTimeout /\ until \in Nat
    BY <1>1, <1>4, <2>2, HorizonType, FetchAssumption DEF Times
  <2> HIDE DEF until, tries
  <2>5. /\ r \in Call /\ r.at = "pause" /\ r.until = until /\ r.end = thread[t].end
        /\ r.queued = thread[t].queued
    BY <1>2, <2>3, <2>4 DEF Call, Stages
  <2> HIDE DEF r
  <2>6. /\ thread' \in [Thread -> Call] /\ thread'[t] = r
        /\ \A u \in Thread \ {t} : thread'[u] = thread[u]
    BY <1>1, <2>1, <2>5
  <2>7. FetchTypeOK'
    BY <1>3, <2>6 DEF FetchTypeOK, Call, Times
  <2> QED BY <2>3, <2>5, <2>6, <2>7
<1>5. CASE ~ (thread[t].tries < MaxRetries /\ pause <= Remaining(t))
  <2>1. Return(t)
    BY <1>5 DEF Throttled
  <2>2. FetchTypeOK'
    BY <1>3, <2>1, ReturnEffect DEF FetchTypeOK, Call, Times
  <2> QED BY <2>1, <2>2, ReturnEffect
<1> QED BY <1>4, <1>5

LEMMA FetchRetry ==
  ASSUME FetchTypeOK, NEW t \in Thread, Retry(t)
  PROVE  /\ FetchTypeOK'
         /\ \/ thread'[t] = Idle /\ Idle.at = "idle"
            \/ /\ thread'[t].at = "lock" /\ thread'[t].end = thread[t].end
               /\ thread'[t].queued = thread[t].queued
         /\ \A u \in Thread \ {t} : thread'[u] = thread[u]
<1>1. UNCHANGED <<now, ledger, limiterLock, times, grants, spoiled, fetches, kills>>
  BY DEF Retry
<1>2. CASE Return(t)
  <2>1. FetchTypeOK'
    BY <1>1, <1>2, ReturnEffect DEF FetchTypeOK, Call, Times
  <2> QED BY <1>2, <2>1, ReturnEffect
<1>3. CASE Move(t, "lock", 0)
  <2>1. 0 \in Times /\ "lock" \in Stages
    BY HorizonType DEF Times, Stages
  <2>2. FetchTypeOK'
    BY <1>1, <1>3, <2>1, MoveEffect DEF FetchTypeOK, Call, Times
  <2> QED BY <1>3, <2>1, <2>2, MoveEffect
<1> QED BY <1>2, <1>3 DEF Retry

LEMMA FetchKill ==
  ASSUME FetchTypeOK, NEW p \in Process, KillProcess(p)
  PROVE  /\ FetchTypeOK' /\ Idle.at = "idle"
         /\ \A u \in Thread : thread'[u] = IF ProcessOf[u] = p THEN Idle ELSE thread[u]
<1>1. thread \in [Thread -> Call] /\ Idle \in Call /\ Idle.at = "idle"
  BY HorizonType, FetchAssumption DEF FetchTypeOK, Call, Times, Idle, Stages
<1>2. /\ thread' \in [Thread -> Call]
      /\ \A u \in Thread : thread'[u] = IF ProcessOf[u] = p THEN Idle ELSE thread[u]
  BY <1>1 DEF KillProcess
<1>3. times' \in [Process -> Seq(Times)]
  BY EmptySeq DEF KillProcess, FetchTypeOK, Times
<1>4. limiterLock' \in [Process -> Thread \cup {Nobody}]
  BY DEF KillProcess, FetchTypeOK
<1>5. kills' \in 0..MaxKills
  BY FetchAssumption DEF KillProcess, FetchTypeOK
<1>6. spoiled' \in {"no", "overlap", "kill", "disk"}
  BY DEF KillProcess, Spoil, FetchTypeOK
<1> QED BY <1>1, <1>2, <1>3, <1>4, <1>5, <1>6 DEF KillProcess, FetchTypeOK, Call, Times

LEMMA FetchTick ==
  ASSUME FetchTypeOK, Tick
  PROVE  /\ FetchTypeOK'
         /\ \A u \in Thread : /\ thread'[u].at = thread[u].at /\ thread'[u].end = thread[u].end
                              /\ thread'[u].until = thread[u].until
                              /\ thread'[u].queued = (thread[u].queued \/ Queued(u))
<1> DEFINE next(u) == [thread[u] EXCEPT !.queued = thread[u].queued \/ Queued(u)]
<1>1. thread \in [Thread -> Call]
  BY DEF FetchTypeOK, Call, Times
<1>2. thread' = [u \in Thread |-> next(u)]
  BY DEF Tick
<1>3. \A u \in Thread : /\ next(u) \in Call /\ next(u).at = thread[u].at /\ next(u).end = thread[u].end
                        /\ next(u).until = thread[u].until
                        /\ next(u).queued = (thread[u].queued \/ Queued(u))
  <2> SUFFICES ASSUME NEW u \in Thread
      PROVE /\ next(u) \in Call /\ next(u).at = thread[u].at /\ next(u).end = thread[u].end
            /\ next(u).until = thread[u].until
            /\ next(u).queued = (thread[u].queued \/ Queued(u))
    OBVIOUS
  <2> DEFINE b == thread[u].queued \/ Queued(u)
  <2>1. b \in BOOLEAN /\ thread[u] \in Call
    BY <1>1 DEF Call
  <2>2. next(u) = [thread[u] EXCEPT !.queued = b]
    OBVIOUS
  <2> HIDE DEF b, next
  <2>3. /\ [thread[u] EXCEPT !.queued = b] \in Call
        /\ [thread[u] EXCEPT !.queued = b].at = thread[u].at
        /\ [thread[u] EXCEPT !.queued = b].end = thread[u].end
        /\ [thread[u] EXCEPT !.queued = b].until = thread[u].until
        /\ [thread[u] EXCEPT !.queued = b].queued = b
    BY <2>1 DEF Call
  <2>4. next(u).queued = b
    BY <2>2, <2>3
  <2> QED BY <2>2, <2>3, <2>4 DEF b
<1> HIDE DEF next
<1>4. /\ thread' \in [Thread -> Call]
      /\ \A u \in Thread : thread'[u] = next(u)
  BY <1>2, <1>3
<1>5. now' \in Times /\ now' - Window \in Int
  BY HorizonType, FetchAssumption DEF Tick, FetchTypeOK, Times
<1>6. grants' \in Seq(Times)
  BY <1>5, TimesAreIntegers, RecentType DEF Tick, FetchTypeOK, Times
<1>7. FetchTypeOK'
  BY <1>4, <1>5, <1>6 DEF Tick, FetchTypeOK, Call, Times
<1> QED BY <1>3, <1>4, <1>7

(***************************************************************************)
(* Budgets.                                                                *)
(***************************************************************************)
\* No pause a call chooses ends after its deadline, and a request it sends
\* before it is done waiting for its peer within Longest of it.
InBudget(t) ==
  /\ InStage(t, "nap") => thread[t].until <= now \/ thread[t].until <= thread[t].end
  /\ InStage(t, "pause") => thread[t].until <= thread[t].end
  /\ InRequest(t) /\ ~thread[t].queued => thread[t].until <= thread[t].end + Longest

BudgetInv == FetchTypeOK /\ (\A t \in Thread : InBudget(t)) /\ BudgetHolds

LEMMA BudgetStep ==
  ASSUME BudgetInv, FetchTypeOK', now' = now, NEW t \in Thread, InBudget(t)',
         thread'[t].at # "idle" /\ ~thread'[t].queued =>
           now <= thread'[t].end \/ (thread'[t].at \in {"request", "body"} /\ now <= thread'[t].end + Longest),
         \A u \in Thread \ {t} : thread'[u] = thread[u]
  PROVE  BudgetInv'
<1>1. \A u \in Thread : InBudget(u)'
  BY DEF BudgetInv, InBudget, InStage, InRequest
<1>2. BudgetHolds'
  BY DEF BudgetInv, BudgetHolds, Busy, InStage, InRequest
<1> QED BY <1>1, <1>2 DEF BudgetInv

LEMMA BudgetNext ==
  BudgetInv /\ [FetchNext]_fetchVars => BudgetInv'
<1> SUFFICES ASSUME BudgetInv, [FetchNext]_fetchVars PROVE BudgetInv'
  OBVIOUS
<1>0. /\ FetchTypeOK
      /\ \A t \in Thread : thread[t].at \notin {"idle", "request", "body"} /\ ~thread[t].queued
                          => now <= thread[t].end
  BY DEF BudgetInv, BudgetHolds, Busy, InStage, InRequest
<1>1. now \in Nat /\ Budget \in Nat /\ Longest \in Nat
      /\ \A t \in Thread : thread[t].end \in Int /\ thread[t].until \in Int
  BY <1>0, HorizonType, LongestType, FetchAssumption DEF FetchTypeOK, Call
<1>2. ASSUME NEW t \in Thread, Start(t) PROVE BudgetInv'
  <2>1. now' = now /\ FetchTypeOK' /\ thread'[t].at = "lock" /\ thread'[t].end = now + Budget
        /\ \A u \in Thread \ {t} : thread'[u] = thread[u]
    BY <1>0, <1>2, FetchStart DEF Start
  <2>2. InBudget(t)' /\ now <= thread'[t].end
    BY <1>1, <2>1 DEF InBudget, InStage, InRequest
  <2> QED BY <2>1, <2>2, BudgetStep
<1>3. ASSUME NEW t \in Thread, LoadLedger(t) PROVE BudgetInv'
  <2>1. now' = now /\ FetchTypeOK' /\ \A u \in Thread \ {t} : thread'[u] = thread[u]
    BY <1>0, <1>3, FetchLoad DEF LoadLedger
  <2>2. CASE thread'[t] = Idle /\ Idle.at = "idle"
    <3>1. InBudget(t)'
      BY <2>2 DEF InBudget, InStage, InRequest
    <3> QED BY <2>1, <2>2, <3>1, BudgetStep
  <2>3. CASE /\ thread'[t].at = "nap" /\ thread'[t].end = thread[t].end
             /\ thread'[t].queued = thread[t].queued
             /\ thread'[t].until <= now \/ thread'[t].until <= thread[t].end
    <3>1. InBudget(t)'
      BY <2>1, <2>3 DEF InBudget, InStage, InRequest
    <3>2. thread[t].at \notin {"idle", "request", "body"}
      BY <1>3 DEF LoadLedger, InStage
    <3> QED BY <1>0, <2>1, <2>3, <3>1, <3>2, BudgetStep
  <2>4. \/ thread'[t] = Idle /\ Idle.at = "idle"
        \/ \E wait \in Nat : /\ thread'[t].at = "nap" /\ thread'[t].until = now + wait
                             /\ thread'[t].end = thread[t].end /\ thread'[t].queued = thread[t].queued
                             /\ wait = 0 \/ now + wait <= thread[t].end
    BY <1>0, <1>3, FetchLoad
  <2> QED BY <1>1, <2>2, <2>3, <2>4
<1>4. ASSUME NEW t \in Thread, Truncate(t) PROVE BudgetInv'
  <2>1. /\ now' = now /\ FetchTypeOK' /\ thread'[t].at = "write" /\ thread'[t].end = thread[t].end
        /\ thread'[t].queued = thread[t].queued
        /\ \A u \in Thread \ {t} : thread'[u] = thread[u]
    BY <1>0, <1>4, FetchTruncate DEF Truncate
  <2>2. InBudget(t)'
    BY <2>1 DEF InBudget, InStage, InRequest
  <2>3. thread[t].at \notin {"idle", "request", "body"}
    BY <1>4 DEF Truncate, Take, InStage
  <2> QED BY <1>0, <2>1, <2>2, <2>3, BudgetStep
<1>5. ASSUME NEW t \in Thread, Granted(t), now' = now, FetchTypeOK', thread[t].at \in {"nap", "write"}
      PROVE  BudgetInv'
  <2>1. /\ thread'[t].at = "request" /\ thread'[t].end = thread[t].end
        /\ thread'[t].queued = thread[t].queued /\ thread'[t].until <= now + Longest
        /\ \A u \in Thread \ {t} : thread'[u] = thread[u]
    BY <1>0, <1>5, GrantEffect
  <2>2. thread'[t].until \in Int
    BY <1>5 DEF FetchTypeOK
  <2>3. ~thread[t].queued => now <= thread[t].end
    BY <1>0, <1>5
  <2>4. InBudget(t)'
    BY <1>1, <2>1, <2>2, <2>3 DEF InBudget, InStage, InRequest
  <2> QED BY <1>5, <2>1, <2>3, <2>4, BudgetStep
<1>6. ASSUME NEW t \in Thread, Write(t) PROVE BudgetInv'
  BY <1>0, <1>5, <1>6, FetchWrite DEF Write, InStage
<1>7. ASSUME NEW t \in Thread, SaveFails(t) PROVE BudgetInv'
  <2>1. thread[t].at \in {"nap", "write"}
    BY <1>7 DEF SaveFails, Take, InStage
  <2> QED BY <1>0, <1>5, <1>7, <2>1, FetchSaveFails DEF SaveFails
<1>8. ASSUME NEW t \in Thread, Answered(t) PROVE BudgetInv'
  <2>1. /\ now' = now /\ FetchTypeOK' /\ thread'[t].at = "idle"
        /\ \A u \in Thread \ {t} : thread'[u] = thread[u]
    BY <1>0, <1>8, FetchAnswered DEF Answered
  <2>2. InBudget(t)'
    BY <2>1 DEF InBudget, InStage, InRequest
  <2> QED BY <2>1, <2>2, BudgetStep
<1>14. ASSUME NEW t \in Thread, Chunk(t) PROVE BudgetInv'
  <2>1. /\ now' = now /\ FetchTypeOK' /\ now < thread[t].end
        /\ thread'[t].at = "body" /\ thread'[t].end = thread[t].end
        /\ thread'[t].queued = thread[t].queued /\ thread'[t].until <= now + Longest
        /\ \A u \in Thread \ {t} : thread'[u] = thread[u]
    BY <1>0, <1>14, FetchChunk DEF Chunk
  <2>2. thread'[t].until \in Int
    BY <2>1 DEF FetchTypeOK
  <2>3. InBudget(t)' /\ now <= thread'[t].end
    BY <1>1, <2>1, <2>2 DEF InBudget, InStage, InRequest
  <2> QED BY <2>1, <2>3, BudgetStep
<1>9. ASSUME NEW t \in Thread, NEW pause \in RetryAfter, Throttled(t, pause) PROVE BudgetInv'
  <2>1. /\ now' = now /\ FetchTypeOK' /\ \A u \in Thread \ {t} : thread'[u] = thread[u]
        /\ \/ thread'[t].at = "idle"
           \/ /\ thread'[t].at = "pause" /\ thread'[t].until <= thread'[t].end /\ now <= thread[t].end
              /\ thread'[t].end = thread[t].end /\ thread'[t].queued = thread[t].queued
    BY <1>0, <1>9, FetchThrottled DEF Throttled
  <2>2. InBudget(t)'
    BY <2>1 DEF InBudget, InStage, InRequest
  <2> QED BY <2>1, <2>2, BudgetStep
<1>10. ASSUME NEW t \in Thread, Retry(t) PROVE BudgetInv'
  <2>1. /\ now' = now /\ FetchTypeOK' /\ \A u \in Thread \ {t} : thread'[u] = thread[u]
        /\ \/ thread'[t].at = "idle"
           \/ /\ thread'[t].at = "lock" /\ thread'[t].end = thread[t].end
              /\ thread'[t].queued = thread[t].queued
    BY <1>0, <1>10, FetchRetry DEF Retry
  <2>2. InBudget(t)'
    BY <2>1 DEF InBudget, InStage, InRequest
  <2>3. thread[t].at \notin {"idle", "request", "body"}
    BY <1>10 DEF Retry, InStage
  <2> QED BY <1>0, <2>1, <2>2, <2>3, BudgetStep
<1>11. ASSUME NEW p \in Process, KillProcess(p) PROVE BudgetInv'
  <2>1. /\ now' = now /\ FetchTypeOK' /\ Idle.at = "idle"
        /\ \A u \in Thread : thread'[u] = IF ProcessOf[u] = p THEN Idle ELSE thread[u]
    BY <1>0, <1>11, FetchKill DEF KillProcess
  <2>2. \A u \in Thread : InBudget(u)'
    BY <2>1 DEF BudgetInv, InBudget, InStage, InRequest
  <2>3. BudgetHolds'
    BY <2>1 DEF BudgetInv, BudgetHolds, Busy, InStage, InRequest
  <2> QED BY <2>1, <2>2, <2>3 DEF BudgetInv
<1>12. CASE Tick
  <2>1. /\ FetchTypeOK' /\ now' = now + 1
        /\ \A u \in Thread : /\ thread'[u].at = thread[u].at /\ thread'[u].end = thread[u].end
                             /\ thread'[u].until = thread[u].until
                             /\ thread'[u].queued = (thread[u].queued \/ Queued(u))
    BY <1>0, <1>12, FetchTick DEF Tick
  <2>2. ASSUME NEW u \in Thread PROVE InBudget(u)'
    <3>1. InBudget(u) /\ thread'[u].at = thread[u].at /\ thread'[u].end = thread[u].end
          /\ thread'[u].until = thread[u].until /\ (~thread'[u].queued => ~thread[u].queued)
      BY <2>1 DEF BudgetInv
    <3>2. now \in Int /\ thread[u].end \in Int /\ thread[u].until \in Int /\ Longest \in Int
      BY <1>1
    <3> QED BY <2>1, <3>1, <3>2 DEF InBudget, InStage, InRequest
  <2>3. ASSUME NEW u \in Thread, thread'[u].at # "idle", ~thread'[u].queued
        PROVE  \/ now' <= thread'[u].end
               \/ thread'[u].at \in {"request", "body"} /\ now' <= thread'[u].end + Longest
    <3>1. thread[u].at # "idle" /\ ~thread[u].queued /\ ~Queued(u) /\ Waits(u) /\ InBudget(u)
      BY <1>12, <2>1, <2>3 DEF Tick, BudgetInv
    <3>2. CASE thread[u].at \in {"nap", "pause"} /\ now < thread[u].until
      <4>1. thread[u].until <= thread[u].end
        BY <1>1, <3>1, <3>2 DEF InBudget, InStage
      <4> QED BY <1>1, <2>1, <3>2, <4>1
    <3>3. CASE thread[u].at \in {"request", "body"} /\ now < thread[u].until
      <4>1. thread[u].until <= thread[u].end + Longest
        BY <3>1, <3>3 DEF InBudget, InRequest
      <4> QED BY <1>1, <2>1, <3>3, <4>1
    <3> QED BY <3>1, <3>2, <3>3 DEF Waits, InStage
  <2>4. BudgetHolds'
    BY <2>3 DEF BudgetHolds, Busy, InStage, InRequest
  <2> QED BY <2>1, <2>2, <2>4 DEF BudgetInv
<1>13. CASE UNCHANGED fetchVars
  BY <1>13 DEF fetchVars, BudgetInv, FetchTypeOK, BudgetHolds, InBudget, Busy, InStage, InRequest
<1> QED BY <1>2, <1>3, <1>4, <1>6, <1>7, <1>8, <1>9, <1>10, <1>11, <1>12, <1>13,
            <1>14 DEF FetchNext, Acts

LEMMA FetchInitTyped == FetchInit => BudgetInv
<1> SUFFICES ASSUME FetchInit PROVE BudgetInv
  OBVIOUS
<1>1. /\ 0 \in Times /\ 0 \in 0..MaxFetches /\ 0 \in 0..MaxKills /\ 0 \in 0..MaxRetries
      /\ 0 \in 0..SocketTimeout
  BY HorizonType, FetchAssumption DEF Times
<1>2. Idle \in Call /\ Idle.at = "idle" /\ Absent \in File
  BY <1>1, EmptySeq DEF Idle, Call, Stages, Absent, File, Times
<1>3. \A t \in Thread : thread[t] = Idle
  BY DEF FetchInit
<1>4. FetchTypeOK
  <2>1. grants \in Seq(Times) /\ times \in [Process -> Seq(Times)]
    BY EmptySeq DEF FetchInit
  <2>2. thread \in [Thread -> Call] /\ limiterLock \in [Process -> Thread \cup {Nobody}]
    BY <1>2 DEF FetchInit
  <2> QED BY <1>1, <1>2, <2>1, <2>2 DEF FetchInit, FetchTypeOK, Call, Times
<1>5. \A t \in Thread : InBudget(t)
  BY <1>2, <1>3 DEF InBudget, InStage, InRequest
<1>6. BudgetHolds
  BY <1>2, <1>3 DEF BudgetHolds, Busy, InStage
<1> QED BY <1>4, <1>5, <1>6 DEF BudgetInv

LEMMA BudgetInvariant == FetchSpec => []BudgetInv
  BY FetchInitTyped, BudgetNext, PTL DEF FetchSpec

\* Fetcher.get, Deadline: a fetch that never queued for its process's limiter
\* pauses, takes slots and sends only within its budget, whatever the peer
\* answers, however full the window is and whoever is killed.  What can outlast
\* the budget is the one request then in flight, and that by no more than the
\* socket operations between two looks at the deadline.
THEOREM BudgetKept == FetchSpec => []BudgetHolds
<1>1. BudgetInv => BudgetHolds
  BY DEF BudgetInv
<1> QED BY BudgetInvariant, <1>1, PTL

(***************************************************************************)
(* The cap.  While nothing has damaged the ledger, one thread at a time is *)
(* between reading it and writing it, and outside that section what the    *)
(* ledger says of the last Window is what was granted in it.               *)
(***************************************************************************)
Inner(t) == thread[t].at \in {"nap", "write"}
HoldsLimiter == \A t \in Thread : Inner(t) <=> limiterLock[ProcessOf[t]] = t

OneInside == \A t, u \in Thread : Inner(t) /\ Inner(u) => t = u
Opened(s) == s = <<>> \/ s[1] > now - Window
Spaced(s) ==
  /\ Len(s) <= Limit
  /\ \A i \in 2..Len(s) : s[i] - s[i - 1] >= MinInterval

LedgerTells ==
  /\ ledger.state # "torn"
  /\ ledger.state = "absent" => grants = <<>> /\ \A p \in Process : times[p] = <<>>
  /\ ledger.state = "json" => Fresh(ledger.times) = grants

\* When the pause of the thread inside is over, the window has room.
Closing(t) ==
  LET ts == times[ProcessOf[t]] IN
  /\ Fresh(ts) = grants /\ Len(ts) <= Limit
  /\ ts # <<>> => ts[Len(ts)] + MinInterval <= thread[t].until
  /\ Len(ts) = Limit => ts[1] + Window <= thread[t].until

Saving(t) ==
  times[ProcessOf[t]] = Append(grants, now) /\ Spaced(times[ProcessOf[t]])

Undamaged ==
  /\ OneInside
  /\ Opened(grants) /\ Spaced(grants)
  /\ (\A t \in Thread : thread[t].at # "write") => LedgerTells
  /\ \A t \in Thread : (thread[t].at = "nap" => Closing(t)) /\ (thread[t].at = "write" => Saving(t))

CapInv == HoldsLimiter /\ (spoiled = "no" => Undamaged)

LEMMA FetchConstants ==
  /\ Limit \in Nat \ {0} /\ Window \in Nat \ {0} /\ MinInterval \in Nat /\ Nobody \notin Thread
  /\ \A t \in Thread : ProcessOf[t] \in Process
  BY FetchAssumption

LEMMA FetchValues ==
  ASSUME FetchTypeOK
  PROVE  /\ now \in Int /\ now - Window \in Int
         /\ grants \in Seq(Int) /\ ledger.times \in Seq(Int)
         /\ ledger.state \in {"absent", "json", "torn"}
         /\ \A p \in Process : times[p] \in Seq(Int)
         /\ \A t \in Thread : thread[t].until \in Int /\ thread[t].at \in Stages
<1>1. /\ now \in Times /\ grants \in Seq(Times) /\ ledger.times \in Seq(Times)
      /\ ledger.state \in {"absent", "json", "torn"}
      /\ \A p \in Process : times[p] \in Seq(Times)
      /\ \A t \in Thread : thread[t].until \in Nat /\ thread[t].at \in Stages
  BY DEF FetchTypeOK, File, Times
<1>2. now \in Int /\ now - Window \in Int
  BY <1>1, TimesAreIntegers, FetchConstants
<1>3. Times \subseteq Int /\ \A ts \in Seq(Times) : ts \in Seq(Int)
  BY TimesAreIntegers
<1> QED BY <1>1, <1>2, <1>3

\* A step of a thread outside the limiter's section.
LEMMA QuietStep ==
  ASSUME CapInv, NEW t \in Thread, ~Inner(t), ~Inner(t)',
         \A u \in Thread \ {t} : thread'[u] = thread[u],
         UNCHANGED <<now, ledger, limiterLock, times, grants, spoiled>>
  PROVE  CapInv'
<1>1. HoldsLimiter'
  BY DEF CapInv, HoldsLimiter, Inner
<1>2. ASSUME Undamaged PROVE Undamaged'
  <2>1. OneInside' /\ Opened(grants)' /\ Spaced(grants)'
    BY <1>2 DEF Undamaged, OneInside, Inner, Opened, Spaced
  <2>2. (\A u \in Thread : thread'[u].at # "write") => LedgerTells'
    BY <1>2 DEF Undamaged, LedgerTells, Inner, Fresh
  <2>3. ASSUME NEW u \in Thread
        PROVE  (thread'[u].at = "nap" => Closing(u)') /\ (thread'[u].at = "write" => Saving(u)')
    <3>1. CASE u = t
      BY <3>1 DEF Inner
    <3>2. CASE u # t
      BY <1>2, <3>2 DEF Undamaged, Closing, Saving, Spaced, Fresh
    <3> QED BY <3>1, <3>2
  <2> QED BY <2>1, <2>2, <2>3 DEF Undamaged
<1> QED BY <1>1, <1>2 DEF CapInv

\* A limiter that reads an undamaged ledger with nobody inside knows what was granted.
LEMMA LoadedIsGranted ==
  ASSUME FetchTypeOK, LedgerTells, NEW p \in Process
  PROVE  Loaded(p) = grants
<1>1. CASE ledger.state = "json"
  BY <1>1 DEF Loaded, LedgerTells
<1>2. CASE ledger.state = "absent"
  <2>1. times[p] = <<>> /\ grants = <<>>
    BY <1>2 DEF LedgerTells
  <2>2. Fresh(<<>>) = <<>>
    BY EmptySeq, FetchValues, RecentAll DEF Fresh
  <2> QED BY <1>2, <2>1, <2>2 DEF Loaded
<1> QED BY <1>1, <1>2, FetchValues DEF LedgerTells

LEMMA CapLoad ==
  ASSUME FetchTypeOK, CapInv, NEW t \in Thread, LoadLedger(t)
  PROVE  CapInv'
<1> DEFINE p == ProcessOf[t]
           wait == Wait(Loaded(p))
<1>1. p \in Process /\ limiterLock[p] = Nobody /\ thread[t].at = "lock" /\ now' = now /\ grants' = grants
      /\ ledger' = ledger /\ times' = [times EXCEPT ![p] = Loaded(p)]
  BY FetchConstants DEF LoadLedger, InStage
<1>2. /\ \A u \in Thread \ {t} : thread'[u] = thread[u]
      /\ \/ thread'[t].at = "idle" /\ UNCHANGED <<limiterLock, spoiled>>
         \/ /\ wait \in Nat
            /\ thread'[t].at = "nap" /\ thread'[t].until = now + wait
            /\ limiterLock' = [limiterLock EXCEPT ![p] = t]
            /\ Spoil("overlap", Overlaps(t))
  BY FetchLoad
<1>3. \A u \in Thread : ProcessOf[u] = p => ~Inner(u)
  BY <1>1, FetchConstants DEF CapInv, HoldsLimiter
<1>4. Loaded(p) \in Seq(Int)
  BY <1>1, LoadedType, TimesAreIntegers
<1>5. /\ times'[p] = Loaded(p)
      /\ \A q \in Process \ {p} : times'[q] = times[q]
  BY <1>1 DEF FetchTypeOK
<1>6. LedgerTells => Loaded(p) = grants
  BY <1>1, LoadedIsGranted
<1>7. ASSUME Undamaged, LedgerTells PROVE LedgerTells'
  BY <1>1, <1>5, <1>6, <1>7 DEF LedgerTells, Fresh
<1>8. ASSUME NEW u \in Thread, ProcessOf[u] # p, thread'[u] = thread[u], Undamaged
      PROVE  (thread'[u].at = "nap" => Closing(u)') /\ (thread'[u].at = "write" => Saving(u)')
  BY <1>1, <1>5, <1>8, FetchConstants DEF Undamaged, Closing, Saving, Spaced, Fresh
<1> HIDE DEF p, wait
<1>9. CASE thread'[t].at = "idle" /\ UNCHANGED <<limiterLock, spoiled>>
  <2>1. HoldsLimiter'
    BY <1>1, <1>2, <1>3, <1>9 DEF CapInv, HoldsLimiter, Inner, p
  <2>2. ASSUME Undamaged PROVE Undamaged'
    <3>1. OneInside' /\ Opened(grants)' /\ Spaced(grants)'
      BY <1>1, <1>2, <1>9, <2>2 DEF Undamaged, OneInside, Inner, Opened, Spaced
    <3>2. (\A u \in Thread : thread'[u].at # "write") => LedgerTells'
      BY <1>1, <1>2, <1>7, <2>2 DEF Undamaged
    <3>3. ASSUME NEW u \in Thread
          PROVE  (thread'[u].at = "nap" => Closing(u)') /\ (thread'[u].at = "write" => Saving(u)')
      BY <1>2, <1>3, <1>8, <1>9, <2>2 DEF Inner, p
    <3> QED BY <3>1, <3>2, <3>3 DEF Undamaged
  <2> QED BY <1>9, <2>1, <2>2 DEF CapInv
<1>10. CASE /\ wait \in Nat
            /\ thread'[t].at = "nap" /\ thread'[t].until = now + wait
            /\ limiterLock' = [limiterLock EXCEPT ![p] = t]
            /\ Spoil("overlap", Overlaps(t))
  <2>1. HoldsLimiter'
    <3>1. limiterLock'[p] = t /\ \A q \in Process \ {p} : limiterLock'[q] = limiterLock[q]
      BY <1>1, <1>10 DEF FetchTypeOK
    <3> QED BY <1>2, <1>3, <1>10, <3>1, FetchConstants DEF CapInv, HoldsLimiter, Inner, p
  <2>2. ASSUME spoiled' = "no" PROVE Undamaged'
    <3>1. Undamaged /\ ~Overlaps(t)
      BY <1>10, <2>2 DEF Spoil, CapInv
    <3>2. \A u \in Thread : ~Inner(u)
      BY <1>3, <3>1 DEF Overlaps, Inner, p
    <3>3. LedgerTells
      BY <3>1, <3>2 DEF Undamaged, Inner
    <3>4. Loaded(p) = grants
      BY <1>6, <3>3
    <3>5. OneInside' /\ Opened(grants)' /\ Spaced(grants)'
      BY <1>1, <1>2, <3>1, <3>2 DEF Undamaged, OneInside, Inner, Opened, Spaced
    <3>6. LedgerTells'
      BY <1>7, <3>1, <3>3
    <3>7. Closing(t)'
      <4> DEFINE ts == Loaded(p)
      <4>1. Fresh(ts) = grants
        BY <1>4, <3>1, <3>4, FetchValues, RecentAll DEF Undamaged, Opened, Fresh
      <4>2. ts \in Seq(Int) /\ Len(ts) <= Limit
        BY <1>4, <3>1, <3>4 DEF Undamaged, Spaced
      <4>3. Len(ts) \in Nat /\ now \in Int
        BY <4>2, LenProperties, FetchValues
      <4>4. /\ wait \in Nat
            /\ ts # <<>> => wait >= MinInterval - (now - ts[Len(ts)])
            /\ Len(ts) >= Limit => wait >= Window - (now - ts[1])
        BY <4>2, <4>3, WaitType DEF wait
      <4>5. times'[ProcessOf[t]] = ts
        BY <1>5 DEF p
      <4> HIDE DEF ts
      <4>6. ts # <<>> => ts[Len(ts)] + MinInterval <= now + wait
        <5>1. ts # <<>> => Len(ts) \in 1..Len(ts)
          BY <4>2, <4>3, EmptySeq
        <5>2. ts # <<>> => ts[Len(ts)] \in Int
          BY <4>2, <5>1, ElementOfSeq
        <5> QED BY <4>3, <4>4, <5>2, FetchConstants
      <4>7. Len(ts) = Limit => ts[1] + Window <= now + wait
        <5>1. Len(ts) = Limit => 1 \in 1..Len(ts) /\ Len(ts) >= Limit
          BY <4>3, FetchConstants
        <5>2. Len(ts) = Limit => ts[1] \in Int
          BY <4>2, <5>1, ElementOfSeq
        <5> QED BY <4>3, <4>4, <5>1, <5>2, FetchConstants
      <4> QED BY <1>1, <1>10, <4>1, <4>2, <4>5, <4>6, <4>7 DEF Closing, Fresh
    <3>8. ASSUME NEW u \in Thread
          PROVE  (thread'[u].at = "nap" => Closing(u)') /\ (thread'[u].at = "write" => Saving(u)')
      BY <1>2, <1>10, <3>2, <3>7, <3>8 DEF Inner
    <3> QED BY <3>5, <3>6, <3>8 DEF Undamaged
  <2> QED BY <2>1, <2>2 DEF CapInv
<1> QED BY <1>2, <1>9, <1>10

\* The pause over, what is left of the window has room for one more slot.
LEMMA RoomForOne ==
  ASSUME FetchTypeOK, NEW t \in Thread, Closing(t), Opened(grants), Spaced(grants), thread[t].until <= now
  PROVE  Spaced(Append(grants, now))
<1> DEFINE ts == times[ProcessOf[t]]
           cutoff == now - Window
           a == Aged(ts, cutoff)
           s == Append(grants, now)
<1>1. ts \in Seq(Int) /\ now \in Int /\ cutoff \in Int /\ grants \in Seq(Int) /\ thread[t].until \in Int
  BY FetchValues, FetchConstants
<1>2. /\ a \in 0..Len(ts) /\ Len(grants) = Len(ts) - a
      /\ \A i \in 1..Len(ts) - a : grants[i] = ts[i + a]
      /\ a < Len(ts) => ts[a + 1] > cutoff
  BY <1>1, RecentIs DEF Closing, Fresh
<1>3. /\ Len(ts) <= Limit
      /\ ts # <<>> => ts[Len(ts)] + MinInterval <= thread[t].until
      /\ Len(ts) = Limit => ts[1] + Window <= thread[t].until
  BY DEF Closing
<1>4. Len(ts) \in Nat /\ Len(grants) \in Nat /\ (\A i \in 1..Len(ts) : ts[i] \in Int)
      /\ \A i \in 1..Len(grants) : grants[i] \in Int
  BY <1>1, LenProperties, ElementOfSeq
<1>5. /\ Len(s) = Len(grants) + 1 /\ (\A i \in 1..Len(grants) : s[i] = grants[i])
      /\ s[Len(grants) + 1] = now
  BY <1>1, AppendProperties
<1>6. Len(grants) <= Limit /\ \A i \in 2..Len(grants) : grants[i] - grants[i - 1] >= MinInterval
  BY DEF Spaced
<1> HIDE DEF ts, a, s
<1>7. Len(s) <= Limit
  <2>1. CASE Len(ts) < Limit
    BY <1>2, <1>4, <1>5, <2>1, FetchConstants
  <2>2. CASE Len(ts) = Limit
    <3>1. 1 \in 1..Len(ts) /\ ts[1] \in Int
      BY <1>4, <2>2, FetchConstants
    <3>2. ts[1] <= cutoff
      BY <1>1, <1>3, <2>2, <3>1, FetchConstants
    <3>3. a # 0
      BY <1>1, <1>2, <3>1, <3>2
    <3> QED BY <1>2, <1>4, <1>5, <2>2, <3>3, FetchConstants
  <2> QED BY <1>3, <1>4, <2>1, <2>2, FetchConstants
<1>8. \A i \in 2..Len(s) : s[i] - s[i - 1] >= MinInterval
  <2> SUFFICES ASSUME NEW i \in 2..Len(s) PROVE s[i] - s[i - 1] >= MinInterval
    OBVIOUS
  <2>1. CASE i <= Len(grants)
    <3>1. i \in 1..Len(grants) /\ i - 1 \in 1..Len(grants) /\ i \in 2..Len(grants)
      BY <1>4, <2>1
    <3> QED BY <1>5, <1>6, <3>1
  <2>2. CASE i = Len(grants) + 1
    <3>1. Len(grants) \in 1..Len(grants) /\ i - 1 = Len(grants) /\ Len(grants) >= 1
      BY <1>4, <1>5, <2>2
    <3>2. s[i] = now /\ s[i - 1] = grants[Len(grants)]
      BY <1>5, <2>2, <3>1
    <3>3. Len(grants) + a = Len(ts) /\ Len(grants) \in 1..Len(ts) - a /\ Len(ts) \in 1..Len(ts)
      BY <1>2, <1>4, <3>1
    <3>4. grants[Len(grants)] = ts[Len(ts)]
      BY <1>2, <3>3
    <3>5. ts # <<>>
      BY <1>4, <3>3, EmptySeq
    <3>6. ts[Len(ts)] \in Int
      BY <1>4, <3>3
    <3> QED BY <1>1, <1>3, <3>2, <3>4, <3>5, <3>6, FetchConstants
  <2> QED BY <1>4, <1>5, <2>1, <2>2
<1> QED BY <1>7, <1>8 DEF Spaced, s

LEMMA CapTruncate ==
  ASSUME FetchTypeOK, CapInv, NEW t \in Thread, Truncate(t)
  PROVE  CapInv'
<1> DEFINE p == ProcessOf[t]
<1>1. /\ p \in Process /\ thread[t].at = "nap" /\ now >= thread[t].until
      /\ UNCHANGED <<now, limiterLock, grants, spoiled>>
      /\ times' = [times EXCEPT ![p] = Append(Fresh(times[p]), now)]
  BY FetchConstants, TakeType DEF Truncate, Take, InStage
<1>2. thread'[t].at = "write" /\ \A u \in Thread \ {t} : thread'[u] = thread[u]
  BY FetchTruncate
<1>3. HoldsLimiter'
  BY <1>1, <1>2 DEF CapInv, HoldsLimiter, Inner
<1>4. ASSUME Undamaged PROVE Undamaged'
  <2>1. OneInside' /\ Opened(grants)' /\ Spaced(grants)'
    BY <1>1, <1>2, <1>4 DEF Undamaged, OneInside, Inner, Opened, Spaced
  <2>2. Closing(t) /\ Opened(grants) /\ Spaced(grants)
    BY <1>1, <1>4 DEF Undamaged
  <2>3. thread[t].until <= now
    BY <1>1, FetchValues
  <2>4. Spaced(Append(grants, now))
    BY <2>2, <2>3, RoomForOne
  <2>5. times'[p] = Append(grants, now)
    BY <1>1, <2>2 DEF Closing, FetchTypeOK
  <2>6. Saving(t)'
    BY <1>1, <2>4, <2>5 DEF Saving, Spaced
  <2>7. \A u \in Thread \ {t} : ~Inner(u)
    BY <1>1, <1>4 DEF Undamaged, OneInside, Inner
  <2>8. ASSUME NEW u \in Thread
        PROVE  (thread'[u].at = "nap" => Closing(u)') /\ (thread'[u].at = "write" => Saving(u)')
    BY <1>2, <2>6, <2>7 DEF Inner
  <2> QED BY <1>2, <2>1, <2>8 DEF Undamaged
<1> QED BY <1>1, <1>3, <1>4 DEF CapInv

LEMMA HoldsAfterGrant ==
  ASSUME FetchTypeOK, HoldsLimiter, NEW t \in Thread, Inner(t), Granted(t)
  PROVE  HoldsLimiter'
<1> DEFINE p == ProcessOf[t]
<1>1. p \in Process /\ limiterLock[p] = t /\ limiterLock' = [limiterLock EXCEPT ![p] = Nobody]
  BY FetchConstants DEF HoldsLimiter, Granted
<1>2. limiterLock'[p] = Nobody /\ \A q \in Process \ {p} : limiterLock'[q] = limiterLock[q]
  BY <1>1 DEF FetchTypeOK
<1>3. thread'[t].at = "request" /\ \A u \in Thread \ {t} : thread'[u] = thread[u]
  BY GrantEffect
<1> QED BY <1>1, <1>2, <1>3, FetchConstants DEF HoldsLimiter, Inner

LEMMA CapWrite ==
  ASSUME FetchTypeOK, CapInv, NEW t \in Thread, Write(t)
  PROVE  CapInv'
<1> DEFINE p == ProcessOf[t]
<1>1. /\ p \in Process /\ thread[t].at = "write" /\ Granted(t) /\ Inner(t)
      /\ UNCHANGED <<now, times, spoiled>>
      /\ ledger' = Json(times[p]) /\ grants' = Append(grants, now)
  BY FetchConstants DEF Write, Granted, InStage, Inner
<1>2. thread'[t].at = "request" /\ \A u \in Thread \ {t} : thread'[u] = thread[u]
  BY <1>1, GrantEffect
<1>3. HoldsLimiter'
  BY <1>1, HoldsAfterGrant DEF CapInv
<1>4. ASSUME Undamaged PROVE Undamaged'
  <2> DEFINE s == Append(grants, now)
  <2>1. times[p] = s /\ Spaced(s) /\ Opened(grants)
    BY <1>1, <1>4 DEF Undamaged, Saving
  <2>2. grants \in Seq(Int) /\ now \in Int /\ now - Window \in Int
    BY FetchValues
  <2>3. s \in Seq(Int)
    BY <2>2, AppendProperties
  <2>4. s[1] > now - Window
    <3>1. CASE grants = <<>>
      <4>1. s[1] = now
        BY <2>2, <3>1, AppendProperties, EmptySeq
      <4> QED BY <2>2, <4>1, FetchConstants
    <3>2. CASE grants # <<>>
      <4>1. 1 \in 1..Len(grants)
        BY <2>2, <3>2, EmptySeq, LenProperties
      <4>2. s[1] = grants[1]
        BY <2>2, <4>1, AppendProperties
      <4> QED BY <2>1, <3>2, <4>2 DEF Opened
    <3> QED BY <3>1, <3>2
  <2>5. Recent(s, now - Window) = s
    BY <2>2, <2>3, <2>4, RecentAll
  <2> HIDE DEF s
  <2>6. LedgerTells'
    BY <1>1, <2>1, <2>5 DEF LedgerTells, Json, Fresh, s
  <2>7. Opened(grants)' /\ Spaced(grants)'
    BY <1>1, <2>1, <2>4 DEF Opened, Spaced, s
  <2>8. \A u \in Thread \ {t} : ~Inner(u)
    BY <1>1, <1>4 DEF Undamaged, OneInside
  <2>9. OneInside'
    BY <1>2, <2>8 DEF OneInside, Inner
  <2>10. ASSUME NEW u \in Thread
         PROVE  (thread'[u].at = "nap" => Closing(u)') /\ (thread'[u].at = "write" => Saving(u)')
    BY <1>2, <2>8 DEF Inner
  <2> QED BY <2>6, <2>7, <2>9, <2>10 DEF Undamaged
<1> QED BY <1>1, <1>3, <1>4 DEF CapInv

LEMMA CapKill ==
  ASSUME FetchTypeOK, CapInv, NEW p \in Process, KillProcess(p)
  PROVE  CapInv'
<1>1. /\ UNCHANGED <<now, ledger, grants>>
      /\ limiterLock' = [limiterLock EXCEPT ![p] = Nobody] /\ times' = [times EXCEPT ![p] = <<>>]
      /\ Spoil("kill", \E t \in Thread : ProcessOf[t] = p /\ InStage(t, "write"))
  BY DEF KillProcess
<1>2. Idle.at = "idle" /\ \A u \in Thread : thread'[u] = IF ProcessOf[u] = p THEN Idle ELSE thread[u]
  BY FetchKill
<1>3. /\ limiterLock'[p] = Nobody /\ \A q \in Process \ {p} : limiterLock'[q] = limiterLock[q]
      /\ times'[p] = <<>> /\ \A q \in Process \ {p} : times'[q] = times[q]
  BY <1>1 DEF FetchTypeOK
<1>4. HoldsLimiter'
  BY <1>2, <1>3, FetchConstants DEF CapInv, HoldsLimiter, Inner
<1>5. ASSUME spoiled' = "no" PROVE Undamaged'
  <2>1. Undamaged /\ \A t \in Thread : ProcessOf[t] = p => thread[t].at # "write"
    BY <1>1, <1>5 DEF Spoil, CapInv, InStage
  <2>2. OneInside' /\ Opened(grants)' /\ Spaced(grants)'
    BY <1>1, <1>2, <2>1 DEF Undamaged, OneInside, Inner, Opened, Spaced
  <2>3. ASSUME \A u \in Thread : thread'[u].at # "write" PROVE LedgerTells'
    <3>1. LedgerTells
      BY <1>2, <2>1, <2>3 DEF Undamaged
    <3> QED BY <1>1, <1>3, <3>1 DEF LedgerTells, Fresh
  <2>4. ASSUME NEW u \in Thread
        PROVE  (thread'[u].at = "nap" => Closing(u)') /\ (thread'[u].at = "write" => Saving(u)')
    <3>1. CASE ProcessOf[u] = p
      BY <1>2, <3>1
    <3>2. CASE ProcessOf[u] # p
      <4>1. thread'[u] = thread[u] /\ times'[ProcessOf[u]] = times[ProcessOf[u]]
        BY <1>2, <1>3, <3>2, FetchConstants
      <4> QED BY <1>1, <2>1, <4>1 DEF Undamaged, Closing, Saving, Spaced, Fresh
    <3> QED BY <3>1, <3>2
  <2> QED BY <2>2, <2>3, <2>4 DEF Undamaged
<1> QED BY <1>4, <1>5 DEF CapInv

\* A suffix of a paced sequence is paced.
LEMMA RecentSpaced ==
  ASSUME NEW s \in Seq(Int), NEW cutoff \in Int, Spaced(s)
  PROVE  Spaced(Recent(s, cutoff))
<1> DEFINE r == Recent(s, cutoff)
           a == Aged(s, cutoff)
<1>1. /\ a \in 0..Len(s) /\ Len(r) = Len(s) - a
      /\ \A i \in 1..Len(s) - a : r[i] = s[i + a]
  BY RecentIs
<1>2. Len(s) \in Nat
  BY LenProperties
<1> HIDE DEF r, a
<1>3. Len(r) <= Limit
  BY <1>1, <1>2, FetchConstants DEF Spaced
<1>4. ASSUME NEW i \in 2..Len(r) PROVE r[i] - r[i - 1] >= MinInterval
  <2>1. i \in 1..Len(s) - a /\ i - 1 \in 1..Len(s) - a /\ (i - 1) + a = (i + a) - 1 /\ i + a \in 2..Len(s)
    BY <1>1, <1>2
  <2>2. r[i] = s[i + a] /\ r[i - 1] = s[(i + a) - 1]
    BY <1>1, <2>1
  <2> QED BY <2>1, <2>2 DEF Spaced
<1> QED BY <1>3, <1>4 DEF Spaced, r

LEMMA CapTick ==
  ASSUME FetchTypeOK, CapInv, Tick
  PROVE  CapInv'
<1>1. /\ now' = now + 1 /\ UNCHANGED <<ledger, limiterLock, times, spoiled>>
      /\ grants' = Recent(grants, now' - Window)
      /\ \A u \in Thread : thread[u].at # "write"
  BY DEF Tick, Waits, InStage, Queued
<1>2. \A u \in Thread : thread'[u].at = thread[u].at /\ thread'[u].until = thread[u].until
  BY FetchTick
<1>3. HoldsLimiter'
  BY <1>1, <1>2 DEF CapInv, HoldsLimiter, Inner
<1>4. ASSUME Undamaged PROVE Undamaged'
  <2> DEFINE c == now - Window
             d == now' - Window
  <2>1. /\ c \in Int /\ d \in Int /\ c <= d /\ grants \in Seq(Int) /\ ledger.times \in Seq(Int)
        /\ \A p \in Process : times[p] \in Seq(Int)
    BY <1>1, FetchValues, FetchConstants
  <2>2. \A ts \in Seq(Int) : Fresh(ts) = Recent(ts, c) /\ Fresh(ts)' = Recent(ts, d)
    BY <1>1 DEF Fresh
  <2>3. \A ts \in Seq(Int) : Fresh(ts) = grants => Recent(ts, d) = grants'
    <3> SUFFICES ASSUME NEW ts \in Seq(Int), Fresh(ts) = grants PROVE Recent(ts, d) = grants'
      OBVIOUS
    <3>1. Recent(Recent(ts, c), d) = Recent(ts, d)
      BY <2>1, RecentTwice
    <3> QED BY <1>1, <2>2, <3>1
  <2>4. OneInside'
    BY <1>2, <1>4 DEF Undamaged, OneInside, Inner
  <2>5. Opened(grants)'
    BY <1>1, <2>1, RecentOpens DEF Opened
  <2>6. Spaced(grants)'
    <3>1. Spaced(Recent(grants, d))
      BY <1>4, <2>1, RecentSpaced DEF Undamaged
    <3> QED BY <1>1, <3>1 DEF Spaced
  <2>7. LedgerTells'
    <3>1. LedgerTells
      BY <1>1, <1>4 DEF Undamaged
    <3>2. ledger.state = "json" => Recent(ledger.times, d) = grants'
      BY <2>1, <2>3, <3>1 DEF LedgerTells
    <3>3. grants = <<>> => grants' = <<>>
      BY <1>1, <2>1, RecentAll
    <3> QED BY <1>1, <3>1, <3>2, <3>3 DEF LedgerTells, Fresh
  <2>8. ASSUME NEW u \in Thread
        PROVE  (thread'[u].at = "nap" => Closing(u)') /\ (thread'[u].at = "write" => Saving(u)')
    <3>1. thread[u].at = "nap" => Closing(u)
      BY <1>4 DEF Undamaged
    <3>2. ASSUME Closing(u) PROVE Closing(u)'
      <4>1. times[ProcessOf[u]] \in Seq(Int) /\ Fresh(times[ProcessOf[u]]) = grants
        BY <2>1, <3>2, FetchConstants DEF Closing
      <4>2. Recent(times[ProcessOf[u]], d) = grants'
        BY <2>3, <4>1
      <4> QED BY <1>1, <1>2, <3>2, <4>2 DEF Closing, Fresh
    <3> QED BY <1>1, <1>2, <3>1, <3>2
  <2> QED BY <2>4, <2>5, <2>6, <2>7, <2>8 DEF Undamaged
<1> QED BY <1>1, <1>3, <1>4 DEF CapInv

LEMMA CapNext ==
  FetchTypeOK /\ CapInv /\ [FetchNext]_fetchVars => CapInv'
<1> SUFFICES ASSUME FetchTypeOK, CapInv, [FetchNext]_fetchVars PROVE CapInv'
  OBVIOUS
<1>1. ASSUME NEW t \in Thread, Start(t) PROVE CapInv'
  BY <1>1, FetchStart, QuietStep DEF Start, Inner, InStage
<1>2. ASSUME NEW t \in Thread, LoadLedger(t) PROVE CapInv'
  BY <1>2, CapLoad
<1>3. ASSUME NEW t \in Thread, Truncate(t) PROVE CapInv'
  BY <1>3, CapTruncate
<1>4. ASSUME NEW t \in Thread, Write(t) PROVE CapInv'
  BY <1>4, CapWrite
<1>5. ASSUME NEW t \in Thread, SaveFails(t) PROVE CapInv'
  <2>1. Inner(t) /\ Granted(t) /\ spoiled' # "no"
    BY <1>5, FetchSaveFails DEF SaveFails, Take, Inner, InStage
  <2> QED BY <2>1, HoldsAfterGrant DEF CapInv
<1>6. ASSUME NEW t \in Thread, Answered(t) PROVE CapInv'
  BY <1>6, FetchAnswered, QuietStep DEF Answered, Inner, InRequest
<1>12. ASSUME NEW t \in Thread, Chunk(t) PROVE CapInv'
  <2>1. /\ thread'[t].at = "body" /\ (\A u \in Thread \ {t} : thread'[u] = thread[u])
        /\ UNCHANGED <<now, ledger, limiterLock, times, grants, spoiled>>
        /\ thread[t].at \in {"request", "body"}
    BY <1>12, FetchChunk DEF Chunk, InRequest
  <2> QED BY <2>1, QuietStep DEF Inner
<1>7. ASSUME NEW t \in Thread, NEW pause \in RetryAfter, Throttled(t, pause) PROVE CapInv'
  <2>1. /\ thread'[t].at \in {"idle", "pause"} /\ (\A u \in Thread \ {t} : thread'[u] = thread[u])
        /\ UNCHANGED <<now, ledger, limiterLock, times, grants, spoiled>> /\ thread[t].at = "request"
    BY <1>7, FetchThrottled DEF Throttled, InStage
  <2> QED BY <2>1, QuietStep DEF Inner
<1>8. ASSUME NEW t \in Thread, Retry(t) PROVE CapInv'
  <2>1. /\ thread'[t].at \in {"idle", "lock"} /\ (\A u \in Thread \ {t} : thread'[u] = thread[u])
        /\ UNCHANGED <<now, ledger, limiterLock, times, grants, spoiled>> /\ thread[t].at = "pause"
    BY <1>8, FetchRetry DEF Retry, InStage
  <2> QED BY <2>1, QuietStep DEF Inner
<1>9. ASSUME NEW p \in Process, KillProcess(p) PROVE CapInv'
  BY <1>9, CapKill
<1>10. CASE Tick
  BY <1>10, CapTick
<1>11. CASE UNCHANGED fetchVars
  BY <1>11 DEF fetchVars, CapInv, HoldsLimiter, Inner, Undamaged, OneInside, Opened, Spaced, LedgerTells,
                Closing, Saving, Fresh
<1> QED BY <1>1, <1>2, <1>3, <1>4, <1>5, <1>6, <1>7, <1>8, <1>9, <1>10, <1>11, <1>12
    DEF FetchNext, Acts

LEMMA CapAtStart == FetchInit => CapInv
<1> SUFFICES ASSUME FetchInit PROVE CapInv
  OBVIOUS
<1>1. \A t \in Thread : thread[t].at = "idle"
  BY DEF FetchInit, Idle
<1>2. HoldsLimiter
  BY <1>1, FetchConstants DEF HoldsLimiter, Inner, FetchInit
<1>3. Spaced(grants) /\ Opened(grants)
  BY FetchConstants, EmptySeq DEF FetchInit, Spaced, Opened
<1>4. LedgerTells
  BY DEF FetchInit, Absent, LedgerTells
<1> QED BY <1>1, <1>2, <1>3, <1>4 DEF CapInv, Undamaged, OneInside, Inner

(* As long as no two processes were inside the limiter at once, no kill hit  *)
(* a save and no save failed, no window holds more than Limit slots and no   *)
(* two slots are closer than MinInterval, over all threads and restarts.     *)
THEOREM CapKept == FetchSpec => []CapHolds
<1>1. BudgetInv => FetchTypeOK
  BY DEF BudgetInv
<1>2. CapInv => CapHolds
  BY DEF CapInv, CapHolds, Undamaged, Spaced, Paced
<1> QED BY BudgetInvariant, CapAtStart, CapNext, <1>1, <1>2, PTL DEF FetchSpec

=============================================================================
