-------------------------- MODULE DeploymentProofs --------------------------
(***************************************************************************)
(* Proofs about Deployment, for every set of processes, tasks and          *)
(* schedules, every plan, number of slots, attempts and late requests.     *)
(***************************************************************************)
EXTENDS Deployment, TLAPS

-----------------------------------------------------------------------------
(* Function activities *)

TaskStates == {"none", "queued", "started"} \union Closed
ExecSteps  == {"none", "received", "handler", "blocked", "ok", "err"}
Execs      == [attempt : Nat, step : ExecSteps, ticks : 0 .. Interval]

FunctionTypeOK ==
  /\ malformed \in SUBSET Tasks
  /\ task \in [Tasks -> TaskStates]
  /\ attempt \in [Tasks -> Nat]
  /\ exec \in [Workers -> [Tasks -> Execs]]
  /\ silence \in [Tasks -> Nat]
  /\ excused \in [Tasks -> BOOLEAN]
  /\ timeouts \in [Tasks -> Nat]

\* What a step of a deployment is to the activities.
FunctionStep ==
  \/ UNCHANGED functionVars
  \/ \E w \in Workers : Drop(w)
  \/ \E w \in Workers, t \in Tasks : Poll(w, t) \/ Activity(w, t)
  \/ \E t \in Tasks : Dispatch(t) \/ StartToClose(t) \/ HeartbeatMissed(t)
  \/ Tick

\* Processes, schedules and time touch the activities in these ways only.
LEMMA StepIsFunctionStep == [Next]_deploymentVars => FunctionStep
<1> SUFFICES ASSUME [Next]_deploymentVars PROVE FunctionStep
  OBVIOUS
<1> USE DEF FunctionStep
<1>1. CASE UNCHANGED deploymentVars
  BY <1>1 DEF deploymentVars
<1>2. ASSUME NEW w \in Workers,
             \/ WorkerStep(BuildWorker(w)) \/ WorkerStep(SdkFails(w))
             \/ WorkerStep(InitiateDrain(w)) \/ WorkerStep(Drained(w))
             \/ WorkerStep(DrainDeadline(w))
      PROVE  FunctionStep
  BY <1>2 DEF WorkerStep, BuildWorker, SdkFails, InitiateDrain, Drained, DrainDeadline, RunReturns
<1>3. ASSUME NEW w \in Workers, NEW t \in Tasks, WorkerStep(WorkerActivity(w, t))
      PROVE  FunctionStep
  BY <1>3 DEF WorkerStep, WorkerActivity
<1>4. ASSUME NEW w \in Workers,
             \/ MainConnect(w) \/ RegisterNext(w) \/ RegisterRpc(w) \/ Registered(w)
             \/ RegisterFails(w) \/ RunWorker(w) \/ Signal(w) \/ WorkloadStep(w)
      PROVE  FunctionStep
  BY <1>4 DEF MainConnect, RegisterNext, RegisterRpc, Registered, RegisterFails, RunWorker,
              Signal, WorkloadStep
<1>5. ASSUME NEW w \in Workers, MainCrash(w) PROVE FunctionStep
  BY <1>5 DEF MainCrash, Crash
<1>6. ASSUME NEW o \in Ops, OpsCall(o) PROVE FunctionStep
  BY <1>6 DEF OpsCall
<1>7. CASE LandLate
  BY <1>7 DEF LandLate
<1>8. ASSUME NEW t \in Tasks, Fire(t) \/ Elapse(StartToClose(t)) \/ Elapse(HeartbeatMissed(t))
      PROVE  FunctionStep
  BY <1>8 DEF Fire, Elapse
<1>9. CASE Elapse(Tick)
  BY <1>9 DEF Elapse
<1> QED BY <1>1, <1>2, <1>3, <1>4, <1>5, <1>6, <1>7, <1>8, <1>9 DEF Next
\* The interval of the ticker, and that it fires before the timeout unless
\* the timeout is a single tick.
LEMMA IntervalBounds ==
  /\ Interval \in Nat
  /\ HeartbeatTimeout >= 2 => Interval > 0 /\ Interval < HeartbeatTimeout
BY FunctionAssumption DEF FunctionAssumption, Interval

\* A run whose ticker has not fired may tick once more.
LEMMA OneTickOn ==
  ASSUME NEW e \in Execs, e.ticks < Interval
  PROVE  [e EXCEPT !.ticks = @ + 1] \in Execs
<1> DEFINE f == [attempt |-> e.attempt, step |-> e.step, ticks |-> e.ticks + 1]
<1>1. e.ticks + 1 \in 0 .. Interval
  BY IntervalBounds DEF Execs
<1>2. f \in Execs
  BY <1>1 DEF Execs
<1>3. [e EXCEPT !.ticks = @ + 1] = f
  BY DEF Execs
<1> QED BY <1>2, <1>3

\* Nothing is scheduled at the start.
LEMMA FunctionInitType == FunctionInit => FunctionTypeOK
BY IntervalBounds DEF FunctionInit, FunctionTypeOK, Idle, Execs, ExecSteps, TaskStates

ExecTypeOK == exec \in [Workers -> [Tasks -> Execs]]

\* exec changes for one worker and task.
OnlyRun(w, t, e) ==
  /\ exec' \in [Workers -> [Tasks -> Execs]]
  /\ \A v \in Workers, u \in Tasks :
       exec'[v][u] = IF v = w /\ u = t THEN e ELSE exec[v][u]

LEMMA RunReplaced ==
  ASSUME ExecTypeOK, NEW w \in Workers, NEW t \in Tasks, NEW e \in Execs,
         exec' = [exec EXCEPT ![w][t] = e]
  PROVE  OnlyRun(w, t, e)
BY DEF ExecTypeOK, OnlyRun

LEMMA RunStepped ==
  ASSUME ExecTypeOK, NEW w \in Workers, NEW t \in Tasks, NEW s \in ExecSteps, Step(w, t, s)
  PROVE  OnlyRun(w, t, [attempt |-> exec[w][t].attempt, step |-> s, ticks |-> exec[w][t].ticks])
<1> DEFINE e == [attempt |-> exec[w][t].attempt, step |-> s, ticks |-> exec[w][t].ticks]
<1>1. exec[w][t] \in Execs
  BY DEF ExecTypeOK
<1>2. [exec[w][t] EXCEPT !.step = s] = e /\ e \in Execs
  BY <1>1 DEF Execs
<1>3. exec' = [exec EXCEPT ![w][t] = [exec[w][t] EXCEPT !.step = s]]
  BY Zenon DEF Step
<1> QED BY <1>2, <1>3, RunReplaced

LEMMA RunBeaten ==
  ASSUME ExecTypeOK, NEW w \in Workers, NEW t \in Tasks, RecordHeartbeat(w, t)
  PROVE  OnlyRun(w, t, [attempt |-> exec[w][t].attempt, step |-> exec[w][t].step, ticks |-> 0])
<1> DEFINE e == [attempt |-> exec[w][t].attempt, step |-> exec[w][t].step, ticks |-> 0]
<1>1. exec[w][t] \in Execs
  BY DEF ExecTypeOK
<1>2. [exec[w][t] EXCEPT !.ticks = 0] = e /\ e \in Execs
  BY <1>1, IntervalBounds DEF Execs
<1>3. exec' = [exec EXCEPT ![w][t] = [exec[w][t] EXCEPT !.ticks = 0]]
  BY Zenon DEF RecordHeartbeat
<1> QED BY <1>2, <1>3, RunReplaced

\* What one activity does to exec.
LEMMA ActivityRun ==
  ASSUME ExecTypeOK, NEW w \in Workers, NEW t \in Tasks, Activity(w, t)
  PROVE  \/ Refuse(w, t) /\ OnlyRun(w, t, Idle)
         \/ Complete(w, t) /\ OnlyRun(w, t, Idle)
         \/ \E s \in ExecSteps \ {"none"} :
              /\ exec[w][t].step # "none" /\ UNCHANGED silence
              /\ s = "blocked" => Block(w, t)
              /\ OnlyRun(w, t, [attempt |-> exec[w][t].attempt, step |-> s, ticks |-> exec[w][t].ticks])
         \/ /\ RecordHeartbeat(w, t)
            /\ OnlyRun(w, t, [attempt |-> exec[w][t].attempt, step |-> exec[w][t].step, ticks |-> 0])
<1>1. Idle \in Execs
  BY IntervalBounds DEF Idle, Execs, ExecSteps
<1>2. CASE Refuse(w, t) \/ Complete(w, t)
  <2>1. exec' = [exec EXCEPT ![w][t] = Idle]
    BY <1>2 DEF Refuse, Complete, Report
  <2> QED BY <1>1, <1>2, <2>1, RunReplaced
<1>3. CASE StartHandler(w, t) \/ Unblock(w, t)
  BY <1>3, RunStepped DEF StartHandler, Unblock, ExecSteps
<1>4. CASE HandlerEnds(w, t)
  BY <1>4, RunStepped DEF HandlerEnds, ExecSteps
<1>5. CASE Block(w, t)
  BY <1>5, RunStepped DEF Block, ExecSteps
<1>6. CASE RecordHeartbeat(w, t)
  BY <1>6, RunBeaten
<1> QED BY <1>2, <1>3, <1>4, <1>5, <1>6 DEF Activity

\* A report closes its task, and nothing else an activity does touches it.
LEMMA ActivityTask ==
  ASSUME NEW w \in Workers, NEW t \in Tasks, Activity(w, t)
  PROVE  UNCHANGED task \/ \E c \in Closed : task' = [task EXCEPT ![t] = c]
BY DEF Activity, Refuse, StartHandler, Unblock, Block, RecordHeartbeat, HandlerEnds, Complete,
       Report, NonRetryable, Outcome, Closed, Failures, Outputs

\* A heartbeat may reset the service's clock or be lost; a handler may block.
LEMMA ActivityClock ==
  ASSUME NEW w \in Workers, NEW t \in Tasks, Activity(w, t)
  PROVE  /\ UNCHANGED silence \/ silence' = [silence EXCEPT ![t] = 0]
         /\ UNCHANGED excused \/ excused' = [excused EXCEPT ![t] = TRUE]
<1>1. CASE RecordHeartbeat(w, t)
  BY <1>1 DEF RecordHeartbeat
<1>2. CASE Block(w, t)
  BY <1>2 DEF Block
<1> QED BY <1>1, <1>2 DEF Activity, Refuse, StartHandler, Unblock, HandlerEnds, Complete

\* No step takes what the service and the workers know out of its type.
LEMMA FunctionStepType == FunctionTypeOK /\ FunctionStep => FunctionTypeOK'
<1> SUFFICES ASSUME FunctionTypeOK, FunctionStep PROVE FunctionTypeOK'
  OBVIOUS
<1> USE IntervalBounds DEF FunctionTypeOK, Execs, ExecSteps, TaskStates
<1>1. CASE UNCHANGED functionVars
  BY <1>1 DEF functionVars
<1>2. ASSUME NEW w \in Workers, Drop(w) PROVE FunctionTypeOK'
  <2>1. [t \in Tasks |-> Idle] \in [Tasks -> Execs]
    BY DEF Idle
  <2> QED BY <1>2, <2>1 DEF Drop
<1>3. ASSUME NEW w \in Workers, NEW t \in Tasks, Poll(w, t) PROVE FunctionTypeOK'
  BY <1>3 DEF Poll
<1>4. ASSUME NEW w \in Workers, NEW t \in Tasks, Activity(w, t) PROVE FunctionTypeOK'
  <2>1. exec' \in [Workers -> [Tasks -> Execs]]
    BY <1>4, ActivityRun DEF ExecTypeOK, OnlyRun
  <2>2. UNCHANGED <<malformed, attempt, timeouts>>
    BY <1>4 DEF Activity, Refuse, StartHandler, Unblock, Block, RecordHeartbeat, HandlerEnds, Complete
  <2>3. task' \in [Tasks -> TaskStates]
    BY <1>4, ActivityTask
  <2> HIDE DEF Execs
  <2>4. silence' \in [Tasks -> Nat]
    <3>1. UNCHANGED silence \/ silence' = [silence EXCEPT ![t] = 0]
      BY <1>4, ActivityClock, Zenon
    <3> QED BY <3>1
  <2>5. excused' \in [Tasks -> BOOLEAN]
    <3>1. UNCHANGED excused \/ excused' = [excused EXCEPT ![t] = TRUE]
      BY <1>4, ActivityClock, Zenon
    <3> QED BY <3>1
  <2> QED BY <2>1, <2>2, <2>3, <2>4, <2>5
<1>5. ASSUME NEW t \in Tasks, Dispatch(t) PROVE FunctionTypeOK'
  BY <1>5 DEF Dispatch
<1>6. ASSUME NEW t \in Tasks, StartToClose(t) \/ HeartbeatMissed(t) PROVE FunctionTypeOK'
  <2>1. UNCHANGED <<malformed, attempt, exec, silence, excused>>
    BY <1>6 DEF StartToClose, HeartbeatMissed, GiveUpAttempt
  <2>2. timeouts' \in [Tasks -> Nat]
    BY <1>6 DEF StartToClose, HeartbeatMissed, GiveUpAttempt
  <2>3. \E s \in TaskStates : task' = [task EXCEPT ![t] = s]
    BY <1>6 DEF StartToClose, HeartbeatMissed, GiveUpAttempt, RetryOr, Closed, Failures
  <2> QED BY <2>1, <2>2, <2>3
<1>7. CASE Tick
  <2> DEFINE passed(w, t) ==
        IF Runs(w, t) /\ exec[w][t].ticks < Interval
        THEN [exec[w][t] EXCEPT !.ticks = @ + 1] ELSE exec[w][t]
  <2>1. exec' \in [Workers -> [Tasks -> Execs]]
    <3>1. ASSUME NEW w \in Workers, NEW t \in Tasks PROVE passed(w, t) \in Execs
      <4>1. exec[w][t] \in Execs
        OBVIOUS
      <4> QED BY <4>1, OneTickOn
    <3>2. exec' = [w \in Workers |-> [t \in Tasks |-> passed(w, t)]]
      BY <1>7 DEF Tick
    <3> HIDE DEF passed
    <3> QED BY <3>1, <3>2
  <2>2. silence' \in [Tasks -> Nat]
    BY <1>7 DEF Tick
  <2> QED BY <1>7, <2>1, <2>2 DEF Tick
<1> QED BY <1>1, <1>2, <1>3, <1>4, <1>5, <1>6, <1>7 DEF FunctionStep

\* Each attempt but the first is owed to an attempt that was given up: a
\* queued task waits for one, a task never dispatched has had none.
AttemptsAreOwed ==
  \A t \in Tasks :
    /\ task[t] = "none" => attempt[t] = 0
    /\ task[t] = "queued" => attempt[t] <= timeouts[t]
    /\ attempt[t] <= 1 + timeouts[t]

\* Only a time-out of the service puts a task back into the queue.
LEMMA OwedStep == FunctionTypeOK /\ AttemptsAreOwed /\ FunctionStep => AttemptsAreOwed'
<1> SUFFICES ASSUME FunctionTypeOK, AttemptsAreOwed, FunctionStep PROVE AttemptsAreOwed'
  OBVIOUS
<1> USE DEF FunctionTypeOK, AttemptsAreOwed
<1>1. CASE UNCHANGED functionVars \/ Tick \/ \E w \in Workers : Drop(w)
  BY <1>1 DEF functionVars, Tick, Drop
<1>2. ASSUME NEW w \in Workers, NEW t \in Tasks, Poll(w, t) PROVE AttemptsAreOwed'
  BY <1>2 DEF Poll
<1>3. ASSUME NEW w \in Workers, NEW t \in Tasks, Activity(w, t) PROVE AttemptsAreOwed'
  <2>1. UNCHANGED <<attempt, timeouts>>
    BY <1>3 DEF Activity, Refuse, StartHandler, Unblock, Block, RecordHeartbeat, HandlerEnds, Complete
  <2> QED BY <1>3, <2>1, ActivityTask DEF Closed, Failures, Outputs
<1>4. ASSUME NEW t \in Tasks, Dispatch(t) PROVE AttemptsAreOwed'
  BY <1>4 DEF Dispatch
<1>5. ASSUME NEW t \in Tasks, StartToClose(t) \/ HeartbeatMissed(t) PROVE AttemptsAreOwed'
  BY <1>5 DEF StartToClose, HeartbeatMissed, GiveUpAttempt, RetryOr
<1> QED BY <1>1, <1>2, <1>3, <1>4, <1>5 DEF FunctionStep

\* While the current attempt is not excused its handler has not blocked, and
\* the service's clock is not ahead of the ticker's.
TickerLeads ==
  \A w \in Workers, t \in Tasks :
    /\ exec[w][t].attempt <= attempt[t]
    /\ Current(w, t) /\ ~excused[t] =>
         exec[w][t].step # "blocked" /\ silence[t] <= exec[w][t].ticks

\* A heartbeat sets both clocks back, and time passes for both.
LEMMA TickerStep ==
  ASSUME HeartbeatTimeout >= 2, FunctionTypeOK, TickerLeads, FunctionStep
  PROVE  TickerLeads'
<1> USE IntervalBounds DEF FunctionTypeOK, TickerLeads, Execs, ExecSteps, Current, Runs
<1>1. CASE UNCHANGED functionVars
  BY <1>1 DEF functionVars
<1>2. ASSUME NEW w \in Workers, Drop(w) PROVE TickerLeads'
  BY <1>2 DEF Drop, Idle
<1>3. ASSUME NEW w \in Workers, NEW t \in Tasks, Poll(w, t) PROVE TickerLeads'
  BY <1>3 DEF Poll
<1>4. ASSUME NEW w \in Workers, NEW t \in Tasks, Activity(w, t) PROVE TickerLeads'
  <2>1. UNCHANGED attempt
    BY <1>4 DEF Activity, Refuse, StartHandler, Unblock, Block, RecordHeartbeat, HandlerEnds, Complete
  <2>2. \A u \in Tasks : task'[u] = "started" => task[u] = "started"
    BY <1>4, ActivityTask DEF Closed, Failures, Outputs
  <2>3. CASE (Refuse(w, t) \/ Complete(w, t)) /\ OnlyRun(w, t, Idle)
    <3>1. UNCHANGED <<silence, excused>>
      BY <2>3 DEF Refuse, Complete
    <3> QED BY <2>1, <2>2, <2>3, <3>1 DEF OnlyRun, Idle
  <2>4. ASSUME NEW s \in ExecSteps \ {"none"}, exec[w][t].step # "none",
               s = "blocked" => Block(w, t), UNCHANGED silence,
               \A u \in Tasks : excused[u] => excused'[u],
               OnlyRun(w, t, [attempt |-> exec[w][t].attempt, step |-> s, ticks |-> exec[w][t].ticks])
        PROVE  TickerLeads'
    <3> SUFFICES ASSUME NEW v \in Workers, NEW u \in Tasks
                 PROVE  /\ exec'[v][u].attempt <= attempt'[u]
                        /\ Current(v, u)' /\ ~excused'[u] =>
                             exec'[v][u].step # "blocked" /\ silence'[u] <= exec'[v][u].ticks
      OBVIOUS
    <3>1. Current(v, u)' /\ ~excused'[u] => Current(v, u) /\ ~excused[u]
      BY <2>1, <2>2, <2>4 DEF OnlyRun
    <3>2. Current(w, t) /\ s = "blocked" => excused'[t]
      BY <2>4 DEF Block
    <3>3. CASE v = w /\ u = t
      <4>1. exec'[v][u] = [attempt |-> exec[w][t].attempt, step |-> s, ticks |-> exec[w][t].ticks]
        BY <2>4, <3>3 DEF OnlyRun
      <4>2. ~excused'[u] /\ Current(w, t) => s # "blocked"
        BY <3>2, <3>3
      <4> QED BY <2>1, <2>4, <3>1, <3>3, <4>1, <4>2
    <3>4. CASE ~(v = w /\ u = t)
      <4>1. exec'[v][u] = exec[v][u]
        BY <2>4, <3>4 DEF OnlyRun
      <4> QED BY <2>1, <2>4, <3>1, <4>1
    <3> QED BY <3>3, <3>4
  <2>5. CASE RecordHeartbeat(w, t) /\ OnlyRun(w, t,
               [attempt |-> exec[w][t].attempt, step |-> exec[w][t].step, ticks |-> 0])
    BY <2>1, <2>2, <2>5 DEF RecordHeartbeat, OnlyRun
  <2>6. \A u \in Tasks : excused[u] => excused'[u]
    <3>1. UNCHANGED excused \/ excused' = [excused EXCEPT ![t] = TRUE]
      BY <1>4, ActivityClock, Zenon
    <3> QED BY <3>1
  <2> QED BY <1>4, <2>3, <2>4, <2>5, <2>6, ActivityRun DEF ExecTypeOK
<1>5. ASSUME NEW t \in Tasks, Dispatch(t) PROVE TickerLeads'
  BY <1>5 DEF Dispatch
<1>6. ASSUME NEW t \in Tasks, StartToClose(t) \/ HeartbeatMissed(t) PROVE TickerLeads'
  BY <1>6 DEF StartToClose, HeartbeatMissed, GiveUpAttempt, RetryOr, Closed, Failures
<1>7. CASE Tick
  <2> SUFFICES ASSUME NEW w \in Workers, NEW t \in Tasks
               PROVE  /\ exec'[w][t].attempt <= attempt'[t]
                      /\ Current(w, t)' /\ ~excused'[t] =>
                           exec'[w][t].step # "blocked" /\ silence'[t] <= exec'[w][t].ticks
    OBVIOUS
  <2>1. /\ exec[w][t] \in Execs /\ UNCHANGED <<task, attempt, excused>>
        /\ exec[w][t].step \in {"none", "handler", "blocked"} /\ ~TickerDue(w, t)
        /\ exec'[w][t] = IF Runs(w, t) /\ exec[w][t].ticks < Interval
                         THEN [exec[w][t] EXCEPT !.ticks = @ + 1] ELSE exec[w][t]
        /\ silence'[t] = IF silence[t] < HeartbeatTimeout THEN silence[t] + 1 ELSE silence[t]
    BY <1>7 DEF Tick
  <2>2. /\ exec'[w][t].attempt = exec[w][t].attempt
        /\ exec'[w][t].step = exec[w][t].step
    BY <2>1
  <2>3. CASE Current(w, t) /\ ~excused[t]
    <3>1. exec[w][t].step = "handler" /\ exec[w][t].ticks < Interval
      BY <2>1, <2>3 DEF TickerDue
    <3>2. exec'[w][t].ticks = exec[w][t].ticks + 1
      BY <2>1, <2>3, <3>1
    <3> QED BY <2>1, <2>2, <2>3, <3>1, <3>2
  <2> QED BY <2>1, <2>2, <2>3
<1> QED BY <1>1, <1>2, <1>3, <1>4, <1>5, <1>6, <1>7 DEF FunctionStep
-----------------------------------------------------------------------------
(* The drain *)

DrainTypeOK ==
  /\ outcome \in [Workers -> {"none", "Ok", "Err"}]
  /\ cut \in [Workers -> BOOLEAN]
  /\ lost \in [Workers -> BOOLEAN]

DrainInv == DrainTypeOK /\ DrainFinishesWork

\* Ok is only answered by a drain: of a worker that runs nothing any more, or
\* one cut by the deadline.
LEMMA DrainStep == DrainInv /\ [Next]_deploymentVars => DrainInv'
<1> SUFFICES ASSUME DrainInv, [Next]_deploymentVars PROVE DrainInv'
  OBVIOUS
<1>1. CASE UNCHANGED <<outcome, cut, lost>>
  BY <1>1 DEF DrainInv, DrainTypeOK, DrainFinishesWork
<1>2. ASSUME NEW w \in Workers, outcome' = [outcome EXCEPT ![w] = "Err"], UNCHANGED <<cut, lost>>
      PROVE  DrainInv'
  BY <1>2 DEF DrainInv, DrainTypeOK, DrainFinishesWork
<1>3. ASSUME NEW w \in Workers, NEW o \in {"Ok", "Err"}, RunReturns(w, o),
             \/ o = "Err" /\ UNCHANGED cut
             \/ o = "Ok" /\ UNCHANGED cut /\ Running(w) = {}
             \/ o = "Ok" /\ cut' = [cut EXCEPT ![w] = TRUE]
      PROVE  DrainInv'
  <2>1. /\ outcome' = [outcome EXCEPT ![w] = o]
        /\ lost' = [lost EXCEPT ![w] = (Running(w) # {})]
    BY <1>3 DEF RunReturns
  <2> QED BY <1>3, <2>1 DEF DrainInv, DrainTypeOK, DrainFinishesWork
<1>4. ASSUME NEW w \in Workers,
             \/ WorkerStep(BuildWorker(w)) \/ MainConnect(w) \/ RegisterFails(w)
             \/ WorkerStep(InitiateDrain(w)) \/ RegisterNext(w) \/ RegisterRpc(w) \/ Registered(w)
             \/ RunWorker(w) \/ MainCrash(w) \/ Signal(w) \/ WorkloadStep(w)
      PROVE  DrainInv'
  BY <1>1, <1>2, <1>4 DEF WorkerStep, BuildWorker, MainConnect, RegisterFails, InitiateDrain,
     RegisterNext, RegisterRpc, Registered, RunWorker, MainCrash, Crash, Signal, WorkloadStep,
     workerVars
<1>5. ASSUME NEW w \in Workers,
             \/ WorkerStep(SdkFails(w)) \/ WorkerStep(Drained(w)) \/ WorkerStep(DrainDeadline(w))
      PROVE  DrainInv'
  BY <1>3, <1>5 DEF WorkerStep, SdkFails, Drained, DrainDeadline
<1>6. ASSUME NEW w \in Workers, NEW t \in Tasks, WorkerStep(WorkerActivity(w, t)) PROVE DrainInv'
  BY <1>1, <1>6 DEF WorkerStep, WorkerActivity, workerVars
<1>7. ASSUME \/ UNCHANGED deploymentVars \/ LandLate \/ Elapse(Tick) \/ \E o \in Ops : OpsCall(o)
             \/ \E t \in Tasks : Fire(t) \/ Elapse(StartToClose(t)) \/ Elapse(HeartbeatMissed(t))
      PROVE  DrainInv'
  BY <1>1, <1>7 DEF deploymentVars, LandLate, Elapse, OpsCall, Fire, workerVars
<1> QED BY <1>4, <1>5, <1>6, <1>7 DEF Next

-----------------------------------------------------------------------------
(* The plan *)

Phases  == {"build", "built", "register", "run", "drain", "returned", "crashed"}
Waiting == {"create", "describe", "write", "delete"}
Answers == {"idle", "Ok", "Schedule", "Configuration"}
CallOps == {"none", "create", "update", "create_or_update", "delete", "delete_if_exists"}
ScheduleCalls == [op : CallOps, id : Schedules \union {Absent}, step : Waiting \union Answers]

PlanTypeOK ==
  /\ phase \in [Workers -> Phases]
  /\ done \in [Workers -> Nat]
  /\ call \in [Callers -> ScheduleCalls]

\* What the call of one caller may do to those of the others, and to the
\* record of what was installed: nothing, and grow.
OnlyCall(c) ==
  /\ call' \in [Callers -> ScheduleCalls]
  /\ \A d \in Callers \ {c} : call'[d] = call[d]
  /\ installed \subseteq installed'

LEMMA Answered ==
  ASSUME call \in [Callers -> ScheduleCalls], NEW c \in Callers, NEW a \in Answers, Answer(c, a)
  PROVE  /\ call' \in [Callers -> ScheduleCalls]
         /\ \A d \in Callers \ {c} : call'[d] = call[d]
         /\ call'[c].step = a
<1>1. Over(a) \in ScheduleCalls /\ Over(a).step = a
  BY DEF Over, ScheduleCalls, CallOps
<1>2. call' = [call EXCEPT ![c] = Over(a)]
  BY DEF Answer
<1> HIDE DEF ScheduleCalls
<1> QED BY <1>1, <1>2

LEMMA Moved ==
  ASSUME call \in [Callers -> ScheduleCalls], NEW c \in Callers, NEW p \in Waiting,
         call' = [call EXCEPT ![c].step = p]
  PROVE  /\ call' \in [Callers -> ScheduleCalls]
         /\ \A d \in Callers \ {c} : call'[d] = call[d]
         /\ call'[c].step = p /\ call'[c].op = call[c].op /\ call'[c].id = call[c].id
<1> DEFINE e == [op |-> call[c].op, id |-> call[c].id, step |-> p]
<1>1. e \in ScheduleCalls /\ [call[c] EXCEPT !.step = p] = e
  BY DEF ScheduleCalls
<1>2. call' = [call EXCEPT ![c] = [call[c] EXCEPT !.step = p]]
  BY Zenon
<1>3. call' = [call EXCEPT ![c] = e]
  BY <1>1, <1>2
<1>4. e.step = p /\ e.op = call[c].op /\ e.id = call[c].id
  OBVIOUS
<1> HIDE DEF e
<1> QED BY <1>1, <1>3, <1>4

\* An RPC of a create_or_update ends in Ok only where it has written.
LEMMA RpcStep ==
  ASSUME call \in [Callers -> ScheduleCalls], NEW c \in Callers, Rpc(c)
  PROVE  /\ OnlyCall(c)
         /\ call[c].op = "create_or_update" /\ call[c].step # "delete" =>
              \/ /\ call'[c].step \in {"describe", "write"}
                 /\ call'[c].op = call[c].op /\ call'[c].id = call[c].id
              \/ call'[c].step = "Schedule"
              \/ call'[c].step = "Ok" /\ <<c, call[c].id>> \in installed'
<1> USE DEF OnlyCall
<1>1. CASE CreateRpc(c)
  <2>1. CASE CreateFailed(c)
    <3>1. installed \subseteq installed'
      BY <1>1 DEF CreateRpc, Put
    <3> QED BY <2>1, <3>1, Answered, Moved DEF CreateFailed, Answers, Waiting
  <2>2. CASE Put(c, call[c].id) /\ Answer(c, "Ok")
    BY <2>2, Answered DEF Put, Answers
  <2> QED BY <1>1, <2>1, <2>2 DEF CreateRpc
<1>2. CASE DescribeRpc(c)
  BY <1>2, Answered, Moved DEF DescribeRpc, Answers, Waiting
<1>3. CASE WriteRpc(c)
  <2>1. CASE Answer(c, "Schedule")
    <3>1. installed \subseteq installed'
      BY <1>3 DEF WriteRpc, Put
    <3> QED BY <2>1, <3>1, Answered DEF Answers
  <2>2. CASE Put(c, call[c].id) /\ Answer(c, "Ok")
    BY <2>2, Answered DEF Put, Answers
  <2> QED BY <1>3, <2>1, <2>2 DEF WriteRpc
<1>4. CASE DeleteRpc(c)
  BY <1>4, Answered DEF DeleteRpc, DeleteFailed, Answers
<1> QED BY <1>1, <1>2, <1>3, <1>4 DEF Rpc

\* Where a process is with its plan.
Registering(w) ==
  /\ done[w] <= Len(Plan)
  /\ \A i \in 1 .. done[w] : <<w, Plan[i]>> \in installed
  /\ call[w].step # "delete"
  /\ call[w].step \in {"create", "describe", "write"} =>
       /\ call[w].op = "create_or_update"
       /\ done[w] < Len(Plan) /\ call[w].id = Plan[done[w] + 1]
  /\ call[w].step = "Ok" =>
       done[w] < Len(Plan) /\ <<w, Plan[done[w] + 1]>> \in installed

PlanInv ==
  /\ PlanTypeOK
  /\ \A w \in Workers :
       /\ phase[w] \in {"build", "built"} => done[w] = 0 /\ call[w].step = "idle"
       /\ phase[w] = "register" => Registering(w)
  /\ RunsOnlyPlanned

\* Steps that are not about the plan, or end it.
LEMMA PlanKept ==
  ASSUME PlanInv, NEW w \in Workers, NEW p \in Phases,
         phase' = [phase EXCEPT ![w] = p],
         \/ p \in {"returned", "crashed"}
         \/ p = phase[w]
         \/ phase[w] = "run" /\ p = "drain"
         \/ phase[w] = "build" /\ p = "built"
         \/ phase[w] = "built" /\ p = "register"
         \/ p = "run" /\ kind[w] # "scheduled"
         \/ phase[w] = "register" /\ p = "run" /\ done[w] = Len(Plan),
         call' \in [Callers -> ScheduleCalls], call'[w] = call[w] \/ p \in {"returned", "crashed"},
         \A d \in Callers \ {w} : call'[d] = call[d],
         UNCHANGED <<kind, done, installed>>
  PROVE  PlanInv'
<1> USE DeploymentAssumption DEF DeploymentAssumption
<1>1. Workers \subseteq Callers
  OBVIOUS
<1>2. Len(Plan) \in Nat
  OBVIOUS
<1>3. PlanTypeOK'
  BY DEF PlanInv, PlanTypeOK
<1>4. ASSUME NEW v \in Workers
      PROVE  /\ phase'[v] \in {"build", "built"} => done'[v] = 0 /\ call'[v].step = "idle"
             /\ phase'[v] = "register" => Registering(v)'
             /\ kind'[v] = "scheduled" /\ phase'[v] \in {"run", "drain"} =>
                  \A i \in 1 .. Len(Plan) : <<v, Plan[i]>> \in installed'
  <2>1. CASE v # w
    BY <1>1, <2>1 DEF PlanInv, PlanTypeOK, Registering, RunsOnlyPlanned
  <2>2. CASE v = w
    BY <1>1, <1>2, <2>2 DEF PlanInv, PlanTypeOK, Registering, RunsOnlyPlanned
  <2> QED BY <2>1, <2>2
<1> QED BY <1>3, <1>4 DEF PlanInv, RunsOnlyPlanned
\* Calls of one process move its own registration at most.
LEMMA PlanOfOthers ==
  ASSUME PlanInv, NEW c \in Callers, OnlyCall(c), UNCHANGED <<phase, kind>>,
         done' \in [Workers -> Nat], \A v \in Workers \ {c} : done'[v] = done[v],
         c \in Workers => phase[c] = "register" /\ Registering(c)'
  PROVE  PlanInv'
<1> USE DeploymentAssumption DEF DeploymentAssumption
<1>1. Workers \subseteq Callers /\ Len(Plan) \in Nat
  OBVIOUS
<1>2. PlanTypeOK'
  BY DEF PlanInv, PlanTypeOK, OnlyCall
<1>3. ASSUME NEW v \in Workers
      PROVE  /\ phase'[v] \in {"build", "built"} => done'[v] = 0 /\ call'[v].step = "idle"
             /\ phase'[v] = "register" => Registering(v)'
             /\ kind'[v] = "scheduled" /\ phase'[v] \in {"run", "drain"} =>
                  \A i \in 1 .. Len(Plan) : <<v, Plan[i]>> \in installed'
  <2>1. CASE v # c
    BY <1>1, <2>1 DEF PlanInv, PlanTypeOK, OnlyCall, Registering, RunsOnlyPlanned
  <2>2. CASE v = c
    BY <1>1, <2>2 DEF PlanInv, PlanTypeOK
  <2> QED BY <2>1, <2>2
<1> QED BY <1>2, <1>3 DEF PlanInv, RunsOnlyPlanned

\* A plan is registered in order, and nothing but its end starts the worker.
LEMMA PlanStep == PlanInv /\ [Next]_deploymentVars => PlanInv'
<1> SUFFICES ASSUME PlanInv, [Next]_deploymentVars PROVE PlanInv'
  OBVIOUS
<1> USE DeploymentAssumption DEF DeploymentAssumption
<1>1. /\ Workers \subseteq Callers /\ Len(Plan) \in Nat
      /\ call \in [Callers -> ScheduleCalls] /\ done \in [Workers -> Nat]
      /\ phase \in [Workers -> Phases]
  BY DEF PlanInv, PlanTypeOK
<1>2. CASE UNCHANGED <<phase, kind, done, call, installed>>
  BY <1>2 DEF PlanInv, PlanTypeOK, Registering, RunsOnlyPlanned
<1>3. ASSUME NEW w \in Workers,
             \/ WorkerStep(BuildWorker(w)) \/ WorkerStep(SdkFails(w))
             \/ WorkerStep(InitiateDrain(w)) \/ WorkerStep(Drained(w))
             \/ WorkerStep(DrainDeadline(w)) \/ MainConnect(w) \/ RunWorker(w)
      PROVE  PlanInv'
  <2>1. UNCHANGED <<kind, done, call, installed>>
    BY <1>3 DEF WorkerStep, MainConnect, RunWorker, scheduleVars, mainVars
  <2>2. \E p \in Phases :
          /\ phase' = [phase EXCEPT ![w] = p]
          /\ \/ p = "returned"
             \/ phase[w] = "run" /\ p = "drain"
             \/ phase[w] = "build" /\ p = "built"
             \/ phase[w] = "built" /\ p = "register"
             \/ p = "run" /\ kind[w] # "scheduled"
             \/ phase[w] = "register" /\ p = "run" /\ done[w] = Len(Plan)
    BY <1>3 DEF WorkerStep, BuildWorker, SdkFails, InitiateDrain, Drained, DrainDeadline,
                RunReturns, MainConnect, RunWorker, Become, Phases
  <2> QED BY <1>1, <2>1, <2>2, PlanKept
<1>4. ASSUME NEW w \in Workers, RegisterFails(w) \/ MainCrash(w) PROVE PlanInv'
  <2>1. Answer(w, "idle") /\ UNCHANGED <<kind, done, installed>>
    BY <1>4 DEF RegisterFails, MainCrash, mainVars
  <2>2. \E p \in {"returned", "crashed"} : phase' = [phase EXCEPT ![w] = p]
    BY <1>4 DEF RegisterFails, MainCrash, Crash, Become
  <2>3. /\ call' \in [Callers -> ScheduleCalls]
        /\ \A d \in Callers \ {w} : call'[d] = call[d]
    BY <1>1, <2>1, Answered DEF Answers
  <2> QED BY <1>1, <2>1, <2>2, <2>3, PlanKept DEF Phases
<1>5. ASSUME NEW w \in Workers, RegisterNext(w) PROVE PlanInv'
  <2>1. /\ phase[w] = "register" /\ done[w] < Len(Plan) /\ UNCHANGED <<phase, kind, done, installed>>
        /\ Begin(w, "create_or_update", Plan[done[w] + 1], FullBuilder)
    BY <1>5 DEF RegisterNext, Begin, workerVars, mainVars
  <2> DEFINE e == [op |-> "create_or_update", id |-> Plan[done[w] + 1], step |-> "create"]
  <2>2. call' = [call EXCEPT ![w] = e]
    BY <2>1 DEF Begin, Valid, FullBuilder, FirstRpc
  <2>3. e \in ScheduleCalls
    BY <1>1, <2>1 DEF ScheduleCalls, CallOps, Waiting
  <2>4. OnlyCall(w) /\ call'[w] = e
    BY <1>1, <2>1, <2>2, <2>3 DEF OnlyCall
  <2>5. Registering(w)
    BY <2>1 DEF PlanInv
  <2>6. Registering(w)'
    BY <2>1, <2>4, <2>5 DEF Registering
  <2> QED BY <1>1, <2>1, <2>4, <2>6, PlanOfOthers
<1>6. ASSUME NEW w \in Workers, RegisterRpc(w) PROVE PlanInv'
  <2>1. phase[w] = "register" /\ Rpc(w) /\ UNCHANGED <<phase, kind, done>>
    BY <1>6 DEF RegisterRpc, workerVars, mainVars
  <2>2. Registering(w)
    BY <2>1 DEF PlanInv
  <2>3. call[w].step \in {"create", "describe", "write"}
    BY <2>1, <2>2 DEF Registering, Rpc, CreateRpc, DescribeRpc, WriteRpc, DeleteRpc
  <2>4. OnlyCall(w)
    BY <1>1, <2>1, RpcStep
  <2>5. Registering(w)'
    BY <1>1, <2>1, <2>2, <2>3, <2>4, RpcStep DEF Registering, OnlyCall
  <2> QED BY <1>1, <2>1, <2>4, <2>5, PlanOfOthers
<1>7. ASSUME NEW w \in Workers, Registered(w) PROVE PlanInv'
  <2>1. /\ phase[w] = "register" /\ call[w].step = "Ok" /\ Answer(w, "idle")
        /\ done' = [done EXCEPT ![w] = @ + 1] /\ UNCHANGED <<phase, kind, installed>>
    BY <1>7 DEF Registered, workerVars
  <2>2. Registering(w)
    BY <2>1 DEF PlanInv
  <2>3. OnlyCall(w) /\ call'[w].step = "idle"
    BY <1>1, <2>1, Answered DEF OnlyCall, Answers
  <2>4. Registering(w)'
    <3>1. done[w] < Len(Plan) /\ <<w, Plan[done[w] + 1]>> \in installed
      BY <2>1, <2>2 DEF Registering
    <3>2. done'[w] = done[w] + 1 /\ done[w] \in Nat
      BY <1>1, <2>1
    <3>3. \A i \in 1 .. done[w] : <<w, Plan[i]>> \in installed
      BY <2>2 DEF Registering
    <3>4. \A i \in 1 .. done[w] + 1 : i \in 1 .. done[w] \/ i = done[w] + 1
      BY <3>2
    <3>5. \A i \in 1 .. done'[w] : <<w, Plan[i]>> \in installed'
      BY <2>1, <3>1, <3>2, <3>3, <3>4
    <3> QED BY <1>1, <2>3, <3>1, <3>2, <3>5 DEF Registering
  <2>5. done' \in [Workers -> Nat] /\ \A v \in Workers \ {w} : done'[v] = done[v]
    BY <1>1, <2>1
  <2> QED BY <1>1, <2>1, <2>3, <2>4, <2>5, PlanOfOthers
<1>8. ASSUME NEW o \in Ops, OpsCall(o) PROVE PlanInv'
  <2>1. UNCHANGED <<phase, kind, done>>
    BY <1>8 DEF OpsCall, workerVars, mainVars
  <2>2. OnlyCall(o)
    <3>1. CASE Rpc(o)
      BY <1>1, <3>1, RpcStep
    <3>2. ASSUME NEW op \in CallOps, NEW s \in Schedules, NEW b \in Builders, Begin(o, op, s, b)
          PROVE  OnlyCall(o)
      <4> DEFINE e == [op |-> op, id |-> s, step |-> FirstRpc(op)]
      <4>1. e \in ScheduleCalls
        BY DEF ScheduleCalls, FirstRpc, Waiting
      <4>2. CASE call' = [call EXCEPT ![o] = e]
        BY <1>1, <3>2, <4>1, <4>2 DEF OnlyCall, Begin
      <4>3. CASE Answer(o, "Configuration")
        BY <1>1, <3>2, <4>3, Answered DEF OnlyCall, Begin, Answers
      <4> QED BY <3>2, <4>2, <4>3 DEF Begin
    <3> QED BY <1>8, <3>1, <3>2 DEF OpsCall, CallOps
  <2> QED BY <1>1, <2>1, <2>2, PlanOfOthers
<1>9. CASE LandLate
  <2>1. UNCHANGED <<phase, kind, done, call>> /\ installed \subseteq installed'
    BY <1>9 DEF LandLate, Land, Put, workerVars, mainVars
  <2> QED BY <2>1 DEF PlanInv, PlanTypeOK, Registering, RunsOnlyPlanned
<1>10. ASSUME NEW w \in Workers,
              \/ \E t \in Tasks : WorkerStep(WorkerActivity(w, t))
              \/ Signal(w) \/ WorkloadStep(w)
       PROVE  PlanInv'
  BY <1>2, <1>10 DEF WorkerStep, WorkerActivity, Signal, WorkloadStep, workerVars, mainVars, scheduleVars
<1>11. ASSUME \/ UNCHANGED deploymentVars \/ Elapse(Tick)
              \/ \E t \in Tasks : Fire(t) \/ Elapse(StartToClose(t)) \/ Elapse(HeartbeatMissed(t))
       PROVE  PlanInv'
  BY <1>2, <1>11 DEF deploymentVars, Elapse, Fire, workerVars, mainVars, scheduleVars
<1> QED BY <1>3, <1>4, <1>5, <1>6, <1>7, <1>8, <1>9, <1>10, <1>11 DEF Next

-----------------------------------------------------------------------------
(* The theorems *)

\* Neither the service nor a worker holds anything at the start.
LEMMA InitInv == Init => FunctionTypeOK /\ AttemptsAreOwed /\ TickerLeads /\ DrainInv /\ PlanInv
<1> SUFFICES ASSUME Init
             PROVE  FunctionTypeOK /\ AttemptsAreOwed /\ TickerLeads /\ DrainInv /\ PlanInv
  OBVIOUS
<1> USE DEF Init, WorkerInit
<1>1. FunctionTypeOK
  BY FunctionInitType
<1>2. AttemptsAreOwed /\ TickerLeads
  BY DEF FunctionInit, AttemptsAreOwed, TickerLeads, Idle, Current, Runs
<1>3. DrainInv
  BY DEF DrainInv, DrainTypeOK, DrainFinishesWork
<1>4. PlanInv
  <2>1. Over("idle") \in ScheduleCalls /\ Over("idle").step = "idle"
    BY DEF Over, ScheduleCalls, CallOps, Answers
  <2>2. call \in [Callers -> ScheduleCalls] /\ \A c \in Callers : call[c].step = "idle"
    BY <2>1 DEF ScheduleInit
  <2>3. \A w \in Workers : phase[w] = "build" /\ done[w] = 0
    OBVIOUS
  <2>4. PlanTypeOK
    BY <2>2 DEF PlanTypeOK, Phases
  <2>5. Workers \subseteq Callers
    BY DeploymentAssumption DEF DeploymentAssumption
  <2> QED BY <2>2, <2>3, <2>4, <2>5 DEF PlanInv, RunsOnlyPlanned
<1> QED BY <1>1, <1>2, <1>3, <1>4

\* A scheduled process polls only after each schedule of its plan has stood
\* in the service with its trigger, for any plan, processes and other callers.
THEOREM PollsOnlyPlanned == Spec => []RunsOnlyPlanned
<1>1. PlanInv => RunsOnlyPlanned
  BY DEF PlanInv
<1> QED BY <1>1, InitInv, PlanStep, PTL DEF Spec

\* A worker that answers Ok without its deadline has struck left no attempt
\* unreported.
THEOREM DrainIsComplete == Spec => []DrainFinishesWork
<1>1. DrainInv => DrainFinishesWork
  BY DEF DrainInv
<1> QED BY <1>1, InitInv, DrainStep, PTL DEF Spec

\* The activities keep their types.
LEMMA ActivitiesTyped == Spec => []FunctionTypeOK
BY InitInv, StepIsFunctionStep, FunctionStepType, PTL DEF Spec

\* Every attempt beyond the first answers a time-out of the service: nothing
\* that execute_function reports is tried again.
THEOREM AttemptsAreTimeouts == Spec => []RetriesAreTimeouts
<1>1. AttemptsAreOwed => RetriesAreTimeouts
  BY DEF AttemptsAreOwed, RetriesAreTimeouts
<1> QED BY <1>1, InitInv, StepIsFunctionStep, FunctionStepType, OwedStep, PTL DEF Spec

\* With a timeout of two ticks or more the heartbeat of a handler that yields
\* is never missed, whatever the other activities and workers do.
THEOREM HeartbeatIsInTime ==
  ASSUME HeartbeatTimeout >= 2
  PROVE  Spec => []HeartbeatKeepsAlive
<1>1. FunctionTypeOK /\ TickerLeads => HeartbeatKeepsAlive
  <2> SUFFICES ASSUME FunctionTypeOK, TickerLeads, NEW t \in Tasks, NEW w \in Workers,
                      silence[t] >= HeartbeatTimeout, ~excused[t], Current(w, t)
               PROVE  FALSE
    BY DEF HeartbeatKeepsAlive
  <2>1. exec[w][t].ticks \in 0 .. Interval /\ silence[t] \in Nat
    BY DEF FunctionTypeOK, Execs
  <2>2. silence[t] <= exec[w][t].ticks
    BY DEF TickerLeads
  <2> QED BY <2>1, <2>2, IntervalBounds, FunctionAssumption DEF FunctionAssumption
<1>2. FunctionTypeOK /\ TickerLeads /\ [Next]_deploymentVars => TickerLeads'
  BY StepIsFunctionStep, TickerStep
<1> QED BY <1>1, <1>2, InitInv, StepIsFunctionStep, FunctionStepType, PTL DEF Spec
=============================================================================
