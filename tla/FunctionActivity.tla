-------------------------- MODULE FunctionActivity --------------------------
(***************************************************************************)
(* altair_wf::function: activity tasks that name a handler, the workers    *)
(* that poll for them, FunctionActivities::execute_function on a worker,   *)
(* and the service, which starts an attempt, waits for its report, times   *)
(* it out and retries it.                                                  *)
(*                                                                         *)
(* A worker may still run an attempt the service has given up (its report  *)
(* is then ignored).  Time is counted in heartbeat intervals of the        *)
(* service's heartbeat timeout; dispatch and report take none of it.       *)
(***************************************************************************)
EXTENDS Naturals, FiniteSets

CONSTANTS
  Tasks,            \* activity tasks
  Workers,          \* worker processes on one task queue
  Handlers,         \* Handlers[w]: tasks whose handler is in the registry of w
  Slots,            \* max_concurrent_activities
  MaxAttempts,      \* RetryPolicy::max_attempts
  HeartbeatTimeout  \* of the activity options, in ticks; 0 for none

ASSUME FunctionAssumption ==
  /\ Handlers \in [Workers -> SUBSET Tasks]
  /\ {Slots, MaxAttempts} \subseteq Nat \ {0} /\ HeartbeatTimeout \in Nat

Failures == {"InvalidFunctionInput", "FunctionNotFound", "TimedOut"}
Outputs == {"success", "failure"}

VARIABLES
  malformed, \* tasks whose payload does not pass validate(), fixed
  task,    \* the service: none, queued, started, or how the task is closed
  attempt, \* attempts the service has started
  exec,    \* per worker and task: the attempt being run, its step, and the
           \* ticks since the ticker last fired
  silence, \* ticks since the service last heard of the current attempt
  excused, \* history: the current attempt's handler has blocked its thread
           \* or one of its heartbeats was lost
  timeouts \* history: attempts the service has given up

functionVars == <<malformed, task, attempt, exec, silence, excused, timeouts>>

Closed == Failures \union Outputs
Idle == [attempt |-> 0, step |-> "none", ticks |-> 0]

Runs(w, t) == exec[w][t].step # "none"
Load(w) == Cardinality({t \in Tasks : Runs(w, t)})
Current(w, t) ==
  Runs(w, t) /\ task[t] = "started" /\ exec[w][t].attempt = attempt[t]

Step(w, t, s) == exec' = [exec EXCEPT ![w][t].step = s]

-----------------------------------------------------------------------------
(* The service *)

\* A workflow schedules the activity.
Dispatch(t) ==
  /\ task[t] = "none"
  /\ task' = [task EXCEPT ![t] = "queued"]
  /\ UNCHANGED <<malformed, attempt, exec, silence, excused, timeouts>>

Poll(w, t) ==
  /\ task[t] = "queued" /\ ~Runs(w, t) /\ Load(w) < Slots
  /\ task' = [task EXCEPT ![t] = "started"]
  /\ attempt' = [attempt EXCEPT ![t] = @ + 1]
  /\ exec' = [exec EXCEPT ![w][t] =
       [attempt |-> attempt[t] + 1, step |-> "received", ticks |-> 0]]
  /\ silence' = [silence EXCEPT ![t] = 0]
  /\ excused' = [excused EXCEPT ![t] = FALSE]
  /\ UNCHANGED <<malformed, timeouts>>

\* The next attempt, if the policy has one left.
RetryOr(t, failure) ==
  task' = [task EXCEPT ![t] = IF attempt[t] < MaxAttempts THEN "queued" ELSE failure]

GiveUpAttempt(t) ==
  /\ RetryOr(t, "TimedOut")
  /\ timeouts' = [timeouts EXCEPT ![t] = @ + 1]
  /\ UNCHANGED <<malformed, attempt, exec, silence, excused>>

\* Start-to-close is long against everything else, so it may strike anywhere.
StartToClose(t) ==
  /\ task[t] = "started"
  /\ GiveUpAttempt(t)

HeartbeatMissed(t) ==
  /\ task[t] = "started" /\ HeartbeatTimeout > 0 /\ silence[t] >= HeartbeatTimeout
  /\ GiveUpAttempt(t)

\* A report ends the worker's run of the attempt and, unless the service has
\* given the attempt up, the task.
Report(w, t, close) ==
  /\ exec' = [exec EXCEPT ![w][t] = Idle]
  /\ IF Current(w, t) THEN close ELSE UNCHANGED task

-----------------------------------------------------------------------------
(* execute_function *)

NonRetryable(t, failure) == task' = [task EXCEPT ![t] = failure]

Refuse(w, t) ==
  /\ exec[w][t].step = "received"
  /\ \/ t \in malformed /\ Report(w, t, NonRetryable(t, "InvalidFunctionInput"))
     \/ /\ t \notin malformed \union Handlers[w]
        /\ Report(w, t, NonRetryable(t, "FunctionNotFound"))
  /\ UNCHANGED <<malformed, attempt, silence, excused, timeouts>>

StartHandler(w, t) ==
  /\ exec[w][t].step = "received" /\ t \in Handlers[w] \ malformed
  /\ Step(w, t, "handler")
  /\ UNCHANGED <<malformed, task, attempt, silence, excused, timeouts>>

\* The handler stops yielding to the runtime, and yields again.
Block(w, t) ==
  /\ exec[w][t].step = "handler"
  /\ Step(w, t, "blocked")
  /\ excused' = IF Current(w, t) THEN [excused EXCEPT ![t] = TRUE] ELSE excused
  /\ UNCHANGED <<malformed, task, attempt, silence, timeouts>>

Unblock(w, t) ==
  /\ exec[w][t].step = "blocked"
  /\ Step(w, t, "handler")
  /\ UNCHANGED <<malformed, task, attempt, silence, excused, timeouts>>

\* Mutant of Interval: the ticker at the timeout itself.
FullTimeout == HeartbeatTimeout

\* d / 2; a zero interval, as no timeout, means no ticker.
Interval == HeartbeatTimeout \div 2

TickerDue(w, t) ==
  exec[w][t].step = "handler" /\ Interval > 0 /\ exec[w][t].ticks >= Interval

\* An error of record_heartbeat is ignored.
RecordHeartbeat(w, t) ==
  /\ TickerDue(w, t)
  /\ exec' = [exec EXCEPT ![w][t].ticks = 0]
  /\ IF Current(w, t)
     THEN \/ silence' = [silence EXCEPT ![t] = 0] /\ UNCHANGED excused
          \/ excused' = [excused EXCEPT ![t] = TRUE] /\ UNCHANGED silence
     ELSE UNCHANGED <<silence, excused>>
  /\ UNCHANGED <<malformed, task, attempt, timeouts>>

\* Mutant of Outcome: a handler's error fails the activity, which is retried.
ErrIsFailure(t, r) ==
  IF r = "ok" THEN task' = [task EXCEPT ![t] = "success"] ELSE RetryOr(t, "failure")

\* An error completes the activity too, with success = false.
Outcome(t, r) ==
  task' = [task EXCEPT ![t] = IF r = "ok" THEN "success" ELSE "failure"]

\* A panic is caught and counts as an error.
HandlerEnds(w, t) ==
  /\ exec[w][t].step = "handler"
  /\ \E r \in {"ok", "err"} : Step(w, t, r)
  /\ UNCHANGED <<malformed, task, attempt, silence, excused, timeouts>>

Complete(w, t) ==
  /\ exec[w][t].step \in {"ok", "err"}
  /\ Report(w, t, Outcome(t, exec[w][t].step))
  /\ UNCHANGED <<malformed, attempt, silence, excused, timeouts>>

\* Time does not pass a ticker that is due, nor the start and the end of an
\* activity.
Tick ==
  /\ \E t \in Tasks : task[t] = "started" /\ silence[t] < HeartbeatTimeout
  /\ \A w \in Workers, t \in Tasks :
       exec[w][t].step \in {"none", "handler", "blocked"} /\ ~TickerDue(w, t)
  /\ silence' = [t \in Tasks |->
       IF silence[t] < HeartbeatTimeout THEN silence[t] + 1 ELSE silence[t]]
  /\ exec' = [w \in Workers |-> [t \in Tasks |->
       IF Runs(w, t) /\ exec[w][t].ticks < Interval
       THEN [exec[w][t] EXCEPT !.ticks = @ + 1] ELSE exec[w][t]]]
  /\ UNCHANGED <<malformed, task, attempt, excused, timeouts>>

Activity(w, t) ==
  \/ Refuse(w, t) \/ StartHandler(w, t) \/ Block(w, t) \/ Unblock(w, t)
  \/ RecordHeartbeat(w, t) \/ HandlerEnds(w, t) \/ Complete(w, t)

\* The worker is gone, and with it what it ran.
Drop(w) ==
  /\ exec' = [exec EXCEPT ![w] = [t \in Tasks |-> Idle]]
  /\ UNCHANGED <<malformed, task, attempt, silence, excused, timeouts>>

FunctionInit ==
  /\ malformed \in SUBSET Tasks
  /\ task = [t \in Tasks |-> "none"]
  /\ attempt = [t \in Tasks |-> 0]
  /\ exec = [w \in Workers |-> [t \in Tasks |-> Idle]]
  /\ silence = [t \in Tasks |-> 0]
  /\ excused = [t \in Tasks |-> FALSE]
  /\ timeouts = [t \in Tasks |-> 0]
=============================================================================
