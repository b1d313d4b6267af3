----------------------------- MODULE Deployment -----------------------------
(***************************************************************************)
(* Processes around one Temporal service, as the examples' mains build     *)
(* them from altair-temporal and altair-wf.  A scheduled process registers *)
(* its plan of schedules and then runs its worker until a signal           *)
(* (scheduled_all, scheduled_workflow); a one-shot process joins its       *)
(* worker with a workload that starts a workflow and resolves the worker's *)
(* shutdown future by ending (hello_*, function_registry,                  *)
(* datasync_chunked).  Two scheduled processes with different registries   *)
(* are a rolling deployment.                                               *)
(***************************************************************************)
EXTENDS Worker, Schedule, Sequences

CONSTANTS
  Plan,   \* SCHEDULE_PLAN: the schedule ids in order
  Kinds,  \* what the processes may be: scheduled or oneshot
  Ops     \* other callers of the schedule service

ASSUME DeploymentAssumption ==
  /\ Plan \in Seq(Schedules)
  /\ Callers = Workers \union Ops /\ Workers \intersect Ops = {}
  /\ Kinds \subseteq [Workers -> {"scheduled", "oneshot"}]

VARIABLES
  kind,     \* per process, fixed
  done,     \* schedules of the plan registered
  workload  \* of a one-shot process: none, start, await, ok, err

mainVars == <<kind, done, workload>>
deploymentVars == <<functionVars, workerVars, scheduleVars, mainVars>>

FullBuilder == [action |-> TRUE, trigger |-> TRUE, typed |-> FALSE]

-----------------------------------------------------------------------------
(* main *)

WorkerStep(step) == step /\ UNCHANGED <<scheduleVars, mainVars>>

\* A second client; then the plan, or worker and workload joined.
MainConnect(w) ==
  /\ phase[w] = "built"
  /\ \/ /\ Become(w, "returned") /\ outcome' = [outcome EXCEPT ![w] = "Err"]
        /\ UNCHANGED workload
     \/ /\ kind[w] = "scheduled" /\ Become(w, "register")
        /\ UNCHANGED <<outcome, workload>>
     \/ /\ kind[w] = "oneshot" /\ Become(w, "run")
        /\ workload' = [workload EXCEPT ![w] = "start"]
        /\ UNCHANGED outcome
  /\ UNCHANGED <<stop, cut, lost, kind, done, functionVars, scheduleVars>>

\* register_schedules, one create_or_update after the other.
RegisterNext(w) ==
  /\ phase[w] = "register" /\ done[w] < Len(Plan) /\ call[w].step = "idle"
  /\ Begin(w, "create_or_update", Plan[done[w] + 1], FullBuilder)
  /\ UNCHANGED <<functionVars, workerVars, mainVars>>

RegisterRpc(w) ==
  /\ phase[w] = "register"
  /\ Rpc(w)
  /\ UNCHANGED <<functionVars, workerVars, mainVars>>

Registered(w) ==
  /\ phase[w] = "register" /\ call[w].step = "Ok"
  /\ Answer(w, "idle")
  /\ done' = [done EXCEPT ![w] = @ + 1]
  /\ UNCHANGED <<store, late, installed, kind, workload, functionVars, workerVars>>

\* `?` : the schedules registered so far stay.
RegisterFails(w) ==
  /\ phase[w] = "register" /\ call[w].step \in {"Schedule", "Configuration"}
  /\ Become(w, "returned") /\ outcome' = [outcome EXCEPT ![w] = "Err"]
  /\ Answer(w, "idle")
  /\ UNCHANGED <<stop, cut, lost, store, late, installed, functionVars, mainVars>>

RunWorker(w) ==
  /\ phase[w] = "register" /\ done[w] = Len(Plan)
  /\ Become(w, "run")
  /\ UNCHANGED <<stop, outcome, cut, lost, functionVars, scheduleVars, mainVars>>

\* A request under way when the process dies may still land.
MainCrash(w) ==
  /\ Crash(w)
  /\ Answer(w, "idle")
  /\ \/ call[w].step \in {"create", "write"} /\ GiveUp(w)
     \/ call[w].step \notin {"create", "write"} /\ UNCHANGED late
  /\ UNCHANGED <<store, installed, mainVars>>

\* SIGINT or SIGTERM; ctrl_c() resolves as well when it cannot be installed.
Signal(w) ==
  /\ kind[w] = "scheduled" /\ phase[w] = "run" /\ ~stop[w]
  /\ stop' = [stop EXCEPT ![w] = TRUE]
  /\ UNCHANGED <<phase, outcome, cut, lost, functionVars, scheduleVars, mainVars>>

\* start_workflow, get_result; the sender of the shutdown channel is used or
\* dropped at the end, and either resolves the receiver.
WorkloadStep(w) ==
  /\ phase[w] # "crashed"
  /\ \/ workload[w] = "start" /\ workload' = [workload EXCEPT ![w] = "await"]
     \/ /\ workload[w] = "await" /\ \E t \in Tasks : task[t] \in Closed
        /\ workload' = [workload EXCEPT ![w] = "ok"]
     \/ /\ workload[w] \in {"start", "await"}
        /\ workload' = [workload EXCEPT ![w] = "err"]
  /\ stop' = [stop EXCEPT ![w] = workload'[w] \in {"ok", "err"}]
  /\ UNCHANGED <<phase, outcome, cut, lost, kind, done, functionVars, scheduleVars>>

-----------------------------------------------------------------------------
(* The service, and whoever else uses it *)

\* Each of them makes one call (bound), while the only scheduled process
\* registers its plan: two such processes race each other.
OpsCall(o) ==
  /\ \/ /\ call[o].step = "idle"
        /\ \E w \in Workers : /\ phase[w] = "register"
                              /\ \A v \in Workers \ {w} : kind[v] = "oneshot"
        /\ \E op \in {"create", "update", "delete", "delete_if_exists"},
              s \in Schedules, b \in Builders : Begin(o, op, s, b)
     \/ Rpc(o)
  /\ UNCHANGED <<functionVars, workerVars, mainVars>>

LandLate ==
  /\ \E m \in late : Land(m)
  /\ UNCHANGED <<functionVars, workerVars, mainVars>>

\* A schedule fires, or a workload's workflow gets to its activity.
Fire(t) ==
  /\ (\E s \in Schedules : store[s] # Absent) \/ \E w \in Workers : workload[w] = "await"
  /\ Dispatch(t)
  /\ UNCHANGED <<workerVars, scheduleVars, mainVars>>

Elapse(step) == step /\ UNCHANGED <<workerVars, scheduleVars, mainVars>>

Init ==
  /\ WorkerInit /\ ScheduleInit
  /\ kind \in Kinds
  /\ done = [w \in Workers |-> 0]
  /\ workload = [w \in Workers |-> "none"]

Next ==
  \/ \E w \in Workers :
       \/ WorkerStep(BuildWorker(w)) \/ WorkerStep(SdkFails(w))
       \/ WorkerStep(InitiateDrain(w)) \/ WorkerStep(Drained(w))
       \/ WorkerStep(DrainDeadline(w))
       \/ \E t \in Tasks : WorkerStep(WorkerActivity(w, t))
       \/ MainConnect(w) \/ RegisterNext(w) \/ RegisterRpc(w) \/ Registered(w)
       \/ RegisterFails(w) \/ RunWorker(w) \/ MainCrash(w) \/ Signal(w) \/ WorkloadStep(w)
  \/ \E o \in Ops : OpsCall(o)
  \/ LandLate
  \/ \E t \in Tasks : Fire(t) \/ Elapse(StartToClose(t)) \/ Elapse(HeartbeatMissed(t))
  \/ Elapse(Tick)

Spec == Init /\ [][Next]_deploymentVars

\* run_with_shutdown is polled and its timer fires; handlers, the service and
\* the SDK owe nothing: a run that is told to shut down need not return, with
\* activities running or without.
FairSpec ==
  /\ Spec
  /\ \A w \in Workers :
       /\ WF_deploymentVars(WorkerStep(InitiateDrain(w)))
       /\ WF_deploymentVars(WorkerStep(DrainDeadline(w)))

-----------------------------------------------------------------------------
(* Properties *)

\* A scheduled process takes work only after every schedule of its plan has
\* stood in the service with this process's trigger, however creates and
\* updates of the other processes, lost answers and late requests fell.
RunsOnlyPlanned ==
  \A w \in Workers :
    kind[w] = "scheduled" /\ phase[w] \in {"run", "drain"} =>
      \A i \in 1 .. Len(Plan) : <<w, Plan[i]>> \in installed

\* The service misses the heartbeat of a handler at a live worker only if
\* the handler stopped yielding or a heartbeat was lost.
HeartbeatKeepsAlive ==
  \A t \in Tasks :
    task[t] = "started" /\ silence[t] >= HeartbeatTimeout /\ ~excused[t] =>
      \A w \in Workers : ~Current(w, t)

\* What execute_function answers is final: a handler that fails or panics, a
\* malformed name and a missing handler cost no further attempt; only the
\* service's own timeouts do.
RetriesAreTimeouts == \A t \in Tasks : attempt[t] <= 1 + timeouts[t]

\* A shutdown is a drain: a worker that returns Ok before its deadline has
\* reported every attempt it took.
DrainFinishesWork ==
  \A w \in Workers : outcome[w] = "Ok" /\ ~cut[w] => ~lost[w]

\* A worker whose shutdown future has resolved returns, although a handler
\* hangs or the SDK's run does not acknowledge the shutdown; so does main's
\* join when the workload fails before it starts.
WorkerStops ==
  \A w \in Workers : stop[w] ~> phase[w] \in {"returned", "crashed"}
=============================================================================
