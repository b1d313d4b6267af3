------------------------- MODULE ConcurrentExecutor -------------------------
(***************************************************************************)
(* altair_concurrent::execute_concurrently: several calls, each with its   *)
(* own JoinSet of named tasks, that share one cancellation token (each     *)
(* call clones the token the caller attached, it makes no child of it).    *)
(*                                                                         *)
(* A call spawns its tasks at once and then waits in join_next for one to  *)
(* finish, with a timeout that starts anew at each wait.  Tasks finish,    *)
(* fail, panic or hang on their own; an abort only takes hold when the     *)
(* task next yields.                                                       *)
(***************************************************************************)
EXTENDS Naturals, FiniteSets

CONSTANTS
  Calls,    \* calls to execute_concurrently that share a token
  Tasks,    \* names of the tasks of one call
  Timeout   \* with_timeout, in ticks of the clock

ASSUME ExecutorAssumption == Timeout \in Nat \ {0} /\ IsFiniteSet(Tasks)

Finished == {"ok", "err", "panic"}
Configs  == [partial : BOOLEAN, timed : BOOLEAN]
Errors   == {"TaskFailed", "Cancelled", "Timeout", "Join"}

VARIABLES
  config,   \* mode and timeout of each call
  token,    \* the shared cancellation token has fired
  task,     \* running, aborted, or how the task finished
  set,      \* tasks still in the JoinSet of each call
  aborting, \* the JoinSet has been told to abort its tasks
  results,  \* the map of outcomes each call has collected
  pc,       \* join, shutdown (draining the set), returned, or dropped
  result,   \* what the call returns once it has
  waited,   \* ticks since the call entered its current wait
  elapsed   \* ticks since the call started

vars == <<config, token, task, set, aborting, results, pc, result, waited,
          elapsed>>

-----------------------------------------------------------------------------
(* Tasks *)

Settle(c, t, state) ==
  /\ task[c][t] = "running"
  /\ task' = [task EXCEPT ![c][t] = state]
  /\ UNCHANGED <<config, token, set, aborting, results, pc, result, waited, elapsed>>

\* A task runs to its end.
Finish(c, t) == \E state \in Finished : Settle(c, t, state)

\* A task that was told to abort yields and is dropped.
Abort(c, t) == aborting[c] /\ Settle(c, t, "aborted")

\* The caller fires its token.
CancelToken ==
  /\ ~token
  /\ token' = TRUE
  /\ UNCHANGED <<config, task, set, aborting, results, pc, result, waited, elapsed>>

-----------------------------------------------------------------------------
(* One call *)

Return(c, r) ==
  /\ pc' = [pc EXCEPT ![c] = "returned"]
  /\ result' = [result EXCEPT ![c] = r]

\* Mutants of ShutdownThen: the tasks are waited for but not told to abort;
\* they are told to abort but not waited for.
DrainThen(c, r) ==
  /\ token' = TRUE
  /\ pc' = [pc EXCEPT ![c] = "shutdown"]
  /\ result' = [result EXCEPT ![c] = r]
  /\ UNCHANGED aborting
AbortThen(c, r) ==
  /\ token' = TRUE
  /\ aborting' = [aborting EXCEPT ![c] = TRUE]
  /\ Return(c, r)

\* set.shutdown().await, then return r: the tasks are told to abort here,
\* the call goes on when all of them are out of the set.
ShutdownThen(c, r) ==
  /\ token' = TRUE
  /\ aborting' = [aborting EXCEPT ![c] = TRUE]
  /\ pc' = [pc EXCEPT ![c] = "shutdown"]
  /\ result' = [result EXCEPT ![c] = r]

\* Leaving the function drops the JoinSet, which aborts what is left in it
\* without waiting.
DropSet(c) == aborting' = [aborting EXCEPT ![c] = TRUE]

Ready(c) == {t \in set[c] : task[c][t] \in Finished}

\* Mutant of Record: a call in either mode gives up its results.
RecordInAnyMode(c, t, outcome) ==
  /\ results' = [results EXCEPT ![c] = @ \union {<<t, outcome>>}]
  /\ waited' = [waited EXCEPT ![c] = 0]
  /\ IF token /\ set[c] = {t} THEN Return(c, "Cancelled") ELSE UNCHANGED <<pc, result>>
  /\ UNCHANGED <<token, aborting>>

\* The outcome is recorded; a cancelled fail-fast call whose set is now
\* empty gives up its results.
Record(c, t, outcome) ==
  /\ results' = [results EXCEPT ![c] = @ \union {<<t, outcome>>}]
  /\ waited' = [waited EXCEPT ![c] = 0]
  /\ IF ~config[c].partial /\ token /\ set[c] = {t}
     THEN Return(c, "Cancelled")
     ELSE UNCHANGED <<pc, result>>
  /\ UNCHANGED <<token, aborting>>

\* Mutants of Panicked: a panic is recorded like an error of the task; the
\* other tasks are detached (detach_all) before returning.
PanicAsOutcome(c, t) == task[c][t] = "panic" /\ Record(c, t, "panic")
PanicDetaches(c, t) ==
  /\ task[c][t] = "panic"
  /\ Return(c, "Join")
  /\ UNCHANGED <<token, aborting, results, waited>>

\* join_next answers Some(Err): returned at once, as Error::Join.
Panicked(c, t) ==
  /\ task[c][t] = "panic"
  /\ DropSet(c)
  /\ Return(c, "Join")
  /\ UNCHANGED <<token, results, waited>>

\* join_next hands over a finished task, in any order.
Join(c, t) ==
  /\ pc[c] = "join"
  /\ t \in Ready(c)
  /\ set' = [set EXCEPT ![c] = @ \ {t}]
  /\ \/ /\ task[c][t] = "ok"
        /\ Record(c, t, "ok")
     \/ /\ task[c][t] = "err" /\ config[c].partial
        /\ Record(c, t, "err")
     \/ /\ task[c][t] = "err" /\ ~config[c].partial
        /\ ShutdownThen(c, "TaskFailed")
        /\ UNCHANGED <<results, waited>>
     \/ Panicked(c, t)
  /\ UNCHANGED <<config, task, elapsed>>

\* Mutant of AllJoined: try_join_next, which also answers None when no task
\* is ready yet.
NothingReady(c) ==
  /\ pc[c] = "join"
  /\ Ready(c) = {}
  /\ Return(c, "Ok")
  /\ UNCHANGED <<config, token, task, set, aborting, results, waited, elapsed>>

\* join_next answers None: every task has been joined.
AllJoined(c) ==
  /\ pc[c] = "join"
  /\ set[c] = {}
  /\ Return(c, "Ok")
  /\ UNCHANGED <<config, token, task, set, aborting, results, waited, elapsed>>

\* The wait's timeout elapses: tokio polls the wait itself first, so a task
\* that is ready wins.
TimeOut(c) ==
  /\ pc[c] = "join"
  /\ config[c].timed
  /\ waited[c] >= Timeout
  /\ set[c] # {} /\ Ready(c) = {}
  /\ ShutdownThen(c, "Timeout")
  /\ UNCHANGED <<config, task, set, results, waited, elapsed>>

\* shutdown() returns once every aborted or finished task is out of the set.
ShutdownDone(c) ==
  /\ pc[c] = "shutdown"
  /\ \A t \in set[c] : task[c][t] # "running"
  /\ set' = [set EXCEPT ![c] = {}]
  /\ pc' = [pc EXCEPT ![c] = "returned"]
  /\ UNCHANGED <<config, token, task, aborting, results, result, waited, elapsed>>

\* The caller drops the future before it resolves.
CallerDrops(c) ==
  /\ pc[c] \in {"join", "shutdown"}
  /\ DropSet(c)
  /\ pc' = [pc EXCEPT ![c] = "dropped"]
  /\ result' = [result EXCEPT ![c] = "none"]
  /\ UNCHANGED <<config, token, task, set, results, waited, elapsed>>

\* Time passes for a waiting call, up to the moment its timeout is due.
Tick(c) ==
  /\ pc[c] = "join"
  /\ config[c].timed
  /\ waited[c] < Timeout
  /\ waited' = [waited EXCEPT ![c] = @ + 1]
  /\ elapsed' = [elapsed EXCEPT ![c] = @ + 1]
  /\ UNCHANGED <<config, token, task, set, aborting, results, pc, result>>

-----------------------------------------------------------------------------

\* spawn_tasks: every task is in the set and runs from the start.
Init ==
  /\ config \in [Calls -> Configs]
  /\ token = FALSE
  /\ task = [c \in Calls |-> [t \in Tasks |-> "running"]]
  /\ set = [c \in Calls |-> Tasks]
  /\ aborting = [c \in Calls |-> FALSE]
  /\ results = [c \in Calls |-> {}]
  /\ pc = [c \in Calls |-> "join"]
  /\ result = [c \in Calls |-> "none"]
  /\ waited = [c \in Calls |-> 0]
  /\ elapsed = [c \in Calls |-> 0]

CallStep(c) ==
  (\E t \in Tasks : Join(c, t)) \/ AllJoined(c) \/ TimeOut(c) \/ ShutdownDone(c)

Next ==
  \/ CancelToken
  \/ \E c \in Calls :
       \/ AllJoined(c) \/ TimeOut(c) \/ ShutdownDone(c)
       \/ CallerDrops(c) \/ Tick(c)
       \/ \E t \in Tasks : Join(c, t) \/ Finish(c, t) \/ Abort(c, t)

Spec == Init /\ [][Next]_vars

\* The runtime polls a call that can proceed, its timer fires, and a task
\* told to abort yields at some point.  Nothing makes a task finish.
FairSpec ==
  /\ Spec
  /\ \A c \in Calls : WF_vars(CallStep(c)) /\ WF_vars(Tick(c))
  /\ \A c \in Calls, t \in Tasks : WF_vars(Abort(c, t))

-----------------------------------------------------------------------------
(* Properties *)

\* Every variable keeps its type.
TypeOK ==
  /\ config \in [Calls -> Configs]
  /\ token \in BOOLEAN
  /\ task \in [Calls -> [Tasks -> {"running", "aborted"} \union Finished]]
  /\ set \in [Calls -> SUBSET Tasks]
  /\ aborting \in [Calls -> BOOLEAN]
  /\ results \in [Calls -> SUBSET (Tasks \X {"ok", "err"})]
  /\ pc \in [Calls -> {"join", "shutdown", "returned", "dropped"}]
  /\ result \in [Calls -> {"none", "Ok"} \union Errors]
  /\ waited \in [Calls -> 0 .. Timeout]
  /\ elapsed \in [Calls -> Nat]

\* A call that answers Ok hands back exactly one outcome for each task, the
\* one the task ended with; in fail-fast mode all of them are successes.
OkMeansComplete ==
  \A c \in Calls :
    pc[c] = "returned" /\ result[c] = "Ok" =>
      /\ results[c] = {<<t, task[c][t]>> : t \in Tasks}
      /\ config[c].partial \/ \A t \in Tasks : task[c][t] = "ok"

\* No task outlives its call: when the call has returned, unless a panic cut
\* it short, every task has finished or been dropped.
SettledOnReturn ==
  \A c \in Calls :
    pc[c] = "returned" /\ result[c] # "Join" =>
      \A t \in Tasks : task[c][t] # "running"

\* A panic or a dropped call leaves tasks behind, but not for ever.
StragglersStop ==
  \A c \in Calls :
    pc[c] \in {"returned", "dropped"} ~> \A t \in Tasks : task[c][t] # "running"

\* A call with a timeout comes back although its tasks hang.
TimedCallReturns ==
  \A c \in Calls :
    config[c].timed ~> pc[c] \in {"returned", "dropped"}

\* "Apply an overall timeout": a call that answers Ok took no longer.
OverallTimeout ==
  \A c \in Calls :
    config[c].timed /\ pc[c] = "returned" /\ result[c] = "Ok" =>
      elapsed[c] <= Timeout

\* The refinement mapping: a verdict is what the call shuts down with, an
\* answer is given when it returns, and the outcomes with an Ok.
verdict ==
  [c \in Calls |-> IF pc[c] \in {"shutdown", "returned"} /\ result[c] \in {"TaskFailed", "Timeout"}
                   THEN result[c] ELSE "none"]
answer ==
  [c \in Calls |-> IF pc[c] = "returned" THEN result[c]
                   ELSE IF pc[c] = "dropped" THEN "dropped" ELSE "none"]
report ==
  [c \in Calls |-> IF pc[c] = "returned" /\ result[c] = "Ok" THEN results[c] ELSE {}]

Abstract == INSTANCE TaskGroup

\* The executor implements the group of tasks its caller sees: an answer is
\* a matter of how all tasks ended, a call that is answered Timeout had a
\* task running, and only its own call cuts a task short.
RefinesTaskGroup == Abstract!Spec
=============================================================================
