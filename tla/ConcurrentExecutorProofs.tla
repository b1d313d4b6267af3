---------------------- MODULE ConcurrentExecutorProofs ----------------------
(***************************************************************************)
(* Proofs about ConcurrentExecutor, for every set of calls and tasks and   *)
(* every timeout.                                                          *)
(***************************************************************************)
EXTENDS ConcurrentExecutor, TLAPS

-----------------------------------------------------------------------------
(* The inductive invariant *)

\* A task out of the set has ended.
JoinedHasEnded(c) == \A t \in Tasks : t \notin set[c] => task[c][t] # "running"

\* The results are the outcomes of the tasks out of the set, and in
\* fail-fast mode these are successes.
ResultsAreOutcomes(c) ==
  /\ \A t \in Tasks, o \in {"ok", "err"} :
       <<t, o>> \in results[c] <=> t \notin set[c] /\ o = task[c][t]
  /\ \A t \in Tasks : t \notin set[c] =>
       task[c][t] = "ok" \/ (config[c].partial /\ task[c][t] = "err")

\* How a call leaves the loop of its executor.
WayOut(c) ==
  /\ pc[c] = "shutdown" => result[c] \in {"TaskFailed", "Timeout"}
  /\ pc[c] = "returned" /\ result[c] = "Ok" => set[c] = {}
  /\ pc[c] = "returned" /\ result[c] # "Join" =>
       \A t \in Tasks : task[c][t] # "running"

\* A call in its loop has cut no task short.
NoneCutShort(c) ==
  pc[c] = "join" => ~aborting[c] /\ \A t \in Tasks : task[c][t] # "aborted"

CallInv(c) ==
  /\ NoneCutShort(c)
  /\ JoinedHasEnded(c)
  /\ pc[c] = "join" \/ (pc[c] = "returned" /\ result[c] = "Ok") =>
       ResultsAreOutcomes(c)
  /\ WayOut(c)

IInv == TypeOK /\ \A c \in Calls : CallInv(c)

-----------------------------------------------------------------------------
(* Type correctness is kept by every step *)

\* A timeout of at least one tick leaves the clocks their types.
LEMMA InitType == Init => TypeOK
<1> SUFFICES ASSUME Init PROVE TypeOK
  OBVIOUS
<1>1. waited \in [Calls -> 0 .. Timeout] /\ elapsed \in [Calls -> Nat]
  BY ExecutorAssumption DEF ExecutorAssumption, Init
<1>2. task \in [Calls -> [Tasks -> {"running", "aborted"} \union Finished]]
  BY DEF Init
<1>3. /\ results \in [Calls -> SUBSET (Tasks \X {"ok", "err"})]
      /\ set \in [Calls -> SUBSET Tasks]
      /\ aborting \in [Calls -> BOOLEAN] /\ token \in BOOLEAN
  BY DEF Init
<1> QED BY <1>1, <1>2, <1>3 DEF Init, TypeOK

\* The step a call takes when join_next hands over a task.
LEMMA JoinType ==
  ASSUME TypeOK, NEW c \in Calls, NEW t \in Tasks, Join(c, t)
  PROVE  TypeOK'
<1> USE ExecutorAssumption DEF ExecutorAssumption, TypeOK
<1>1. /\ UNCHANGED <<config, task, elapsed>>
      /\ set' = [set EXCEPT ![c] = @ \ {t}]
  BY DEF Join
<1>2. set' \in [Calls -> SUBSET Tasks]
  BY <1>1
<1>3. ASSUME NEW o \in {"ok", "err"}, Record(c, t, o) PROVE TypeOK'
  <2>1. results' \in [Calls -> SUBSET (Tasks \X {"ok", "err"})]
    BY <1>3 DEF Record
  <2>2. waited' \in [Calls -> 0 .. Timeout]
    BY <1>3 DEF Record
  <2>3. /\ pc' \in [Calls -> {"join", "shutdown", "returned", "dropped"}]
        /\ result' \in [Calls -> {"none", "Ok"} \union Errors]
    BY <1>3 DEF Record, Return, Errors
  <2> QED BY <1>1, <1>2, <1>3, <2>1, <2>2, <2>3 DEF Record
<1>4. CASE ShutdownThen(c, "TaskFailed") /\ UNCHANGED <<results, waited>>
  BY <1>1, <1>2, <1>4 DEF ShutdownThen, Errors
<1>5. CASE Panicked(c, t)
  BY <1>1, <1>2, <1>5 DEF Panicked, DropSet, Return, Errors
<1> QED BY <1>3, <1>4, <1>5 DEF Join

\* No step takes a variable out of its type; a full wait does not tick.
LEMMA StepType == TypeOK /\ [Next]_vars => TypeOK'
<1> SUFFICES ASSUME TypeOK, [Next]_vars PROVE TypeOK'
  OBVIOUS
<1> USE ExecutorAssumption DEF ExecutorAssumption, TypeOK
<1>1. CASE CancelToken
  BY <1>1 DEF CancelToken
<1>2. CASE UNCHANGED vars
  BY <1>2 DEF vars
<1>3. ASSUME NEW c \in Calls, AllJoined(c) PROVE TypeOK'
  BY <1>3 DEF AllJoined, Return
<1>4. ASSUME NEW c \in Calls, TimeOut(c) PROVE TypeOK'
  BY <1>4 DEF TimeOut, ShutdownThen, Errors
<1>5. ASSUME NEW c \in Calls, ShutdownDone(c) PROVE TypeOK'
  BY <1>5 DEF ShutdownDone
<1>6. ASSUME NEW c \in Calls, CallerDrops(c) PROVE TypeOK'
  BY <1>6 DEF CallerDrops, DropSet
<1>7. ASSUME NEW c \in Calls, Tick(c) PROVE TypeOK'
  BY <1>7 DEF Tick
<1>8. ASSUME NEW c \in Calls, NEW t \in Tasks,
             NEW state \in Finished \union {"aborted"}, Settle(c, t, state)
      PROVE  TypeOK'
  BY <1>8 DEF Settle
<1> QED
  BY <1>1, <1>2, <1>3, <1>4, <1>5, <1>6, <1>7, <1>8, JoinType
  DEF Next, Finish, Abort

-----------------------------------------------------------------------------
(* A step of one call keeps what is known of each *)

\* A call keeps its invariant when nothing of it changes.
LEMMA Untouched ==
  ASSUME NEW d \in Calls, CallInv(d),
         config'[d] = config[d], task'[d] = task[d], set'[d] = set[d],
         results'[d] = results[d], pc'[d] = pc[d], result'[d] = result[d],
         aborting'[d] = aborting[d]
  PROVE  CallInv(d)'
BY DEF CallInv, NoneCutShort, JoinedHasEnded, ResultsAreOutcomes, WayOut

\* A task only ends while it is in the set of its call, and then its call
\* has no Ok to take back.
LEMMA SettleKeeps ==
  ASSUME IInv, NEW c \in Calls, NEW t \in Tasks,
         NEW state \in Finished \union {"aborted"}, Settle(c, t, state),
         state = "aborted" => aborting[c], NEW d \in Calls
  PROVE  CallInv(d)'
<1> USE DEF IInv, TypeOK, Settle
<1>1. CASE d # c
  BY <1>1, Untouched
<1>2. CASE d = c
  <2>1. t \in set[c] /\ task'[c][t] # "running"
    BY DEF CallInv, JoinedHasEnded, Finished
  <2>2. \A u \in Tasks : u # t => task'[c][u] = task[c][u]
    OBVIOUS
  <2>3. JoinedHasEnded(c)'
    BY <2>1, <2>2 DEF CallInv, JoinedHasEnded
  <2>4. ResultsAreOutcomes(c) => ResultsAreOutcomes(c)'
    BY <2>1, <2>2 DEF ResultsAreOutcomes
  <2>5. WayOut(c)'
    BY <2>1, <2>2 DEF CallInv, WayOut
  <2>6. NoneCutShort(c)'
    <3>1. task'[c][t] = state
      OBVIOUS
    <3> QED BY <2>2, <3>1 DEF CallInv, NoneCutShort
  <2> QED BY <1>2, <2>3, <2>4, <2>5, <2>6 DEF CallInv
<1> QED BY <1>1, <1>2

\* Recording an outcome: the task leaves the set and enters the results.
LEMMA RecordKeeps ==
  ASSUME IInv, NEW c \in Calls, NEW t \in Tasks, Join(c, t),
         NEW o \in {"ok", "err"}, task[c][t] = o,
         o = "ok" \/ config[c].partial, Record(c, t, o)
  PROVE  CallInv(c)'
<1> USE DEF IInv, TypeOK
<1>1. /\ pc[c] = "join" /\ t \in set[c] /\ task' = task /\ config' = config
      /\ set'[c] = set[c] \ {t}
  BY DEF Join, Ready
<1>2. results'[c] = results[c] \union {<<t, o>>}
  BY DEF Record
<1>3. ResultsAreOutcomes(c) /\ JoinedHasEnded(c)
  BY <1>1 DEF CallInv
<1>4. ResultsAreOutcomes(c)'
  <2>1. ASSUME NEW u \in Tasks, NEW p \in {"ok", "err"}
        PROVE  <<u, p>> \in results'[c] <=> u \notin set'[c] /\ p = task'[c][u]
    BY <1>1, <1>2, <1>3 DEF ResultsAreOutcomes
  <2>2. ASSUME NEW u \in Tasks, u \notin set'[c]
        PROVE  task'[c][u] = "ok" \/ (config'[c].partial /\ task'[c][u] = "err")
    BY <1>1, <1>3, <2>2 DEF ResultsAreOutcomes
  <2> QED BY <2>1, <2>2 DEF ResultsAreOutcomes
<1>5. JoinedHasEnded(c)'
  BY <1>1, <1>3 DEF JoinedHasEnded
<1>6. WayOut(c)'
  <2>1. CASE Return(c, "Cancelled") /\ set[c] = {t}
    BY <1>1, <1>5, <2>1 DEF Return, WayOut, JoinedHasEnded
  <2>2. CASE UNCHANGED <<pc, result>>
    BY <1>1, <2>2 DEF WayOut
  <2> QED BY <2>1, <2>2 DEF Record
<1>7. NoneCutShort(c)'
  BY <1>1 DEF CallInv, NoneCutShort, Record, Return
<1> QED BY <1>4, <1>5, <1>6, <1>7 DEF CallInv

\* Whatever join_next hands over.
LEMMA JoinKeeps ==
  ASSUME IInv, NEW c \in Calls, NEW t \in Tasks, Join(c, t), NEW d \in Calls
  PROVE  CallInv(d)'
<1> USE DEF IInv, TypeOK
<1>1. /\ pc[c] = "join" /\ t \in set[c] /\ task[c][t] \in Finished
      /\ task' = task /\ config' = config
      /\ set'[c] = set[c] \ {t} /\ \A e \in Calls : e # c => set'[e] = set[e]
  BY DEF Join, Ready
<1>2. JoinedHasEnded(c)'
  BY <1>1 DEF CallInv, JoinedHasEnded, Finished
<1>3. CASE d # c
  <2>1. /\ results'[d] = results[d] /\ pc'[d] = pc[d] /\ result'[d] = result[d]
        /\ aborting'[d] = aborting[d]
    BY <1>3 DEF Join, Record, Panicked, DropSet, ShutdownThen, Return
  <2> QED BY <1>1, <1>3, <2>1, Untouched
<1>4. ASSUME ShutdownThen(c, "TaskFailed") PROVE CallInv(c)'
  BY <1>2, <1>4 DEF ShutdownThen, CallInv, NoneCutShort, WayOut
<1>5. ASSUME Panicked(c, t) PROVE CallInv(c)'
  BY <1>2, <1>5 DEF Panicked, Return, CallInv, NoneCutShort, WayOut
<1> QED
  BY <1>3, <1>4, <1>5, RecordKeeps DEF Join

-----------------------------------------------------------------------------
(* The invariant holds at the start and is kept by every step *)

\* Every task is in the set and nothing is recorded.
LEMMA InitInv == Init => IInv
BY InitType
DEF Init, IInv, TypeOK, CallInv, NoneCutShort, JoinedHasEnded, ResultsAreOutcomes, WayOut

\* Each call keeps its invariant whichever call or task takes the step.
LEMMA StepInv == IInv /\ [Next]_vars => IInv'
<1> SUFFICES ASSUME IInv, [Next]_vars, NEW d \in Calls PROVE CallInv(d)'
  BY StepType DEF IInv
<1> USE DEF IInv, TypeOK
<1>1. CASE CancelToken
  BY <1>1, Untouched DEF CancelToken
<1>2. CASE UNCHANGED vars
  BY <1>2, Untouched DEF vars
<1>3. ASSUME NEW c \in Calls, AllJoined(c) PROVE CallInv(d)'
  <2>1. CASE d # c
    BY <1>3, <2>1, Untouched DEF AllJoined, Return
  <2>2. CASE d = c
    BY <1>3, <2>2
    DEF AllJoined, Return, CallInv, NoneCutShort, JoinedHasEnded, ResultsAreOutcomes, WayOut
  <2> QED BY <2>1, <2>2
<1>4. ASSUME NEW c \in Calls, TimeOut(c) PROVE CallInv(d)'
  <2>1. CASE d # c
    BY <1>4, <2>1, Untouched DEF TimeOut, ShutdownThen
  <2>2. CASE d = c
    BY <1>4, <2>2 DEF TimeOut, ShutdownThen, CallInv, NoneCutShort, JoinedHasEnded, WayOut
  <2> QED BY <2>1, <2>2
<1>5. ASSUME NEW c \in Calls, ShutdownDone(c) PROVE CallInv(d)'
  <2>1. CASE d # c
    BY <1>5, <2>1, Untouched DEF ShutdownDone
  <2>2. CASE d = c
    <3>1. \A t \in Tasks : task'[c][t] # "running"
      BY <1>5 DEF ShutdownDone, CallInv, JoinedHasEnded
    <3>2. pc'[c] = "returned" /\ result'[c] \in {"TaskFailed", "Timeout"}
      BY <1>5 DEF ShutdownDone, CallInv, WayOut
    <3> QED BY <2>2, <3>1, <3>2 DEF CallInv, NoneCutShort, JoinedHasEnded, WayOut
  <2> QED BY <2>1, <2>2
<1>6. ASSUME NEW c \in Calls, CallerDrops(c) PROVE CallInv(d)'
  <2>1. CASE d # c
    BY <1>6, <2>1, Untouched DEF CallerDrops, DropSet
  <2>2. CASE d = c
    BY <1>6, <2>2 DEF CallerDrops, CallInv, NoneCutShort, JoinedHasEnded, WayOut
  <2> QED BY <2>1, <2>2
<1>7. ASSUME NEW c \in Calls, Tick(c) PROVE CallInv(d)'
  BY <1>7, Untouched DEF Tick
<1>8. ASSUME NEW c \in Calls, NEW t \in Tasks, Finish(c, t) \/ Abort(c, t)
      PROVE  CallInv(d)'
  <2>1. PICK state \in Finished \union {"aborted"} :
          Settle(c, t, state) /\ (state = "aborted" => aborting[c])
    BY <1>8 DEF Finish, Abort, Finished
  <2> QED BY <2>1, SettleKeeps
<1> QED
  BY <1>1, <1>2, <1>3, <1>4, <1>5, <1>6, <1>7, <1>8, JoinKeeps DEF Next

-----------------------------------------------------------------------------
(* The theorems *)

\* The invariant holds in every reachable state of the executors.
THEOREM Invariance == Spec => []IInv
BY InitInv, StepInv, PTL DEF Spec

\* What a call keeps, its clocks included, has the types of the code.
THEOREM TypeCorrect == Spec => []TypeOK
<1>1. IInv => TypeOK
  BY DEF IInv
<1> QED BY <1>1, Invariance, PTL

\* When a call in its loop has nothing left to join, its results are the
\* outcomes of all tasks.
LEMMA NothingLeft ==
  ASSUME IInv, NEW c \in Calls, set[c] = {}, ResultsAreOutcomes(c)
  PROVE  /\ results[c] = {<<t, task[c][t]>> : t \in Tasks}
         /\ \A t \in Tasks : task[c][t] = "ok" \/ (config[c].partial /\ task[c][t] = "err")
<1>1. \A t \in Tasks : task[c][t] = "ok" \/ (config[c].partial /\ task[c][t] = "err")
  BY DEF ResultsAreOutcomes
<1>2. results[c] \subseteq Tasks \X {"ok", "err"}
  BY DEF IInv, TypeOK
<1>3. ASSUME NEW r \in results[c] PROVE r \in {<<t, task[c][t]>> : t \in Tasks}
  <2>1. PICK t \in Tasks, o \in {"ok", "err"} : r = <<t, o>>
    BY <1>2
  <2>2. o = task[c][t]
    BY <2>1 DEF ResultsAreOutcomes
  <2> QED BY <2>1, <2>2
<1>4. ASSUME NEW t \in Tasks PROVE <<t, task[c][t]>> \in results[c]
  BY <1>1 DEF ResultsAreOutcomes
<1> QED BY <1>1, <1>3, <1>4

\* An Ok hands back exactly one outcome for each task, the one it ended
\* with, and in fail-fast mode only successes.
THEOREM OkIsComplete == Spec => []OkMeansComplete
<1>1. ASSUME IInv PROVE OkMeansComplete
  <2> SUFFICES ASSUME NEW c \in Calls, pc[c] = "returned", result[c] = "Ok"
               PROVE  /\ results[c] = {<<t, task[c][t]>> : t \in Tasks}
                      /\ config[c].partial \/ \A t \in Tasks : task[c][t] = "ok"
    BY DEF OkMeansComplete
  <2>1. set[c] = {} /\ ResultsAreOutcomes(c)
    BY <1>1 DEF IInv, CallInv, WayOut
  <2> QED BY <1>1, <2>1, NothingLeft
<1> QED BY <1>1, Invariance, PTL

\* No task outlives a call that returned, unless a panic cut it short.
THEOREM ReturnIsSettled == Spec => []SettledOnReturn
<1>1. IInv => SettledOnReturn
  BY DEF IInv, CallInv, WayOut, SettledOnReturn
<1> QED BY <1>1, Invariance, PTL

-----------------------------------------------------------------------------
(* The refinement of TaskGroup *)

\* What the caller sees is a function of the call.
LEMMA SeenByCall ==
  /\ verdict = [d \in Calls |-> verdict[d]] /\ verdict' = [d \in Calls |-> verdict'[d]]
  /\ answer = [d \in Calls |-> answer[d]] /\ answer' = [d \in Calls |-> answer'[d]]
  /\ report = [d \in Calls |-> report[d]] /\ report' = [d \in Calls |-> report'[d]]
BY DEF verdict, answer, report

\* A step of one call changes what is seen of that call only.
LEMMA MapsTo ==
  ASSUME NEW c \in Calls, NEW v, NEW a, NEW o,
         \A d \in Calls : d # c =>
           pc'[d] = pc[d] /\ result'[d] = result[d] /\ results'[d] = results[d],
         verdict'[c] = v, answer'[c] = a, report'[c] = o
  PROVE  /\ verdict' = [verdict EXCEPT ![c] = v]
         /\ answer' = [answer EXCEPT ![c] = a]
         /\ report' = [report EXCEPT ![c] = o]
<1>1. \A d \in Calls : d # c =>
        verdict'[d] = verdict[d] /\ answer'[d] = answer[d] /\ report'[d] = report[d]
  BY DEF verdict, answer, report
<1> QED BY <1>1, SeenByCall

\* Nothing is seen of what a call collects in its loop.
LEMMA Unseen ==
  ASSUME \A d \in Calls : pc'[d] = pc[d] /\ result'[d] = result[d],
         \A d \in Calls : pc[d] = "returned" => results'[d] = results[d]
  PROVE  verdict' = verdict /\ answer' = answer /\ report' = report
<1>1. ASSUME NEW d \in Calls
      PROVE  verdict'[d] = verdict[d] /\ answer'[d] = answer[d] /\ report'[d] = report[d]
  BY DEF verdict, answer, report
<1> QED BY <1>1, SeenByCall

\* In its loop a call has neither failed nor answered.
LEMMA InLoop ==
  ASSUME NEW c \in Calls, pc[c] = "join"
  PROVE  verdict[c] = "none" /\ answer[c] = "none" /\ report[c] = {}
BY DEF verdict, answer, report

\* A task ends by itself, or is cut short by a call that gives it up.
LEMMA SettleMaps ==
  ASSUME IInv, NEW c \in Calls, NEW t \in Tasks, Finish(c, t) \/ Abort(c, t)
  PROVE  Abstract!Next
<1> USE DEF IInv, TypeOK
<1>1. PICK state \in Finished \union {"aborted"} :
        Settle(c, t, state) /\ (state = "aborted" => aborting[c])
  BY DEF Finish, Abort, Finished
<1>2. verdict' = verdict /\ answer' = answer /\ report' = report
  BY <1>1, Unseen DEF Settle
<1>3. Abstract!Settle(c, t, state)
  BY <1>1, <1>2 DEF Settle, Abstract!Settle
<1>4. CASE state \in Finished
  BY <1>3, <1>4 DEF Finished, Abstract!End, Abstract!Next
<1>5. CASE state = "aborted"
  <2>1. aborting[c] /\ task[c][t] = "running"
    BY <1>1, <1>5 DEF Settle
  <2>2. verdict[c] # "none" \/ answer[c] \in {"Join", "dropped"}
    BY <2>1 DEF CallInv, NoneCutShort, WayOut, verdict, answer
  <2> QED BY <1>3, <1>5, <2>2 DEF Abstract!Abort, Abstract!Next
<1> QED BY <1>4, <1>5

\* A call fails: it fires the token and goes to its shutdown.
LEMMA FailMaps ==
  ASSUME IInv, NEW c \in Calls, pc[c] = "join", NEW why \in {"TaskFailed", "Timeout"},
         ShutdownThen(c, why), UNCHANGED <<config, task, results>>,
         \/ why = "TaskFailed" /\ ~config[c].partial /\ \E t \in Tasks : task[c][t] = "err"
         \/ why = "Timeout" /\ config[c].timed /\ \E t \in Tasks : task[c][t] = "running"
  PROVE  Abstract!Next
<1> USE DEF IInv, TypeOK
<1>1. pc'[c] = "shutdown" /\ result'[c] = why /\ token' = TRUE
  BY DEF ShutdownThen
<1>2. verdict'[c] = why /\ answer'[c] = "none" /\ report'[c] = {}
  BY <1>1 DEF verdict, answer, report
<1>3. /\ verdict' = [verdict EXCEPT ![c] = why]
      /\ answer' = [answer EXCEPT ![c] = "none"]
      /\ report' = [report EXCEPT ![c] = {}]
  BY <1>2, MapsTo DEF ShutdownThen
<1>4. answer' = answer /\ report' = report
  BY <1>3, InLoop DEF answer, report
<1>5. Abstract!Fail(c, why)
  BY <1>1, <1>3, <1>4, InLoop DEF Abstract!Fail, Abstract!Open, Abstract!FailFast, Abstract!Some
<1> QED BY <1>5 DEF Abstract!CallStep, Abstract!Next

\* A call returns from its loop.
LEMMA ReturnMaps ==
  ASSUME IInv, NEW c \in Calls, pc[c] = "join", NEW a \in {"Ok", "Cancelled", "Join"},
         Return(c, a), UNCHANGED <<config, token, task>>,
         \A d \in Calls : d # c => results'[d] = results[d],
         NEW o, o = IF a = "Ok" THEN results'[c] ELSE {}
  PROVE  Abstract!Answer(c, a, o)
<1> USE DEF IInv, TypeOK
<1>1. pc'[c] = "returned" /\ result'[c] = a
  BY DEF Return
<1>2. verdict'[c] = "none" /\ answer'[c] = a /\ report'[c] = o
  BY <1>1 DEF verdict, answer, report
<1>3. /\ verdict' = [verdict EXCEPT ![c] = "none"]
      /\ answer' = [answer EXCEPT ![c] = a]
      /\ report' = [report EXCEPT ![c] = o]
  BY <1>2, MapsTo DEF Return
<1>4. verdict' = verdict
  BY <1>3, InLoop DEF verdict
<1> QED BY <1>3, <1>4, InLoop DEF Abstract!Answer, Abstract!Open

\* What join_next hands over is recorded, unseen, or ends the call.
LEMMA JoinMaps ==
  ASSUME IInv, NEW c \in Calls, NEW t \in Tasks, Join(c, t)
  PROVE  Abstract!Next \/ UNCHANGED Abstract!group
<1> USE DEF IInv, TypeOK
<1>1. /\ pc[c] = "join" /\ t \in set[c] /\ config' = config /\ task' = task
  BY DEF Join, Ready
<1>2. ASSUME NEW s \in {"ok", "err"}, task[c][t] = s, s = "ok" \/ config[c].partial,
             Record(c, t, s)
      PROVE  Abstract!Next \/ UNCHANGED Abstract!group
  <2>1. token' = token /\ \A d \in Calls : d # c => results'[d] = results[d]
    BY <1>2 DEF Record
  <2>2. CASE UNCHANGED <<pc, result>>
    <3>1. verdict' = verdict /\ answer' = answer /\ report' = report
      BY <1>1, <2>1, <2>2, Unseen
    <3> QED BY <1>1, <2>1, <3>1 DEF Abstract!group
  <2>3. CASE ~config[c].partial /\ token /\ set[c] = {t} /\ Return(c, "Cancelled")
    <3>1. \A u \in Tasks : task[c][u] = "ok"
      BY <1>1, <1>2, <2>3 DEF CallInv, ResultsAreOutcomes
    <3>2. Abstract!Answer(c, "Cancelled", {})
      BY <1>1, <2>1, <2>3, ReturnMaps
    <3>3. Abstract!AnswerCancelled(c)
      BY <2>3, <3>1, <3>2 DEF Abstract!AnswerCancelled, Abstract!FailFast, Abstract!All
    <3> QED BY <3>3 DEF Abstract!CallStep, Abstract!Next
  <2> QED BY <1>2, <2>2, <2>3 DEF Record
<1>3. ASSUME task[c][t] = "err", ~config[c].partial, ShutdownThen(c, "TaskFailed"),
             UNCHANGED results
      PROVE  Abstract!Next
  BY <1>1, <1>3, FailMaps
<1>4. ASSUME Panicked(c, t) PROVE Abstract!Next
  <2>1. Abstract!Answer(c, "Join", {})
    BY <1>1, <1>4, ReturnMaps DEF Panicked
  <2>2. Abstract!AnswerJoin(c)
    BY <1>4, <2>1 DEF Panicked, Abstract!AnswerJoin, Abstract!Some
  <2> QED BY <2>2 DEF Abstract!CallStep, Abstract!Next
<1> QED BY <1>2, <1>3, <1>4 DEF Join

\* The loop ends: all tasks have been joined, or a wait takes too long.
LEMMA LoopEndMaps ==
  ASSUME IInv, NEW c \in Calls, AllJoined(c) \/ TimeOut(c)
  PROVE  Abstract!Next
<1> USE DEF IInv, TypeOK
<1>1. CASE AllJoined(c)
  <2>1. /\ pc[c] = "join" /\ set[c] = {} /\ Return(c, "Ok")
        /\ UNCHANGED <<config, token, task, results>>
    BY <1>1 DEF AllJoined
  <2>2. ResultsAreOutcomes(c)
    BY <2>1 DEF CallInv
  <2>3. /\ results[c] = {<<t, task[c][t]>> : t \in Tasks}
        /\ \A t \in Tasks : task[c][t] = "ok" \/ (config[c].partial /\ task[c][t] = "err")
    BY <2>1, <2>2, NothingLeft
  <2>4. Abstract!Answer(c, "Ok", results[c])
    BY <2>1, ReturnMaps
  <2>5. Abstract!AnswerOk(c)
    BY <2>3, <2>4 DEF Abstract!AnswerOk, Abstract!FailFast, Abstract!All
  <2> QED BY <2>5 DEF Abstract!CallStep, Abstract!Next
<1>2. CASE TimeOut(c)
  <2>1. pc[c] = "join" /\ config[c].timed /\ set[c] # {} /\ Ready(c) = {}
    BY <1>2 DEF TimeOut
  <2>2. PICK t \in set[c] : task[c][t] \notin Finished
    BY <2>1 DEF Ready
  <2>3. t \in Tasks /\ task[c][t] = "running"
    BY <2>1, <2>2 DEF CallInv, NoneCutShort
  <2> QED BY <1>2, <2>1, <2>3, FailMaps DEF TimeOut
<1> QED BY <1>1, <1>2

\* A shutdown comes to its end, or the caller drops the call.
LEMMA ShutdownMaps ==
  ASSUME IInv, NEW c \in Calls, ShutdownDone(c) \/ CallerDrops(c)
  PROVE  Abstract!Next
<1> USE DEF IInv, TypeOK
<1>1. /\ pc[c] \in {"join", "shutdown"}
      /\ UNCHANGED <<config, token, task, results>>
  BY DEF ShutdownDone, CallerDrops
<1>2. answer[c] = "none" /\ report[c] = {}
  BY <1>1 DEF answer, report
<1>3. CASE ShutdownDone(c)
  <2>1. /\ pc[c] = "shutdown" /\ pc'[c] = "returned" /\ result' = result
        /\ result[c] \in {"TaskFailed", "Timeout"}
    BY <1>3 DEF ShutdownDone, CallInv, WayOut
  <2>2. /\ verdict[c] = result[c] /\ verdict'[c] = verdict[c]
        /\ answer'[c] = verdict[c] /\ report'[c] = {}
    BY <2>1 DEF verdict, answer, report
  <2>3. /\ verdict' = [verdict EXCEPT ![c] = verdict[c]]
        /\ answer' = [answer EXCEPT ![c] = verdict[c]]
        /\ report' = [report EXCEPT ![c] = {}]
    BY <1>1, <1>3, <2>2, MapsTo DEF ShutdownDone
  <2>4. verdict' = verdict /\ report' = report
    <3>1. \A d \in Calls : verdict'[d] = verdict[d] /\ report'[d] = report[d]
      BY <1>2, <2>2, <2>3, SeenByCall
    <3> QED BY <3>1, SeenByCall
  <2>5. \A t \in Tasks : task[c][t] # "running"
    BY <1>3 DEF ShutdownDone, CallInv, JoinedHasEnded
  <2>6. Abstract!Deliver(c)
    BY <1>1, <1>2, <2>1, <2>2, <2>3, <2>4, <2>5 DEF Abstract!Deliver, Abstract!Some
  <2> QED BY <2>6 DEF Abstract!CallStep, Abstract!Next
<1>4. CASE CallerDrops(c)
  <2>1. pc'[c] = "dropped"
    BY <1>4 DEF CallerDrops
  <2>2. verdict'[c] = "none" /\ answer'[c] = "dropped" /\ report'[c] = {}
    BY <2>1 DEF verdict, answer, report
  <2>3. /\ verdict' = [verdict EXCEPT ![c] = "none"]
        /\ answer' = [answer EXCEPT ![c] = "dropped"]
        /\ report' = [report EXCEPT ![c] = {}]
    BY <1>1, <1>4, <2>2, MapsTo DEF CallerDrops
  <2>4. report' = report
    BY <1>2, <2>3 DEF report
  <2>5. Abstract!Leave(c)
    BY <1>1, <1>2, <2>3, <2>4 DEF Abstract!Leave
  <2> QED BY <2>5 DEF Abstract!CallStep, Abstract!Next
<1> QED BY <1>3, <1>4

\* The executor implements TaskGroup: each step of a call, a task or the
\* caller is one of the group's, or is not seen.
THEOREM Refinement == Spec => RefinesTaskGroup
<1>1. Init => Abstract!Init
  BY DEF Init, Configs, Abstract!Init, verdict, answer, report
<1>2. IInv /\ [Next]_vars => [Abstract!Next]_Abstract!group
  <2> SUFFICES ASSUME IInv, [Next]_vars
               PROVE  Abstract!Next \/ UNCHANGED Abstract!group
    OBVIOUS
  <2>1. CASE CancelToken
    <3>1. verdict' = verdict /\ answer' = answer /\ report' = report
      BY <2>1, Unseen DEF CancelToken
    <3> QED BY <2>1, <3>1 DEF CancelToken, Abstract!Fire, Abstract!Next
  <2>2. ASSUME NEW c \in Calls, Tick(c) PROVE UNCHANGED Abstract!group
    <3>1. verdict' = verdict /\ answer' = answer /\ report' = report
      BY <2>2, Unseen DEF Tick
    <3> QED BY <2>2, <3>1 DEF Tick, Abstract!group
  <2>3. CASE UNCHANGED vars
    <3>1. verdict' = verdict /\ answer' = answer /\ report' = report
      BY <2>3, Unseen DEF vars
    <3> QED BY <2>3, <3>1 DEF vars, Abstract!group
  <2> QED
    BY <2>1, <2>2, <2>3, SettleMaps, JoinMaps, LoopEndMaps, ShutdownMaps DEF Next
<1> QED
  BY <1>1, <1>2, Invariance, PTL DEF Spec, RefinesTaskGroup, Abstract!Spec
=============================================================================
