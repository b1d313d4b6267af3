------------------------------ MODULE TaskGroup ------------------------------
(***************************************************************************)
(* What execute_concurrently promises its caller, with the loop, the       *)
(* JoinSet and the clocks hidden: tasks come to an end of their own, and a *)
(* call is answered from nothing but how all of its tasks ended and        *)
(* whether the token had fired.                                            *)
(*                                                                         *)
(* A fired token cuts no task short; a call does, once it has failed and   *)
(* fired the token itself, when it reports a panic, or when it is dropped. *)
(***************************************************************************)
CONSTANTS Calls, Tasks

VARIABLES
  config,  \* mode and timeout of each call
  token,   \* the token the calls share has fired
  task,    \* running, aborted, or how the task finished
  verdict, \* why a call has failed, none while it has not
  answer,  \* none, what the call answered, or dropped
  report   \* the outcomes handed back with an Ok

group == <<config, token, task, verdict, answer, report>>

FailFast(c) == ~config[c].partial
All(c, states) == \A t \in Tasks : task[c][t] \in states
Some(c, state) == \E t \in Tasks : task[c][t] = state

Init ==
  /\ config \in [Calls -> [partial : BOOLEAN, timed : BOOLEAN]]
  /\ token = FALSE
  /\ task = [c \in Calls |-> [t \in Tasks |-> "running"]]
  /\ verdict = [c \in Calls |-> "none"]
  /\ answer = [c \in Calls |-> "none"]
  /\ report = [c \in Calls |-> {}]

\* The caller fires the token.
Fire ==
  /\ token' = TRUE
  /\ UNCHANGED <<config, task, verdict, answer, report>>

Settle(c, t, state) ==
  /\ task[c][t] = "running"
  /\ task' = [task EXCEPT ![c][t] = state]
  /\ UNCHANGED <<config, token, verdict, answer, report>>

End(c, t) == \E state \in {"ok", "err", "panic"} : Settle(c, t, state)

\* A task is only cut short by its own call.
Abort(c, t) ==
  /\ verdict[c] # "none" \/ answer[c] \in {"Join", "dropped"}
  /\ Settle(c, t, "aborted")

-----------------------------------------------------------------------------

Open(c) == verdict[c] = "none" /\ answer[c] = "none"

\* A task of a fail-fast call fails, or a timeout strikes: never after the
\* last task has ended.
Fail(c, why) ==
  /\ Open(c)
  /\ \/ why = "TaskFailed" /\ FailFast(c) /\ Some(c, "err")
     \/ why = "Timeout" /\ config[c].timed /\ Some(c, "running")
  /\ token' = TRUE
  /\ verdict' = [verdict EXCEPT ![c] = why]
  /\ UNCHANGED <<config, task, answer, report>>

\* The failure is answered when no task is running.
Deliver(c) ==
  /\ verdict[c] # "none" /\ answer[c] = "none"
  /\ ~Some(c, "running")
  /\ answer' = [answer EXCEPT ![c] = verdict[c]]
  /\ UNCHANGED <<config, token, task, verdict, report>>

Answer(c, a, outcomes) ==
  /\ Open(c)
  /\ answer' = [answer EXCEPT ![c] = a]
  /\ report' = [report EXCEPT ![c] = outcomes]
  /\ UNCHANGED <<config, token, task, verdict>>

AnswerOk(c) ==
  /\ All(c, IF FailFast(c) THEN {"ok"} ELSE {"ok", "err"})
  /\ Answer(c, "Ok", {<<t, task[c][t]>> : t \in Tasks})

\* The token fired before the last outcome was taken: successes are lost.
\* Only a fail-fast call gives this answer: one with partial results does not
\* look at the token and answers Ok, although executor.rs:60 names Cancelled
\* among the errors that it still reports.
AnswerCancelled(c) ==
  /\ token /\ FailFast(c) /\ Tasks # {} /\ All(c, {"ok"})
  /\ Answer(c, "Cancelled", {})

\* A panic is answered at once, whatever is still running.
AnswerJoin(c) == Some(c, "panic") /\ Answer(c, "Join", {})

\* The caller loses interest.
Leave(c) ==
  /\ answer[c] = "none"
  /\ verdict' = [verdict EXCEPT ![c] = "none"]
  /\ answer' = [answer EXCEPT ![c] = "dropped"]
  /\ UNCHANGED <<config, token, task, report>>

CallStep(c) ==
  \/ \E why \in {"TaskFailed", "Timeout"} : Fail(c, why)
  \/ Deliver(c) \/ AnswerOk(c) \/ AnswerCancelled(c) \/ AnswerJoin(c) \/ Leave(c)

Next ==
  \/ Fire
  \/ \E c \in Calls : CallStep(c) \/ \E t \in Tasks : End(c, t) \/ Abort(c, t)

Spec == Init /\ [][Next]_group
=============================================================================
