------------------------------ MODULE Examples ------------------------------
(***************************************************************************)
(* The programs of altair-wf's examples on the list patterns: the call     *)
(* each hands to its pattern, the outcome its activity is written to have  *)
(* for every item, and what its comments say comes out.                    *)
(*                                                                         *)
(* A workflow of an example is one call of a pattern, so an execution of a *)
(* program is an execution of Patterns whose activities follow the script, *)
(* or fail for good when the service has used up their attempts.           *)
(***************************************************************************)
EXTENDS Patterns

CONSTANT Free  \* no example: any caller, any input

\* What a program's comments promise, input positions counted from 1.
Says(a, rs, fs) == [answer |-> a, results |-> rs, failed |-> fs]
AllOf(n) == [k \in 1 .. n |-> k]
EverySucceeds(n) == Says("Ok", AllOf(n), <<>>)
StopsAt(k) == Says("PatternStopped", <<>>, <<k>>)

\* No payload type of the examples overrides validate().
CallOf(pattern, n, concurrent, stop) ==
  [pattern |-> pattern, concurrent |-> concurrent, cap |-> 0, stop |-> stop,
   valid |-> [k \in 1 .. n |-> TRUE], template |-> TRUE]

Runs(pattern, script, concurrent, stop, says) ==
  [call |-> CallOf(pattern, Len(script), concurrent, stop),
   script |-> script, says |-> says]

Good(n) == [k \in 1 .. n |-> "ok"]

\* EchoActivities::echo: a task made by bad() answers with ok = false.
Echo(wills) == [k \in DOMAIN wills |-> IF wills[k] = "bad" THEN "failed" ELSE "ok"]

\* A handler's Err is a success of the activity and a failure of the task.
Functions(registry, names) == [k \in DOMAIN names |-> registry[names[k]]]

-----------------------------------------------------------------------------
(* One program per file *)

HelloExecute == Runs("pipeline", Good(1), FALSE, FALSE, EverySucceeds(1))
HelloPipeline == Runs("pipeline", Good(3), FALSE, TRUE, EverySucceeds(3))

\* The activity error leaves no output, only its position.
HelloParallel ==
  Runs("parallel", <<"ok", "error", "ok">>, TRUE, FALSE, Says("Ok", <<1, 3>>, <<2>>))

HelloLoop == Runs("loop", Good(3), TRUE, FALSE, EverySucceeds(3))

\* Two regions times two tiers.
HelloParameterizedLoop == Runs("loop", Good(2 * 2), TRUE, FALSE, EverySucceeds(4))

UpperRegistry == [upper |-> "ok", repeat |-> "ok", reverse |-> "ok"]
FunctionRegistry ==
  Runs("pipeline", Functions(UpperRegistry, <<"upper", "repeat", "reverse">>),
       FALSE, FALSE, EverySucceeds(3))

-----------------------------------------------------------------------------
(* The scheduled workflows of scheduled_all *)

ScheduledExecuteOk == Runs("pipeline", Echo(<<"ok">>), FALSE, FALSE, EverySucceeds(1))

\* "execute still returns Ok": the workflow gets the output and decides.
ScheduledExecuteFail ==
  Runs("pipeline", Echo(<<"bad">>), FALSE, FALSE, Says("Ok", <<1>>, <<1>>))

ScheduledPipelineAllOk ==
  Runs("pipeline", Echo(<<"ok", "ok", "ok">>), FALSE, FALSE, EverySucceeds(3))
ScheduledPipelineContinue ==
  Runs("pipeline", Echo(<<"ok", "bad", "ok">>), FALSE, FALSE,
       Says("Ok", AllOf(3), <<2>>))
ScheduledPipelineStop ==
  Runs("pipeline", Echo(<<"ok", "bad", "ok">>), FALSE, TRUE, StopsAt(2))
ScheduledParallelContinue ==
  Runs("parallel", Echo(<<"ok", "bad", "ok", "ok">>), TRUE, FALSE,
       Says("Ok", AllOf(4), <<2>>))
ScheduledParallelFailFast ==
  Runs("parallel", Echo(<<"ok", "bad", "ok">>), TRUE, TRUE, StopsAt(2))
ScheduledLoopSequential ==
  Runs("loop", Echo(<<"ok", "ok", "ok">>), FALSE, FALSE, EverySucceeds(3))
ScheduledLoopParallel ==
  Runs("loop", Echo(<<"ok", "ok", "ok", "ok", "ok">>), TRUE, FALSE, EverySucceeds(5))
ScheduledParameterizedLoop ==
  Runs("loop", Echo(<<"ok", "ok", "ok", "ok">>), TRUE, FALSE, EverySucceeds(4))

DemoRegistry == [upper |-> "ok", reverse |-> "ok", repeat |-> "ok", explode |-> "failed"]
ScheduledFunctionSuccess ==
  Runs("pipeline", Functions(DemoRegistry, <<"upper", "reverse", "repeat">>),
       FALSE, FALSE, EverySucceeds(3))
ScheduledFunctionMixed ==
  Runs("pipeline", Functions(DemoRegistry, <<"upper", "explode", "upper">>),
       FALSE, FALSE, Says("Ok", AllOf(3), <<2>>))

Programs ==
  {HelloExecute, HelloPipeline, HelloParallel, HelloLoop, HelloParameterizedLoop,
   FunctionRegistry, ScheduledExecuteOk, ScheduledExecuteFail,
   ScheduledPipelineAllOk, ScheduledPipelineContinue, ScheduledPipelineStop,
   ScheduledParallelContinue, ScheduledParallelFailFast, ScheduledLoopSequential,
   ScheduledLoopParallel, ScheduledParameterizedLoop, ScheduledFunctionSuccess,
   ScheduledFunctionMixed}

ProgramCalls == {p.call : p \in Programs}

-----------------------------------------------------------------------------

VARIABLE program  \* the program that makes the call, or Free for any caller

exampleVars == <<vars, program>>

Ended(k) == item[k] \in Outcomes

\* The activity of a program does what it is written to do, unless its last
\* attempt is lost.
FollowsScript ==
  program # Free =>
    \A k \in Items : Ended(k) => item[k] \in {program.script[k], "error"}

ExampleInit ==
  /\ Init
  /\ \/ program = Free /\ call \in SmallCalls
     \/ program \in Programs /\ call = program.call

ExampleNext == Next /\ UNCHANGED program /\ FollowsScript'

ExampleSpec == ExampleInit /\ [][ExampleNext]_exampleVars /\ WF_exampleVars(ExampleNext)

-----------------------------------------------------------------------------
(* Properties *)

\* Every example comes to what its comments and its note in SCHEDULE_PLAN
\* say, in whatever order its activities answer, when none of them is lost.
ExamplesAsDocumented ==
  program # Free /\ pc = "returned"
    /\ (\A k \in Items : Ended(k) => item[k] = program.script[k]) =>
       /\ answer = program.says.answer
       /\ answer = "Ok" => /\ results = program.says.results
                           /\ failed = program.says.failed
       /\ answer = "PatternStopped" => position = program.says.failed[1]
=============================================================================
