# Verification of altair-rs

TLA+ specifications of the parts of altair-rs that have behaviour over time,
with TLC configurations that check them on small instances and TLAPS proofs of
the properties that matter most. Every definition is translated from the Rust
source; `PROJECT.json` maps each definition to the lines it stands for.

To check a run: `tlc -workers 2 -config <cfg> <module>.tla`. To check the
proofs: `tlapm ChunkedSyncProofs.tla`, and likewise `ConcurrentExecutorProofs`,
`DagRunProofs`, `DeploymentProofs`, `PatternsProofs`, `RetryProofs`,
`ServiceProofs` and `ToolkitProofs`.

## The system

altair-rs is a workspace of service crates. `altair-wf` carries the logic of
its own: workflow patterns, data synchronisation and function activities. The
other crates wrap a library each, and what they add to it is a protocol in a
few steps: build, run, drain, retry, decode.

| Component | State it keeps | Operations | Talks to |
|---|---|---|---|
| `altair-wf` `datasync::chunk` | the work list of one execution; the durable cursor is in the caller's `ProgressTracker`, the records in the sink | `chunked_sync_run`: list, read cursor, filter, truncate, run a partition, advance | caller's partitioner, partition runner, tracker; the caller continues as new or retries |
| `altair-wf` DAG (`dag.rs`, `run_dag`) | colours and stack of the cycle search; waves; node results | `validate`, `topological_layers`, `run_dag` | one activity per node |
| `altair-wf` list patterns (`patterns.rs`) | futures in flight, answers, tallies | `pipeline`, `parallel`, `run_iterations` (loop, parameterized loop) | one activity per item |
| `altair-wf` helpers | none | `generate_parameter_combinations`, `substitute_template` | the parameterized loop, which is replayed |
| `altair-wf` function | a registry of handlers | `execute_function` with heartbeats and panic capture | Temporal activity context |
| `altair-wf` datasync job and runner | none between calls | build a job; fetch, map, write; `iterate_partitions` | source, mapper, sink |
| `altair-wf` examples | the chunked demos keep cursor and sink in the process | programs on the patterns; chains of continue-as-new | patterns, chunked sync, schedules |
| `altair-concurrent` | a `JoinSet`, a cancellation token the caller may share | `execute_concurrently`, fail-fast or partial, with a timeout | the tasks |
| `altair-retry` | attempt counter, backoff iterator | `retry` | the operation, a cancellation token |
| `altair-server` | the serve future, in-flight requests | build, `run`, `run_with_shutdown`, request timeout, body limit | axum, signals |
| `altair-otel` | process-wide providers | `init`, `shutdown` | OpenTelemetry globals, the tracing subscriber |
| `altair-temporal` worker | the SDK worker | build, run, drain on shutdown | Temporal service, the activities it runs |
| `altair-temporal` schedule | nothing; the schedules are in the service | `create`, `update`, `create_or_update`, `delete`, `delete_if_exists` | Temporal service |
| `altair-base32`, workflow ids | none | four pure codecs | |
| `altair-compress` | files under the destination | pack; unpack with a limit on the output | the file system |
| `altair-config` | the list of layers | files, environment, extract, validate | figment |
| `altair-rest` | none between calls | one JSON call, with retries and a body limit | reqwest and its retry middleware |
| `altair-db` | a connection pool | connect, migrate, transaction, close | sea_orm |

They meet in the programs: a server process installs telemetry, serves,
drains and flushes; a worker process registers schedules, polls for workflows
and activities and drains; a schedule starts workflows that chain chunked
syncs.

### Hard behaviours, and what makes each component correct

* **Chunked sync.** The only durable state is the cursor, and the write to the
  sink and the move of the cursor are two calls. Between them the process can
  die, the second can fail from the caller's side and still land later, and
  another execution of the same job can run. Correct means: the cursor never
  covers work that is not in the sink; an execution that claims to be finished
  left everything it listed in the sink; a job that defers gets there.
* **Chunked demos.** The example programs keep their cursor in the memory of
  one process and reset it in the first execution of a chain only, while the
  workflow outlives the process. Correct means: a fire that ends well has run
  every partition, whatever was lost on the way.
* **DAG.** A hand-written iterative depth-first search with three colours
  decides what is accepted; `topological_layers` stops silently on an empty
  layer, so a missed cycle would drop nodes. Correct means: the search is exact
  in both directions, dependencies come first, the answer accounts for every
  node.
* **List patterns.** `buffer_unordered` yields answers in the order they
  arrive, and these are workflows that are replayed. Correct means: the result
  is a function of the outcomes; the cap holds and never stalls the fan-out.
* **Parameter expansion.** The tasks of a loop are made by walks over hash
  maps, whose order differs from process to process. Correct means: a replay
  dispatches what the execution dispatched.
* **Function activities.** A handler may hang, panic, starve the ticker that
  shares its `select!`, or be missing on one of the workers; the service times
  an attempt out while the worker still runs it. Correct means: a live handler
  that yields is not taken for dead, and only timeouts cost attempts.
* **Worker and schedules.** A drain races its deadline, hanging activities and
  errors of the SDK; `create_or_update` is up to three RPCs that other
  processes interleave with. Correct means: a drain that is not cut short
  finishes the work, a shutdown comes to an end, and a process that polls has
  had its whole plan in the service.
* **Concurrent executor.** Tasks may hang, panic or ignore the abort for a
  while; failure, timeout and a foreign cancellation race with completion.
  Correct means: Ok hands back exactly one outcome per task; no task outlives a
  call that returned (a panic excepted); a timed call returns.
* **Retry.** The token fires at any instant, the one between its check and the
  call included. Correct means: the number of attempts is exact and at most one
  attempt starts after cancellation.
* **Server and telemetry.** Two timers, hanging handlers and a shutdown; a
  second `init` that replaces one of the globals before it is refused. Correct
  means: no accepted request is abandoned by a shutdown without a deadline, a
  shutdown comes to an end, and no span recorded on the way is lost.
* **Sync job and archives.** Both write step by step, stop at the first error
  and undo nothing, and the caller tries again over what is left there. Correct
  means: an Ok is complete whatever earlier attempts left behind, and a limit
  is held at every step.
* **Codecs, REST call, configuration.** No concurrency; edges: values at the
  width of a word, leading zeros and unused bits; a lost reply that is resent;
  layers that hide each other. Correct means: nothing is misread, every answer
  is justified by the last reply, the last layer wins.

## The modules

| Module | Models | State and actions against the code |
|---|---|---|
| `ResumableSync` | what a chunked sync promises, executions hidden | `synced` the sink, `settled` what the cursor covers |
| `ChunkedSync` | `chunked_sync_run` and its caller | one action for each `.await` of an execution: `ListPartitions`, `ReadCursor`, `RunPartition`, `Advance`, each with the purely local code up to the next `.await`; `Fail`, `FailAfterWrite`, `AdvanceTimesOut`, `LateAdvance` are the failures; `Trigger`, `ContinueAsNew`, `Retry` the caller. Its variables are the locals of an execution, and the durable cursor and sink |
| `MCChunkedSync` | instance for TLC | three partitions, a gap before the third |
| `ChunkedSyncProofs` | proofs about `ChunkedSync` | |
| `DagValidation` | `DAGInput::validate`, `detect_cycles`, `dfs_iterative` | one action per iteration of a loop; `state` and `stack` as in the code |
| `DagRun` | `topological_layers`, `run_dag`; extends `DagValidation` | `AddLayer` a turn of the while loop; `Answer` an activity, `Collect` the code after `join_all` |
| `MCDagRun` | the graphs checked, those of the example programs among them | |
| `DagRunProofs` | proofs about the cycle search as `run_dag` calls it, the layers and the waves | |
| `Patterns` | `pipeline`, `parallel`, `run_iterations` | `call` holds pattern and input; `Refill` a poll of the stream, `Take` an outcome it yields, `TallyNext` a turn of the loop over sorted outcomes |
| `PatternsProofs` | proofs about the list patterns, and about `Examples` | |
| `Examples` | the example programs on the list patterns; extends `Patterns` | each program is a call, a script of outcomes and what its comments promise; an execution is one of `Patterns` whose activities follow the script |
| `TaskGroup` | what the executor promises its caller, loop, `JoinSet` and clocks hidden | `verdict` why a call has failed, `answer` what it answered, `report` the outcomes handed back |
| `ConcurrentExecutor` | `run_fail_fast`, `run_partial`, `next_outcome` | `Join`, `AllJoined`, `TimeOut` are the ways one turn of the loop ends; tasks and token move by themselves |
| `ConcurrentExecutorProofs` | proofs about `ConcurrentExecutor` | |
| `Retry` | `retry` | `Check` and `Call` are separate because the token is shared with other threads |
| `RetryProofs` | proofs about `Retry` | |
| `Server` | build, `run_with_shutdown`, request timeout, body limit, drain | one clock for all timers |
| `Telemetry` | `Config::init`, `shutdown()` | one action per global that `init` replaces; a provider is named by the caller that built it |
| `Service` | `main` of `with_otel.rs`; extends `Server`, `Telemetry` | `phase` is where main is; requests record spans and metrics while they are served |
| `ServiceProofs` | proofs about `Service` | |
| `FunctionActivity` | `execute_function`, the registries, the service's side of an attempt | `exec` is what a worker runs, `task` and `attempt` what the service believes; `silence` and `ticks` are the two ends of a heartbeat |
| `Worker` | `WorkerBuilder::build`, `run_with_shutdown`; extends `FunctionActivity` | the drain, its deadline, SDK errors, crashes; `lost` records attempts left unreported |
| `Schedule` | the schedule calls of both builders | one action per RPC; an RPC fails, takes effect and loses its answer, or lands late |
| `Deployment` | the processes; extends `Worker`, `Schedule` | `main` of a scheduled program and of a one-shot program, next to an operator |
| `MCDeployment` | a rolling deployment | |
| `DeploymentProofs` | proofs about the activities, workers and schedules of a `Deployment` | |
| `ChunkedDemo` | the three demos of chunked sync | cursor and sink are lost with the process, the position in the workflow is not |
| `SyncJob` | `SyncJobBuilder`, `Runner::run`, `iterate_partitions` | `FetchBatch`, `MapBatch`, `WriteBatch` of a partition; a failed write leaves any part of its batch |
| `Extraction` | `altair-compress` | one action per entry, `CopyFile` for what is counted and `UnpackEntry` for the rest; `sparse` are the files that a tar holds as something other than a Regular entry; `disk` is what stays there between attempts |
| `Codec` | `altair-base32`, `workflow_id` | operators over sequences; the widths are CONSTANTS |
| `Expansion` | `helpers.rs` under replay | `keyOrder` is the order of the maps of one process |
| `RestCall` | one JSON call | `Send` with every reply and loss, `DecodeJson` judges the last one |
| `ConfigLayers` | `Loader` | `MergeFile` for each file, `Build` for the rest |
| `Toolkit` | the last seven, which share nothing | `subject` names the one that moves; their inputs are CONSTANTS |
| `MCToolkit` | the inputs for TLC | sources, trees, maps, templates, files and environments |
| `ToolkitProofs` | proofs about all seven, as behaviours of `Toolkit` | |

How they are composed: `DagRun` extends `DagValidation` because `run_dag` calls
it; `Service` and `Deployment` are processes made of the components they
extend; `ChunkedSync` implements `ResumableSync` through `INSTANCE ... WITH
synced <- applied, settled <- the partitions whose end the cursor covers`.
`ConcurrentExecutor` implements `TaskGroup`, through operators of the names of
its variables: `verdict` is the error a call shuts down with, and `answer` and
`report` appear when it returns.
`Toolkit` is not a composition of the code: it puts components that never meet
into one state space, one at a time, so that one run goes through all of them.

Code of others (tokio's `JoinSet` and timers, axum, the Temporal service and
its SDK, figment, reqwest's retry middleware, the file system, the activities,
the partitioner and tracker) is modelled from how the source uses it and marked
external in the map. Operators introduced by a comment "Mutant of ..." are
deliberately wrong variants of a definition, each a bug the code could have;
no specification uses them. Replacing the definition by its mutant must break
the property it is listed with.

## The runs

| Run | Question | Instance | Result |
|---|---|---|---|
| `chunked_sync` | Is work lost or left undone, whatever fails or overlaps? | 2 executions, 3 partitions, cap 0 to 2, 2 faults | holds |
| `concurrent_executor` | What does an answer say of the tasks? | one call of 3 tasks, both modes, timeout 2 ticks or none | holds |
| `concurrent_overall_timeout` | Is the timeout overall? | same | **violated** |
| `dag_run` | Is the search exact and the run complete? | 1,402 inputs: graphs of 1 to 4 nodes, those of the examples, malformed inputs, fail-fast or not | holds |
| `patterns` (module `Examples`) | Does the order of answers show? Does the cap hold? Do the examples end as they say? | 0 to 3 items, cap none, 1 or 2, every outcome and order, and every example program | holds |
| `loop_fail_fast` | Does a sequential loop stop at a failure? | 0 to 3 items | **violated** |
| `loop_validation` | Is what a substitutor makes validated? | same | **violated** |
| `retry` | Are attempts and cancellation exact? | up to 4 retries | holds |
| `server` (module `Service`) | Does a shutdown end, is every request answered, is everything recorded exported? | 2 requests, timeouts of 2 and 3 ticks or none, 2 callers of `init` | holds |
| `server_shutdown_timeout` | Does the deadline bound the drain only? | the server alone | **violated** |
| `deployment` | Do workers drain, keep their activities alive and poll only with their plan registered? | 2 processes, 1 operator, 1 task, 1 schedule, 2 attempts, 1 late request | holds |
| `toolkit` (module `MCToolkit`) | Are the components that stand on their own right at their edges? | below | holds |

The largest is `deployment`, of 957,385 distinct states, about a minute;
`server` has 169,628, `toolkit` 107,975, `patterns` 53,473 and `dag_run` 20,276.

What the properties of the runs added last say:

* `RefinesTaskGroup`: a call fails only at a failed task or while one still
  runs, is answered when none does (a panic and a dropped call excepted), and
  its answer follows from how its tasks ended and whether the token had fired;
  what the `JoinSet` still holds, and when the clock struck, shows nowhere else.
  Only a fail-fast call answers Cancelled (`AnswerCancelled`); the documentation
  says otherwise.
* `NothingUnflushed`: when main is over, no span is left in a provider. A
  metric may be, and only where a refused second `init` had already put its own
  meter provider in the place of the installed one: nobody flushes that one.
* `RunsOnlyPlanned`: a process polls only after each schedule of its plan has
  stood in the service with its trigger, however the RPCs of other processes
  fell. (It may have been overwritten since: both generations write the same
  schedule, and the last one wins.)
* `HeartbeatKeepsAlive`: a handler is not timed out for its silence unless it
  has stopped yielding, which starves the ticker of its `select!`, or a
  heartbeat was lost. `RetriesAreTimeouts`: only time-outs cost attempts.
* `DrainFinishesWork`: a drain that its deadline did not cut has reported every
  attempt; one that is cut answers Ok all the same, and drops what runs.
  `WorkerStops`: a worker told to stop returns, whether a handler hangs or the
  SDK's own run does not come back.
* `ExamplesAsDocumented`: each program on the patterns comes to what its
  comments and its note in the schedule plan say.
* `FireSyncsAll`: a fire of a chunked demo that ends well has run every
  partition, exactly once if nothing went wrong, in as many executions as the
  comments say.
* `WalkAccounts`, `LimitsHold`: an Ok of a sync job or an extraction is
  complete over what earlier attempts left. The limit is one on the files that
  are counted, which in a tar are the Regular entries; others are written
  uncounted. And an Ok is complete only if no `BufWriter` lost a
  tail when it was dropped: the code does not notice that (`lossy`).
* `CodecExact`: decoding inverts encoding and refuses what exceeds the word; a
  symbol of a checked text that was mistyped as another one is refused or leaves
  the bytes as they were.
* `RestOutcome`: every answer is justified by the last reply; a declared length
  over the limit buffers nothing (an undeclared body is buffered whole), and the
  work is done twice only behind a reply that left it open whether it was done.
* `LayersWin`: the last layer that sets a field wins, as the code reads layers: a
  variable does not reach a field with an underscore in its name, and a required
  file that is missing is an empty layer.
* `ReplayAgrees`: of the expansion.

A type invariant is checked of `ChunkedSync` and `ConcurrentExecutor`, and
proved of them and of `Retry`, for every bound; the proofs about the other
modules carry theirs in their invariants.

### Why the bounds are enough

* `ChunkedSync`: with two executions one can act on a cursor the other moves.
  Three partitions give a boundary shared by two ranges and one with a gap, a
  cap (1 or 2) smaller than the list and one that is reached exactly, and a
  list that grows during an execution. Two faults leave an advance on its way
  while a second one fails. The proofs remove all four bounds for safety.
* `ConcurrentExecutor`: three tasks are one that decides the call, one that is
  already finished, and one that still runs. Other calls act on this one
  through the shared token only, and the token may fire at any moment, so one
  call stands for any number of them. A timeout of two ticks allows a wait that
  is half used up.
* `DagRun`: every graph of up to two nodes with dependency lists of length up
  to two; on three nodes, all such lists except self-loops of the second and
  third node (which the smaller graphs have); on four nodes a diamond, a chain
  listed out of order, a ring, a cycle behind a fork, independent nodes, and
  two branches that meet.
* `Patterns`: three items and a cap of two give a full window, a slot that is
  freed and refilled, and answers out of order. `Examples` needs no bound: its
  programs have the sizes the source gives them.
* `Retry`: zero, one and several retries; proved for any number.
* `Service`: the request timeout is shorter than the shutdown timeout, and a
  request may arrive at any tick, so either timer may be due first. Two callers
  of `init` are the one that wins and the one that is refused, in either order.
* `Deployment`: an old process without the handler and a new one with it, each
  scheduled or one-shot; one slot makes a hanging handler block the next
  attempt; two attempts are one that times out and its retry, which may run
  while the first still does. A heartbeat timeout of two ticks lets the ticker,
  at half of it, be late once. One late request is enough to land between the
  two RPCs of another caller, or over what it wrote.
* `Toolkit`: two fires, with two mishaps in each, are one that leaves something
  behind and one that finds it (`MaxFires`, `MaxMishaps`); two walks of a job
  and two extractions of an archive likewise (`MaxWalks`, `MaxAttempts`). The
  sources have no partition, one, or two, each with a good record and a bad one
  in either order, or fewer. The trees reach the limit exactly, are one block
  over it, or have more blocks than the largest word counts (4, `WordMax`), and
  a limit may be that word: sums saturate there. Any of their files may be a
  sparse entry of a tar. The maps have one key to three,
  a key without a value, one with a value twice and one whose value is a
  placeholder. The codecs are scaled: symbols of 2 bits, bytes of 3, words of 5
  and one check-only symbol keep what matters of 5, 8, 64 and five: a byte is
  not a whole number of symbols, the last symbol of a word carries fewer bits
  than it could (as 13 * 5 = 65 > 64), and the check is modulo a number larger
  than the base. Texts have up to 4 characters (`MaxText`), one more than a word
  has symbols; byte strings up to 3 (`MaxData`). Two retries (`MaxRetries`) are
  the first send, one in between and the last; bodies and limits up to 2
  (`MaxBody`) are below, at and over each other.

### Fairness

Safety is checked and proved of `Spec`, which assumes none. For liveness:

* `ChunkedSync`: weak fairness of the steps an execution and its caller take by
  themselves (`Step(e)`): an async function that is awaited is polled, Temporal
  re-runs a failed workflow, and the documented contract of a deferred summary
  is to continue as new. Triggers, faults, late calls and new data have no
  fairness: a job is never assumed to be started. `MaxFaults` makes errors stop
  in the end, without which nothing could be promised.
* `ConcurrentExecutor`: the runtime polls a call that can go on, its timer
  fires, and a task that was told to abort yields at some point. Nothing makes
  a task finish, so tasks hang. A task that blocks its thread for ever is
  outside tokio's contract.
* `Retry`: the future is polled and a cancelled token wakes the sleeper;
  neither `op` nor the backoff is assumed to end.
* `Service` (`ServiceFairSpec`): main, the serve loop and the timers are
  driven, and a signal that has arrived resolves the shutdown future; no
  handler is assumed to answer, no signal to arrive, no other `init` to be
  called.
* `Deployment` (`FairSpec`): the worker's future is polled, so that it
  initiates its drain, and the timer of its deadline fires. Handlers, the
  service, the SDK, signals and the operator owe nothing: `WorkerStops` holds
  with handlers that hang for ever, and with an SDK whose run does not return
  although nothing is left to drain (the end of a drain, `Drained`, has no
  fairness).
* `DagRun`, `Examples`: weak fairness of their next-state relation. Temporal
  makes an activity end with an answer or a timeout, and drives the workflow.
* `Toolkit`: none, and safety only. Its components are calls whose every wait
  is on something external.

### Deadlock

Deadlock is checked for `ChunkedSync`, whose job can always be started again.
The other modules model calls or processes that come to an end, and do nothing
more then, so their configurations say `CHECK_DEADLOCK FALSE`. That they do
come to an end is a liveness property where the code can promise it:
`TimedCallReturns`, `CancelWakes`, `RunReturns`, `PatternReturns`,
`ShutdownReturns`, `WorkerStops`.

## What the violated runs show

Each takes one sentence of the repository's documentation as a property. All
are listed with their lines under "findings" in `PROJECT.json`.

* `OverallTimeout`: `next_outcome` puts `tokio::time::timeout` around each
  single `join_next`, so the timeout bounds the gap between two finished tasks.
  The documentation of `with_timeout` and of `Error::Timeout` says it is
  overall.
* `TimeoutCountsDrain`: `run_with_shutdown` puts the timeout around the whole
  serve future. With `shutdown_timeout(d)` set, a server that nobody has asked
  to stop returns `ShutdownTimeout` after `d`.
* `FailFastAborts`: a sequential loop runs all its iterations and looks at
  their outcomes afterwards; FailFast changes only the answer.
* `OnlyValidDispatched`: a loop validates its template, and not the inputs the
  substitutor makes of it.

## What is proved

### `ChunkedSyncProofs`

For every set of executions, every list of partitions the assumption allows,
every cap and every number of faults: `TypeCorrect`, `CursorIsSafe`
(`CursorCoversOnlyApplied`), `FinishedIsSynced` (`FinishedMeansSynced`), and
`Refinement`: `Spec => Abstract!Spec`, that the detailed module implements
`ResumableSync`.

The only assumption is `ChunkAssumption`: the partitions are non-empty
half-open ranges in order, as the partitioner's documentation asks
(`chunk/mod.rs:4`), with gaps allowed. The code neither sorts nor checks the
list, so the properties cannot hold without it.

The two safety properties are not inductive. What carries them:

* `AppliedIsPrefix`: the partitions in the sink are always a prefix of those
  available. Without it a cursor that covers one partition would say nothing
  about the ones before.
* `KeysAreAppliedEnds`: the cursor, and every abandoned advance that may still
  land, is the end key of an applied partition. With the prefix and the order
  of the ranges, this gives `CursorCoversOnlyApplied`; it is stable because
  nothing is ever removed from the sink.
* `NothingForgotten(e)`: every partition an execution listed is in the sink, in
  its work list, or, when it defers, behind its whole work list. Filtering by
  the cursor keeps it because the cursor covers only applied partitions, and
  truncation because it keeps the front of the list. When the list is empty and
  the flag is not set, this is `FinishedMeansSynced`. It also says that the
  front of a work list comes right after applied work, which keeps the prefix.

The lemmas before the invariant say what `Smallest`, `Truncate` and
`Unprocessed` return; the least element of a work list comes from the
well-foundedness of `<` on the naturals. The refinement has one step per action:
each maps to `SyncNext`, `Settle`, `Appear` or a stutter.

### `ConcurrentExecutorProofs`

For every set of calls that share a token, every finite set of tasks and every
timeout: `TypeCorrect`, `OkIsComplete` (`OkMeansComplete`) and
`ReturnIsSettled` (`SettledOnReturn`), and `Refinement` (`RefinesTaskGroup`):
`Spec => Abstract!Spec`, all from `ExecutorAssumption` alone. The
invariant of a call relates its set, its results and the state of its tasks:
a task out of the set has ended (`JoinedHasEnded`), and while the call is in
its loop the results are exactly the outcomes of the tasks out of the set
(`ResultsAreOutcomes`). An empty set then means that every outcome is there.
`WayOut` says which answers can follow a shutdown, which is what makes a call
that went through it settled. A step of one call leaves the others alone
(`Untouched`) but for the token, which no conjunct reads.

The refinement has one step per action. `TaskGroup` answers a call from the
states of its tasks, the executor from the results it has collected; that they
agree when the set is empty is `ResultsAreOutcomes`. It aborts tasks only for a
call that has failed, panicked or been dropped: `NoneCutShort` says that no task
of a call that is still in its loop is aborted, so that an outcome collected is one the task
came to by itself. A join, a tick and most steps of the loop are stutters; the
step that fires the token on a failure is `Fail`, the end of the shutdown
`Deliver`.

### `DagRunProofs`

For every set of inputs, of any size: `AcceptedHasNoCycle`
(`AcceptedIsAcyclic`) and `CircularHasCycle` (`CircularIsCyclic`), theorems of
`DagRun`'s own `Spec`. A cycle is stated without paths, as a non-empty set of
nodes each of which depends on another of the set (`Deadlocked`), which is what
would keep `topological_layers` from placing them. The invariant holds while
the search is on its way:

* `StackIsPath`: each frame's last visited dependency is the frame above it,
  and a name is Visiting if and only if it is on the stack, once. Meeting a
  Visiting dependency therefore closes a cycle, made of the frames from it up
  (`CycleFound`).
* `PassedAreVisited`: what a frame is done with is finalised.
* `VisitedAreSound`: finalised names only depend on finalised names, and no set
  of them is `Deadlocked`. A node is finalised when all its dependencies are,
  so it waits for the set and nothing in the set for it (`AcyclicGrows`).
* `NextIsReached`: the outer loop leaves no white node behind it, so at its end
  all nodes are finalised (`AllFinalised`).

`DagAssumption` says what an input is: a sequence of nodes, and that the empty
string is not a name in use.

Of the run: `DependenciesAnswerFirst` (`DependenciesFirst`),
`RecordsAreTopological` (`RecordsTopological`) and `AnswersAccount` (`AnswerAccounts`), for every set
of inputs and every way the activities end, from `DagAssumption` alone. They
rest on the invariant of the search: an accepted input has no `Deadlocked` set,
so the nodes still to be placed cannot all wait for each other, and a layer is
only empty when nothing is left (`AllPlaced`). That is what makes the silent
stop of `topological_layers` harmless. The invariant of the run says:

* `LayersInv`: a layer holds new nodes only, and what they depend on lies in
  the layers before it. A node of a wave therefore depends on nothing in its
  own wave, and the order within a wave does not matter.
* `WavesInv`: the waves before the current one have answered, and with
  `fail_fast` all of them well; what is started is the layers up to it.
* `RecordsInv`: until the answer, what is recorded is exactly the waves that
  are over.

`InOrder` is a CHOOSE of an ascending listing; `Enumerated` shows that there is
one, by the least counterexample, and `StopsAtFirst` that a wave that ends the
run is recorded up to its first failure.

### `DeploymentProofs`

Of `Deployment`'s own `Spec`, for any processes, other callers, plan, tasks,
slots and attempts: `PollsOnlyPlanned` (`RunsOnlyPlanned`), `DrainIsComplete`
(`DrainFinishesWork`), `AttemptsAreTimeouts` (`RetriesAreTimeouts`) and
`HeartbeatIsInTime` (`HeartbeatKeepsAlive`). The assumptions are
`FunctionAssumption`, `ScheduleAssumption` and `DeploymentAssumption`, which
says that the operators who call the service are not workers: a call of theirs
is nobody's registration.

* `AttemptsAreOwed`: every attempt but the first is owed to one the service
  gave up, and a queued task is still owed one.
* `TickerLeads`: the service's count of a handler's silence never runs ahead of
  the ticker on the worker. `HeartbeatIsInTime` needs a heartbeat timeout of at
  least two ticks: the interval is half the timeout, and at one tick it is
  zero, where the code starts no ticker at all.
* `PlanInv`, `Registering(w)`: how far a process is in its plan, what it has
  installed so far, and where its call stands. An installation is a fact of the
  past, so calls of others, late ones included, do not disturb it.
* `DrainInv`: a deadline that has struck is the only way to lose an attempt
  between the drain and an Ok.

### `PatternsProofs`

For calls of any pattern, with lists of any length and any cap:

* `PipelineStopsAtFailure` (`PipelineStops`). A pipeline has one slot, so a step
  starts only when the outcomes of all the steps before it have been taken
  (`OneByOne`), and while it runs none of those was a failure
  (`NoFailureTaken`).
* `WindowHolds` (`CapHolds`). Before an answer, the futures that are alive are
  those of a window that `Refill` alone fills.
* `ReplaySafe` (`OrderNeverShows`): what is answered is a function of how the
  items ended. The answers are collected in the order they arrive and sorted by
  position before the tally, so the invariant (`TallyInv`) says that the tally
  over the first entries of the sorted list is the one over as many positions,
  whichever order they came in. `InOrder` is the permutation that sorts, by
  CHOOSE: the lemmas show that there is one, by the least counterexample, and
  that what it lists is the positions themselves, since each has answered once.
* `ExamplesKeepTheirWord` (`ExamplesAsDocumented`), of `ExampleSpec`: each of the
  18 programs follows from the same tally and from what its script says.

`PatternsAssumption` says that further calls have lists of items as well, and a
natural number for a cap.

### `RetryProofs`

For every bound on the retries: `TypeCorrect`, `RetriesAreCounted`
(`ExhaustedCounts`) and `CancelIsPrompt` (`CancelStopsAttempts`). The invariant
ties the attempt counter to the delays taken from the iterator
(`AttemptsFollowDelays`), and says that before the call no attempt is late
(`OneLateAttempt`): the token is checked at the head of every turn, so a late
attempt can only be the one whose check had passed. `RetryAssumption`, that the
bound is a natural number, is the only assumption.

### `ServiceProofs`

`NothingStaysBehind` (`NothingUnflushed`), for any requests, timeouts and
callers of `init`, with and without a shutdown timeout. The assumptions say that
`main` calls `init` and that `NoProvider` is no caller. Only one caller of
`init` gets past `try_init` (`OneSubscriber`), spans go to its provider
(`SpansAreSubscribed`), and main is past its own `init` only when that caller is
main (`MainOwnsSlot`): so the provider that `shutdown()` finds in the slot is
the one that holds the spans, and no other can hold any.

`OkIsDrained` is what safety says of `NoRequestAbandoned`, from
`ServerAssumption`: a server that answers Ok was told to stop and has answered
every request it accepted, none has slipped in behind the drain, only a shutdown
timeout that is set and has passed gives another answer, and no handler is kept
longer than the request timeout. What is left to TLC is that a request gets that
far. The property has no run of its own; TLC has checked its invariant
(`DrainInv`) on the instance of the `server` run.

### `ToolkitProofs`

Of `ToolkitSpec`. A step is a step of one part while the others rest
(`PartsStep`), so each part has an inductive invariant of its own. The
assumptions say that bounds are natural numbers and that inputs have their
types: `DemoAssumption`, `JobAssumption`, `ExtractAssumption`, `RestAssumption`,
`ToolkitAssumption`. The inputs themselves are any: every source, finite tree,
map, template, list of files and environment. `CodecAssumption` says of the
alphabets what the code's have: 2^5 symbols and 5 check-only ones, no symbol
twice, no `O`, `L` or hyphen among them, and symbols no wider than a byte.

* `RestIsJustified` (`RestOutcome`). `RestPhase`: nothing of a response is there
  before it is judged, a call that goes on sending has retries left, and the
  work has not been done yet unless a reply was a success or left it open.
* `WalksAccount` (`WalkAccounts`). `JobProgress`: the partitions behind the walk
  are in the sink with all their accepted records, whatever an earlier walk
  left; `JobBatch` ties the batch on its way to the partition and the account to
  what was fetched; `JobReach` bounds what a first walk can have touched. An
  upsert counts what was there before as updated or skipped, so the account
  needs the number of records that a batch adds (`WrittenOnce`).
* `ConfigIsLayered` (`LayersWin`). `ConfigInv`: what is merged so far has, field
  by field, the value of the last layer so far that sets it (`LastBelow`).
* `FiresSync` (`FireSyncsAll`). `DemoProgress`: what lies behind the cursor has
  been run in this process, and how many runs and executions that took, as long
  as nothing went wrong. A replaced process starts from an empty cursor in the
  middle of a chain; the invariant keeps the two cases apart.
* `LimitsAreKept` (`LimitsHold`). `ArchiveIsTree`: the archive lists each path of
  the tree once; `UnpackSoFar`: what counts as written is the sum over the counted
  files before the current entry, up to saturation, and what lies before it is
  on the disk, counted or not. Any set of files may be sparse. The sums are folds of the library,
  which take the elements of a set in an order of their own; `SumAnyOrder` and
  `SumAdds` show, by the smallest counterexample, that the order does not matter.
  The attempt to prove the property in its first form failed for a good reason:
  with the largest word as the limit (no limit, in effect) and a tree of more
  blocks than that, saturation hides the excess, and an extraction answers Ok
  although its count is not the size of the tree. The property now says so, and
  TLC has such a tree.
* `ReplaysAgree` (`ReplayAgrees`). What is dispatched is each time the task of
  that number under some order of the keys (`ExpansionInv`), so it is enough
  that the order does not matter. With values that hold no placeholder, filling
  key by key is one simultaneous substitution (`FillsOneMore`, `FilledAtOnce`):
  what an earlier key has put in is not touched by a later one. `Combinations`
  lists, after each key in sorted order, the choices for the keys so far
  (`DeepenedLists`), and none twice unless a key has a value twice.

* `CodecsAreExact` (`CodecExact`), for texts and byte strings of any length, and
  symbols, bytes and words of any width. What digits write in a base is a fold;
  the proof follows its running values. `Power` is what a 1 and n zeros write,
  so that powers need no `^`, of which the provers know nothing.
  - `Digits` and `Number` are inverse to each other, below `Power(base, len)`,
    and digits order as numbers do at the first place where they differ: this is
    the order of the texts of words.
  - `DecodeWord` reads, symbol by symbol, the number of the symbols so far, or
    has found that the number of the whole text is no word: a symbol to the left
    of the last `WordLen` that is not zero is worth at least `WordLimit`, as is
    a sum that overflows, and a number only grows.
  - `Encode` pads to a whole number of symbols, by fewer bits than a symbol has.
    As a symbol is no wider than a byte, `Decode` drops just these bits, and
    finds as many bytes as there were.
  - The check symbol is the number of the bytes modulo `CheckBase`, which is
    what Horner's method computes. One mistyped figure changes the number of the
    padded text by g * 2^m, with g not 0 and smaller than the base. The number of
    the bytes then stays, or changes by such a product, which no odd `CheckBase`,
    no smaller than the base, divides: the check does not agree. A prime, as 37,
    is not needed, but an even modulus is not enough (17 * 2 is 0 modulo 34), so
    the assumption asks for an odd one.
  - A workflow id is cut at its last hyphen, and `Encode` writes none.

The induction theorems of the library take an operator as a parameter, which
the provers cannot instantiate. Where an argument is by induction over numbers,
sets or sequences, it is made with the least counterexample or, in the last two,
with the set of what is proved so far (`NatFromSet`, `SeqFromSet`). The folds of
the library are unfolded into the functions they compute, and shown to exist
(`FoldExists`, `DescentExists`, `UnfoldingExists`).

### What stays with TLC

* Liveness: `StartedJobFinishes`, `StragglersStop`, `TimedCallReturns`,
  `RunReturns`, `PatternReturns`, `CancelWakes`, `ShutdownReturns`,
  `NoRequestAbandoned` and `WorkerStops`. Each is a leads-to that rests on the
  fairness of actions, so on `ENABLED`, which the prover does not handle.
* The four properties that are violated: what shows them is a behaviour of an
  instance.

Every safety invariant, action property and refinement of the passing runs is
proved, for every value of the constants that the named assumptions allow.

## Where source and documentation differ

Four differences have a run (above). These were met too. In each the model, and
the property that holds of it, follow the code; what the documentation promises
does not hold.

* Partial results and the token. `altair-concurrent` `executor.rs:60-61` says of
  that mode "The outer `Result` still reports infrastructure errors
  (`Error::Timeout`, `Error::Cancelled`, `Error::Join`)", as does its
  `README.md:89`; `error.rs:19` says of Cancelled "The cancellation token fired
  before all tasks completed". `run_partial` (`executor.rs:176-194`) never looks
  at the token: a call whose token fires while a task runs waits for all of its
  tasks and answers Ok. Only fail-fast answers Cancelled (`executor.rs:168`), and
  `TaskGroup` has it that way (`AnswerCancelled`), so `RefinesTaskGroup` does not
  catch this.
* The token and the tasks. `executor.rs:98` says "Cancelling it causes all tasks
  to abort". The token is handed to the tasks, and nothing is aborted because it
  fired: a task that does not look at it runs to its end (`Fire` of `TaskGroup`
  changes no task).
* Handlers that hang. `altair-server` `builder.rs:134-135` says of a drain without
  `shutdown_timeout` "Without a bound, a stuck handler keeps the server alive
  forever", and `server.rs:62` calls the deadline the alternative to "waiting
  forever". The request timeout (`middleware.rs:46`) is in every stack and answers
  408 for a handler that hangs, so the drain ends without a bound as well. This is
  what `ShutdownReturns` says, with and without a shutdown timeout. A handler that
  blocks its thread, and yields to no timer, is not in the model; of that one the
  sentence may be true.
* The limit of an extraction. `altair-compress` `tar.rs:53-55` calls it a "cap on
  the total extracted file bytes", and `tar.rs:79-80` says of the entries that are
  not counted that "they don't contribute file bytes". `is_file()` (`tar.rs:81`)
  is true of Regular entries only. GNU sparse entries, which `tar::Builder` writes
  for files with holes, continuous ones and those of unknown types are written in
  full by `entry.unpack` (`tar.rs:97`), so an extraction can answer Ok having
  written more than its limit. `Extraction` has it (`UnpackEntry`), and
  `LimitsHold` speaks of the counted files.
* Mistyped symbols. `altair-base32` `README.md:52` says "Any single-character
  corruption is detected". The check symbol is that of the decoded bytes
  (`check.rs:99-102`). Bits of the last symbol that fill no byte are dropped, so a
  typo in them is accepted, with the same bytes: `CSW` for `CRW`. Hyphens are
  dropped as well, so a symbol mistyped as a hyphen takes its bits with it, and
  the rest may check and be other bytes: `-17G9` for `617G9`. `CodecExact` says
  that a symbol mistyped as another symbol is refused or changes no byte, and
  nothing of the hyphen.
* Bodies without a declared length. `altair-rest` `config.rs:177-180` says that
  bodies over the limit are rejected "before they're decoded, so a rogue endpoint
  streaming gigabytes cannot OOM the process"; `config.rs:19-20` and
  `error.rs:35-37` say the same. Only a declared length is compared before the
  body is read; a response without one is read whole (`json.rs:89`) and measured
  afterwards. `RestOutcome` promises an empty buffer for declared lengths alone.
* The timeout of a request. `altair-rest` describes it as that of the request in
  total; it bounds one attempt, below the retry middleware.
* Variables with underscores. `altair-config` `README.md:70` says that the
  environment "overrides everything if set". `split('_')` (`loader.rs:62`) takes
  each underscore for a level of nesting, so a field with one in its own name
  cannot be reached, and keeps its value without an error. `LayersWin` is stated
  to allow it.
* Required files. `altair-config` `loader.rs:26` says "Loading fails if the file
  is missing", and `README.md:67` "required — fails if missing"; a missing
  required file is an empty layer (`loader.rs:59`), and loading succeeds when
  every field has a value without it. `LayersWin` is stated to allow it.
* Missing handlers. `altair-wf` `function/activity.rs:46` says that infrastructure
  failures, a missing handler among them, trigger the retry policy; the code marks
  them non-retryable. `RetriesAreTimeouts` holds because it does.
* The plan of the demos. `examples/scheduled_all.rs:34` says that the single-pass
  demo has three partitions; `DemoState` has six.

## Not modelled

* `altair-db`: every operation hands over to sea_orm and sqlx; no state of its
  own is left to model.
* `altair-temporal` client and configuration: options handed to the SDK.
  Connecting is one step of `Deployment` that succeeds or fails.
* In `altair-compress`, `safe_path` and `check_entry_links`: every entry of the
  model is inside the destination.
* In `altair-server`, CORS, compression, request ids and the health route: they
  keep no state and are layers of tower. A handler that is still running when
  `run_with_shutdown` returns is not followed any further.
* In `altair-rest`, redirects, headers and custom middleware; and clocks: a
  timeout is one of the ways a send is lost.
* In `altair-otel`, what exporters do between a flush and the collector.
* In `Schedule`, notes and pauses: a schedule is whose trigger it has.
* In `Expansion`, values that bring a part of a placeholder. A value that holds
  a whole one is modelled, and makes the result of `substitute_template` depend
  on the order of a hash map: with such values a replay can differ from the
  execution, so `ReplayAgrees` excludes them.
* In `ChunkedDemo`, two processes on one task queue at a time: the demos keep
  their cursor in the process and are not meant for it.
* Everywhere: tracing, wording, durations of delays and their jitter, the
  counters of the sync summary, the sleep between partitions of a chunked sync,
  output values and names (an item stands for its output).
* Test infrastructure (testcontainers, mocks) and the examples that only print.

## What could follow

1. A sequential reference for the fan-out of `Patterns`.
2. `SyncJob` as the `RunPartition` of `ChunkedSync`.
