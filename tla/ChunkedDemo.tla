---------------------------- MODULE ChunkedDemo ----------------------------
(***************************************************************************)
(* The programs that chain executions of chunked_sync_run by               *)
(* continue-as-new: ScheduledChunkedCanWf and ScheduledChunkedSinglePassWf *)
(* of examples/scheduled_all.rs, and examples/datasync_chunked.rs.         *)
(*                                                                         *)
(* Their tracker is weaker than the one ChunkedSync assumes: a plain       *)
(* insert into the memory of the process that serves the activities, lost  *)
(* with it, while the workflow is resumed from its history by the next     *)
(* process.  One process serves the task queue at a time, and a schedule   *)
(* skips a fire while the previous one runs.                               *)
(***************************************************************************)
EXTENDS Integers, FiniteSets

CONSTANTS
  MaxFires,   \* bound: fires of a schedule
  MaxMishaps  \* bound: lost answers, failed activities, restarts of one fire

ASSUME DemoAssumption == MaxFires \in Nat /\ MaxMishaps \in Nat

(***************************************************************************)
(* size: how many partitions, of ten keys each.  max: per execution, 0 for *)
(* no limit.  resets: which executions start with reset_cursor.            *)
(***************************************************************************)
ScheduledCan        == [size |-> 6,  max |-> 2, resets |-> "first"]
ScheduledSinglePass == [size |-> 6,  max |-> 0, resets |-> "every"]
DatasyncChunked     == [size |-> 10, max |-> 3, resets |-> "never"]
Demos == {ScheduledCan, ScheduledSinglePass, DatasyncChunked}

NoKey == -1
StartKey(k) == 10 * (k - 1)
EndKey(k)   == 10 * k

VARIABLES
  demo,      \* the program, fixed
  at,        \* idle, reset, list, read, run, advance; done, failed
  key,       \* DemoState: the cursor, or NoKey
  todo,      \* partitions this execution has still to run
  more,      \* the deferred flag of its summary
  ran,       \* how often each partition was run in this fire
  chain,     \* executions of this fire
  mishaps,   \* lost answers, failed activities, restarts in this fire
  fires

demoVars == <<demo, at, key, todo, more, ran, chain, mishaps, fires>>

Mishap == mishaps < MaxMishaps /\ mishaps' = mishaps + 1

First(parts) == CHOOSE k \in parts : \A j \in parts : k <= j

\* Where an execution starts; n is its place in the chain.
Entry(n) == IF demo.resets = "every" \/ (demo.resets = "first" /\ n = 1)
            THEN "reset" ELSE "list"

-----------------------------------------------------------------------------

\* The schedule fires, or main starts the one workflow of datasync_chunked.
Fire ==
  /\ at \in {"idle", "done", "failed"}
  /\ fires < IF demo.resets = "never" THEN 1 ELSE MaxFires
  /\ fires' = fires + 1
  /\ at' = Entry(1)
  /\ ran' = [k \in 1 .. demo.size |-> 0]
  /\ chain' = 1
  /\ mishaps' = 0
  /\ UNCHANGED <<demo, key, todo, more>>

\* Mutant of ResetCursor: the cursor of the last fire is kept.
KeepCursor ==
  /\ at = "reset"
  /\ at' = "list"
  /\ UNCHANGED <<demo, key, todo, more, ran, chain, mishaps, fires>>

ResetCursor ==
  /\ at = "reset"
  /\ at' = "list"
  /\ key' = NoKey
  /\ UNCHANGED <<demo, todo, more, ran, chain, mishaps, fires>>

ListDemoPartitions ==
  /\ at = "list"
  /\ at' = "read"
  /\ todo' = 1 .. demo.size
  /\ UNCHANGED <<demo, key, more, ran, chain, mishaps, fires>>

\* chunked_sync_run's retain and truncate.
ReadDemoCursor ==
  LET left == IF key = NoKey THEN todo ELSE {k \in todo : StartKey(k) >= key}
      cut  == demo.max > 0 /\ Cardinality(left) > demo.max
  IN  /\ at = "read"
      /\ at' = IF left = {} THEN "done" ELSE "run"
      /\ more' = cut
      /\ todo' = IF cut
                 THEN {k \in left : Cardinality({j \in left : j < k}) < demo.max}
                 ELSE left
      /\ UNCHANGED <<demo, key, ran, chain, mishaps, fires>>

RunDemoPartition ==
  /\ at = "run"
  /\ at' = "advance"
  /\ ran' = [ran EXCEPT ![First(todo)] = @ + 1]
  /\ UNCHANGED <<demo, key, todo, more, chain, mishaps, fires>>

\* The write of advance_cursor: an insert, whatever was there.
AdvanceDemoCursor ==
  LET rest == todo \ {First(todo)}
      again == rest = {} /\ more
  IN  /\ at = "advance"
      /\ key' = EndKey(First(todo))
      /\ todo' = rest
      /\ at' = CASE rest # {} -> "run"
                 [] again -> Entry(chain + 1)
                 [] OTHER -> "done"
      /\ chain' = IF again THEN chain + 1 ELSE chain
      /\ UNCHANGED <<demo, more, ran, mishaps, fires>>

-----------------------------------------------------------------------------

\* run_partition has done its work, its answer is lost and it is retried.
RunAnswerLost ==
  /\ at = "run"
  /\ Mishap
  /\ ran' = [ran EXCEPT ![First(todo)] = @ + 1]
  /\ UNCHANGED <<demo, at, key, todo, more, chain, fires>>

\* An activity has used up its attempts: the workflow fails.
DemoFails ==
  /\ at \in {"reset", "list", "read", "run", "advance"}
  /\ Mishap
  /\ at' = "failed"
  /\ UNCHANGED <<demo, key, todo, more, ran, chain, fires>>

\* The process of a scheduled demo is replaced; the workflow goes on.
RestartDemo ==
  /\ demo.resets # "never"
  /\ Mishap
  /\ key' = NoKey
  /\ UNCHANGED <<demo, at, todo, more, ran, chain, fires>>

DemoStart(program) ==
  /\ demo = program
  /\ at = "idle"
  /\ key = NoKey
  /\ todo = {}
  /\ more = FALSE
  /\ ran = [k \in 1 .. demo.size |-> 0]
  /\ chain = 0
  /\ mishaps = 0
  /\ fires = 0

DemoNext ==
  \/ Fire \/ ResetCursor \/ ListDemoPartitions \/ ReadDemoCursor
  \/ RunDemoPartition \/ AdvanceDemoCursor
  \/ RunAnswerLost \/ DemoFails \/ RestartDemo

-----------------------------------------------------------------------------
(* Properties *)

\* A fire that ends well has run every partition, in each of the schedule's
\* fires, also when its process was replaced on the way; and if nothing went
\* wrong, exactly once, in as many chained executions as the comments say
\* (scheduled_all: three; datasync_chunked: four).
FireSyncsAll ==
  at = "done" =>
    /\ \A k \in 1 .. demo.size : ran[k] >= 1
    /\ mishaps = 0 =>
         /\ \A k \in 1 .. demo.size : ran[k] = 1
         /\ chain = CASE demo.max = 2 -> 3 [] demo.max = 3 -> 4 [] OTHER -> 1
=============================================================================
