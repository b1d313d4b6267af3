---------------------------- MODULE ChunkedSync ----------------------------
(***************************************************************************)
(* altair_wf::datasync::chunk::chunked_sync_run and its caller.            *)
(*                                                                         *)
(* An execution lists the partitions of the job, drops those below the     *)
(* durable cursor, truncates the rest to the configured maximum, and then  *)
(* runs them one by one, moving the cursor to the end key of each.  It     *)
(* returns a summary (deferred or not) or the first error, and keeps       *)
(* nothing: the caller continues as new when the summary says deferred,    *)
(* and starts over when the execution failed or its process died.  Several *)
(* executions of one job may overlap (a schedule tick while a retry is     *)
(* still running), so every step is a separate action of one execution.    *)
(*                                                                         *)
(* Partition k is the range [Start[k], End[k]).  The partitioner returns   *)
(* the partitions 1 .. available, in this order; a list is a set of        *)
(* indices here, walked in ascending order.                                *)
(***************************************************************************)
EXTENDS Integers, FiniteSets

CONSTANTS
  Executions,     \* executions of the job that may overlap
  NumPartitions,  \* bound: partitions that ever become available
  Start, End,     \* key range of each partition
  MaxPerExec,     \* bound: largest max_partitions_per_execution configured
  MaxFaults       \* bound: errors and crashes in a behaviour

Partitions == 1 .. NumPartitions

(***************************************************************************)
(* The contract of the caller's partitioner: "ordered, half-open key       *)
(* ranges" (chunk/mod.rs), each with end > start (Partition::try_new), and *)
(* a boundary, once listed, stays a boundary.                              *)
(***************************************************************************)
ASSUME ChunkAssumption ==
  /\ NumPartitions \in Nat
  /\ Start \in [Partitions -> Nat]
  /\ End \in [Partitions -> Nat]
  /\ \A k \in Partitions : Start[k] < End[k]
  /\ \A j, k \in Partitions : j < k => End[j] <= Start[k]
  /\ MaxPerExec \in Nat
  /\ MaxFaults \in Nat

\* ProgressTracker::cursor's Ok(None): below every key, key 0 included.
NoCursor == -1

Running  == {"list", "read", "run", "advance"}
Returned == {"done", "deferred", "failed", "rejected"}
Configs  == [hasCursor : BOOLEAN, max : 0 .. MaxPerExec]

VARIABLES
  config,     \* ChunkedSyncConfig and the shape of the Cursor, fixed
  available,  \* the partitioner returns 1 .. available
  cursor,     \* durable: the tracker's last completed end key
  late,       \* advance calls given up on that may still reach the tracker
  applied,    \* durable: partitions whose records are in the sink
  pc,         \* where each execution is, or how it returned
  listed,     \* length of the list an execution was given
  work,       \* partitions an execution has still to run
  deferred,   \* the flag an execution will put in its summary
  faults      \* errors and crashes so far

durable == <<available, cursor, late, applied>>
locals  == <<listed, work, deferred>>
vars    == <<config, available, cursor, late, applied, pc, listed, work,
             deferred, faults>>

-----------------------------------------------------------------------------
(* The pieces of chunked_sync_run *)

Smallest(S) == CHOOSE k \in S : \A j \in S : k <= j

\* Mutants of Unprocessed and Truncate.
StrictlyAbove(parts, c) ==
  IF c = NoCursor THEN parts ELSE {k \in parts : Start[k] > c}
ZeroBased(parts, c) ==
  {k - 1 : k \in IF c = NoCursor THEN parts ELSE {k \in parts : Start[k] >= c}}
KeepLast(parts, max) ==
  {k \in parts : Cardinality({j \in parts : j > k}) < max}

\* parts.retain(|p| p.start >= c)
Unprocessed(parts, c) ==
  IF c = NoCursor THEN parts ELSE {k \in parts : Start[k] >= c}

\* parts.truncate(max): the first max of them.
Truncate(parts, max) ==
  {k \in parts : Cardinality({j \in parts : j < k}) < max}

TooMany(parts, max) == max > 0 /\ Cardinality(parts) > max

\* Mutants of EndForAdvance.
StartKey(parts) == Start[Smallest(parts)]
EndOfBatch(parts) == End[CHOOSE k \in parts : \A j \in parts : j <= k]

\* let end_for_advance = p.end.clone(), of the partition at the front.
EndForAdvance(parts) == End[Smallest(parts)]

\* advance is an upsert against a monotone column.
Upsert(c, key) == IF key > c THEN key ELSE c

Goto(e, label) == pc' = [pc EXCEPT ![e] = label]

\* One more error or crash.
Fault ==
  /\ faults < MaxFaults
  /\ faults' = faults + 1

-----------------------------------------------------------------------------
(* The caller *)

\* The entry of chunked_sync_run: a cap needs a cursor.
Enter(e) ==
  /\ Goto(e, IF config.max > 0 /\ ~config.hasCursor THEN "rejected" ELSE "list")
  /\ listed' = [listed EXCEPT ![e] = 0]
  /\ work' = [work EXCEPT ![e] = {}]
  /\ deferred' = [deferred EXCEPT ![e] = FALSE]
  /\ UNCHANGED <<config, durable, faults>>

\* A schedule tick or a caller starts the job.
Trigger(e) == pc[e] \in {"idle", "done", "rejected"} /\ Enter(e)

\* summary.deferred: the caller continues as new with the same input.
ContinueAsNew(e) == pc[e] = "deferred" /\ Enter(e)

\* The execution failed or died: its workflow is run again.
Retry(e) == pc[e] = "failed" /\ Enter(e)

-----------------------------------------------------------------------------
(* One execution *)

\* The work list is final: truncate it and enter the loop, or return.
StartLoop(e, parts) ==
  /\ Goto(e, IF parts = {} THEN "done" ELSE "run")
  /\ deferred' = [deferred EXCEPT ![e] = TooMany(parts, config.max)]
  /\ work' = [work EXCEPT ![e] = IF TooMany(parts, config.max)
                                 THEN Truncate(parts, config.max)
                                 ELSE parts]

ListPartitions(e) ==
  /\ pc[e] = "list"
  /\ listed' = [listed EXCEPT ![e] = available]
  /\ IF config.hasCursor /\ available > 0
     THEN /\ Goto(e, "read")
          /\ work' = [work EXCEPT ![e] = 1 .. available]
          /\ UNCHANGED deferred
     ELSE StartLoop(e, 1 .. available)
  /\ UNCHANGED <<config, durable, faults>>

ReadCursor(e) ==
  /\ pc[e] = "read"
  /\ StartLoop(e, Unprocessed(work[e], cursor))
  /\ UNCHANGED <<config, durable, listed, faults>>

\* The partition at the front of the list is done: next one, or return.
PopAndContinue(e) ==
  LET rest == work[e] \ {Smallest(work[e])}
  IN  /\ work' = [work EXCEPT ![e] = rest]
      /\ Goto(e, IF rest # {} THEN "run"
                 ELSE IF deferred[e] THEN "deferred" ELSE "done")

\* run_partition answers Ok: the partition's records are in the sink.
RunPartition(e) ==
  /\ pc[e] = "run"
  /\ applied' = applied \union {Smallest(work[e])}
  /\ IF config.hasCursor
     THEN Goto(e, "advance") /\ UNCHANGED work
     ELSE PopAndContinue(e)
  /\ UNCHANGED <<config, available, cursor, late, listed, deferred, faults>>

\* advance(partition.end) answers Ok.
Advance(e) ==
  /\ pc[e] = "advance"
  /\ cursor' = Upsert(cursor, EndForAdvance(work[e]))
  /\ PopAndContinue(e)
  /\ UNCHANGED <<config, available, late, applied, listed, deferred, faults>>

-----------------------------------------------------------------------------
(* Failures: every error is returned at once, with no rollback *)

\* list_partitions or the cursor read fails, or the process dies anywhere.
Fail(e) ==
  /\ pc[e] \in Running
  /\ Fault
  /\ Goto(e, "failed")
  /\ UNCHANGED <<config, durable, locals>>

\* run_partition fails after its write has reached the sink.
FailAfterWrite(e) ==
  /\ pc[e] = "run"
  /\ Fault
  /\ applied' = applied \union {Smallest(work[e])}
  /\ Goto(e, "failed")
  /\ UNCHANGED <<config, available, cursor, late, locals>>

\* advance fails from the execution's side: its write may still land.
AdvanceTimesOut(e) ==
  /\ pc[e] = "advance"
  /\ Fault
  /\ late' = late \union {EndForAdvance(work[e])}
  /\ Goto(e, "failed")
  /\ UNCHANGED <<config, available, cursor, applied, locals>>

\* An abandoned advance reaches the tracker, however late.
LateAdvance ==
  \E key \in late :
    /\ cursor' = Upsert(cursor, key)
    /\ late' = late \ {key}
    /\ UNCHANGED <<config, available, applied, pc, locals, faults>>

-----------------------------------------------------------------------------
(* The source *)

NewPartition ==
  /\ available < NumPartitions
  /\ available' = available + 1
  /\ UNCHANGED <<config, cursor, late, applied, pc, locals, faults>>

-----------------------------------------------------------------------------

Init ==
  /\ config \in Configs
  /\ available \in 0 .. NumPartitions
  /\ cursor = NoCursor
  /\ late = {}
  /\ applied = {}
  /\ pc = [e \in Executions |-> "idle"]
  /\ listed = [e \in Executions |-> 0]
  /\ work = [e \in Executions |-> {}]
  /\ deferred = [e \in Executions |-> FALSE]
  /\ faults = 0

\* What the helper and a caller that follows its contract do by themselves.
Step(e) ==
  \/ ContinueAsNew(e) \/ Retry(e)
  \/ ListPartitions(e) \/ ReadCursor(e) \/ RunPartition(e) \/ Advance(e)

Next ==
  \/ \E e \in Executions :
       \/ Trigger(e)
       \/ ContinueAsNew(e) \/ Retry(e)
       \/ ListPartitions(e) \/ ReadCursor(e) \/ RunPartition(e) \/ Advance(e)
       \/ Fail(e) \/ FailAfterWrite(e) \/ AdvanceTimesOut(e)
  \/ LateAdvance
  \/ NewPartition

Spec == Init /\ [][Next]_vars

\* A started job is driven by its executor; ticks, errors, late calls and
\* new data are the environment's.
FairSpec == Spec /\ \A e \in Executions : WF_vars(Step(e))

-----------------------------------------------------------------------------
(* Properties *)

\* Every variable keeps its type.
TypeOK ==
  /\ config \in Configs
  /\ available \in 0 .. NumPartitions
  /\ cursor \in Nat \union {NoCursor}
  /\ late \subseteq Nat
  /\ applied \subseteq Partitions
  /\ pc \in [Executions -> {"idle"} \union Running \union Returned]
  /\ listed \in [Executions -> 0 .. NumPartitions]
  /\ work \in [Executions -> SUBSET Partitions]
  /\ deferred \in [Executions -> BOOLEAN]
  /\ faults \in 0 .. MaxFaults

\* The cursor, and any advance still on its way to the tracker, only covers
\* partitions whose records are in the sink: dropping what starts below the
\* cursor never loses work, whatever failed and whoever else was running.
CursorCoversOnlyApplied ==
  \A k \in Partitions :
    (End[k] <= cursor \/ \E key \in late : End[k] <= key) => k \in applied

\* An execution that returns Ok without the deferred flag leaves every
\* partition of the list it was given in the sink.
FinishedMeansSynced ==
  \A e \in Executions : pc[e] = "done" => 1 .. listed[e] \subseteq applied

\* A job that was started finishes, however many continue-as-new it takes,
\* once errors stop: each execution moves the cursor.
StartedJobFinishes ==
  \A e \in Executions :
    (pc[e] \in Running \union {"deferred", "failed"}) ~> pc[e] = "done"

\* The sink receives partitions for the first time in order, only listed
\* ones, and the durable cursor only moves forward over applied partitions.
Abstract == INSTANCE ResumableSync
              WITH synced  <- applied,
                   settled <- {k \in Partitions : End[k] <= cursor}
RefinesResumableSync == Abstract!Spec
=============================================================================
