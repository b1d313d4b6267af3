------------------------------ MODULE Patterns ------------------------------
(***************************************************************************)
(* altair_wf's list patterns: pipeline, parallel, and run_iterations, the  *)
(* engine of run_loop and parameterized_loop.                              *)
(*                                                                         *)
(* A pattern hands its items to execute_one: one after the other, all at   *)
(* once (join_all), or through buffer_unordered(max_in_flight), which      *)
(* starts the next item of the list whenever a slot is free and yields the *)
(* answers in the order they arrive.  A pipeline tallies each answer as it *)
(* comes; the others wait for all of them, put them back in input order    *)
(* and then tally.  Positions count from 1 here.                           *)
(***************************************************************************)
EXTENDS Naturals, Sequences, SequencesExt, FiniteSets

CONSTANTS
  MaxItems,  \* bound: longest list of items
  MaxCap,    \* bound: largest max_in_flight, and 0 for no cap
  MoreCalls  \* calls beyond those bounds

ASSUME PatternsAssumption ==
  /\ MaxItems \in Nat /\ MaxCap \in Nat
  /\ \A c \in MoreCalls : c.cap \in Nat /\ c.valid \in Seq(BOOLEAN)

\* How execute_one ends: Ok and is_success(), Ok without it, or Err.
Outcomes == {"ok", "failed", "error"}

\* stop is stop_on_error of a pipeline, FailFast of the others; valid says
\* which inputs' own validate() succeeds (in a loop, of the inputs its
\* substitutor makes), template whether the loop template's does.
SmallCalls ==
  [pattern : {"pipeline", "parallel", "loop"}, concurrent : BOOLEAN,
   cap : 0 .. MaxCap, stop : BOOLEAN,
   valid : UNION {[1 .. n -> BOOLEAN] : n \in 0 .. MaxItems},
   template : BOOLEAN]
Calls == SmallCalls \union MoreCalls

VARIABLES
  call,      \* the pattern called and its input, fixed
  item,      \* queued, running, or how the item's future has ended
  collected, \* items whose outcome has been taken, in that order
  pc,        \* start, run, tally, returned
  results,   \* items whose output the pattern returns
  success,   \* total_success
  failed,    \* failed_indices; failure_reasons grows with it
  answer,    \* none, Ok, InvalidInput, or PatternStopped
  position   \* the position PatternStopped names

tallied == <<results, success, failed>>
vars == <<call, item, collected, pc, results, success, failed, answer, position>>

Items == DOMAIN call.valid
Taken == ToSet(collected)
Queued == {k \in Items : item[k] = "queued"}
InFlight == Items \ (Queued \union Taken)

Return(a) == pc' = "returned" /\ answer' = a

-----------------------------------------------------------------------------
(* validate() *)

\* A loop validates its template only.
InputValid ==
  /\ Items # {}
  /\ IF call.pattern = "loop" THEN call.template ELSE \A k \in Items : call.valid[k]

Enter ==
  /\ pc = "start"
  /\ IF InputValid
     THEN pc' = "run" /\ UNCHANGED answer
     ELSE Return("InvalidInput")
  /\ UNCHANGED <<call, item, collected, tallied, position>>

-----------------------------------------------------------------------------
(* Fan-out *)

\* Futures alive at once: join_all when there is no cap.
Width ==
  IF ~call.concurrent THEN 1
  ELSE IF call.cap = 0 THEN Cardinality(Items)
  ELSE call.cap

\* Mutants of ToStart: the slots are counted from the start of the run and
\* never freed; one slot too many.
StartedOnce ==
  {k \in Queued : Cardinality(Items \ Queued)
                    + Cardinality({j \in Queued : j < k}) < Width}
OneTooMany ==
  {k \in Queued : Cardinality(InFlight) + Cardinality({j \in Queued : j < k}) <= Width}

\* The next items of the list, as many as there are free slots.
ToStart ==
  {k \in Queued : Cardinality(InFlight) + Cardinality({j \in Queued : j < k}) < Width}

\* One poll of the stream fills the free slots before anything else.
Refill ==
  /\ pc = "run"
  /\ ToStart # {}
  /\ item' = [k \in Items |-> IF k \in ToStart THEN "running" ELSE item[k]]
  /\ UNCHANGED <<call, collected, pc, tallied, answer, position>>

\* The activity behind a future answers.
Answer(k) ==
  /\ item[k] = "running"
  /\ \E o \in Outcomes : item' = [item EXCEPT ![k] = o]
  /\ UNCHANGED <<call, collected, pc, tallied, answer, position>>

-----------------------------------------------------------------------------
(* Tally *)

\* Mutant of Stops: only an Err counts.
OnErrOnly(o) == call.stop /\ o = "error"

\* A failure, of either kind, ends the pattern when it was asked to.
Stops(o) == call.stop /\ o # "ok"

\* The position given to the next outcome tallied (enumerate).
NextPosition == success + Len(failed) + 1

Tally(k, o) ==
  /\ IF o = "ok"
     THEN success' = success + 1 /\ UNCHANGED failed
     ELSE failed' = Append(failed, NextPosition) /\ UNCHANGED success
  /\ results' = IF o = "error" THEN results ELSE Append(results, k)
  /\ IF Stops(o)
     THEN Return("PatternStopped") /\ position' = NextPosition
     ELSE UNCHANGED <<pc, answer, position>>

\* The pattern takes one outcome; a pipeline tallies it right away.
Take(k) ==
  /\ pc = "run" /\ ToStart = {}
  /\ k \in InFlight /\ item[k] \in Outcomes
  /\ collected' = Append(collected, k)
  /\ IF call.pattern = "pipeline"
     THEN Tally(k, item[k])
     ELSE UNCHANGED <<pc, tallied, answer, position>>
  /\ UNCHANGED <<call, item>>

\* Mutant of InOrder: the answers stay in the order they arrived.
AsArrived(s) == s

\* indexed.sort_by_key; join_all gives the same order.
InOrder(s) ==
  LET order == CHOOSE p \in Injection(DOMAIN s, DOMAIN s) :
                 \A i, j \in DOMAIN s : i < j => s[p[i]] <= s[p[j]]
  IN  [i \in DOMAIN s |-> s[order[i]]]

\* All outcomes are in: a pipeline returns, the others sort and tally.
AllTaken ==
  /\ pc = "run" /\ Len(collected) = Cardinality(Items)
  /\ IF call.pattern = "pipeline"
     THEN Return("Ok") /\ UNCHANGED collected
     ELSE pc' = "tally" /\ collected' = InOrder(collected) /\ UNCHANGED answer
  /\ UNCHANGED <<call, item, tallied, position>>

TallyNext ==
  /\ pc = "tally" /\ NextPosition <= Len(collected)
  /\ LET k == collected[NextPosition] IN Tally(k, item[k])
  /\ UNCHANGED <<call, item, collected>>

AllTallied ==
  /\ pc = "tally" /\ NextPosition > Len(collected)
  /\ Return("Ok")
  /\ UNCHANGED <<call, item, collected, tallied, position>>

-----------------------------------------------------------------------------

\* A pipeline has no cap and is never concurrent, parallel always is; a
\* sequential loop ignores its cap.
Init ==
  /\ call \in Calls
  /\ call.pattern = "pipeline" => ~call.concurrent
  /\ call.pattern = "parallel" => call.concurrent
  /\ ~call.concurrent => call.cap = 0
  /\ call.pattern # "loop" => call.template
  /\ item = [k \in Items |-> "queued"]
  /\ collected = <<>>
  /\ pc = "start"
  /\ results = <<>>
  /\ success = 0
  /\ failed = <<>>
  /\ answer = "none"
  /\ position = 0

Next ==
  \/ Enter \/ Refill \/ AllTaken \/ TallyNext \/ AllTallied
  \/ \E k \in Items : Answer(k) \/ Take(k)

Spec == Init /\ [][Next]_vars

\* The workflow is driven and every activity answers in the end.
FairSpec == Spec /\ WF_vars(Next)

-----------------------------------------------------------------------------
(* Properties *)

Increasing(s) == \A i, j \in DOMAIN s : i < j => s[i] < s[j]
Ascending(S) == CHOOSE s \in [1 .. Cardinality(S) -> S] : Increasing(s)

\* What a pattern returns depends on how its items ended and never on the
\* order in which they did, as a workflow that is replayed needs: an Ok
\* answer lists outputs and failures by input position, and PatternStopped
\* names the first failing position.
OrderNeverShows ==
  /\ answer = "Ok" =>
       /\ results = Ascending({k \in Items : item[k] # "error"})
       /\ failed = Ascending({k \in Items : item[k] # "ok"})
       /\ success = Cardinality({k \in Items : item[k] = "ok"})
       /\ call.stop => failed = <<>>
  /\ answer = "PatternStopped" =>
       /\ call.stop /\ item[position] \in {"failed", "error"}
       /\ \A k \in 1 .. (position - 1) : item[k] = "ok"

\* max_in_flight bounds the futures alive at any moment.
CapHolds == call.concurrent /\ call.cap > 0 => Cardinality(InFlight) <= call.cap

\* With stop_on_error a pipeline runs no step after one that failed.
PipelineStops ==
  call.pattern = "pipeline" /\ call.stop =>
    \A j, k \in Items : j < k /\ item[j] \in {"failed", "error"} => item[k] = "queued"

\* A pattern comes to an answer: a full window never stalls the fan-out.
PatternReturns == <>(pc = "returned")

\* "Abort on the first failing step", for a sequential loop: no iteration
\* runs after one that failed.
FailFastAborts ==
  call.pattern = "loop" /\ ~call.concurrent /\ call.stop =>
    \A j, k \in Items : j < k /\ item[j] \in {"failed", "error"} => item[k] = "queued"

\* The payload's validate() is enforced "before the pattern hands the input
\* to the activity".
OnlyValidDispatched == \A k \in Items : item[k] # "queued" => call.valid[k]
=============================================================================
