--------------------------- MODULE ResumableSync ---------------------------
(***************************************************************************)
(* What a chunked sync promises its owner, with the executions hidden.     *)
(*                                                                         *)
(* A job covers an ordered list of partitions 1, 2, 3, ...  Partitions     *)
(* appear at the end of the list.  Whatever the executions, their failures *)
(* and their restarts do, the sink only ever receives a partition for the  *)
(* first time once every earlier one is in it, and the durable mark only   *)
(* moves forward, over partitions that are already in the sink.            *)
(***************************************************************************)
EXTENDS Naturals

VARIABLES
  available,   \* number of partitions the source has so far
  synced,      \* partitions whose records are in the sink
  settled      \* partitions that are never listed for work again

sync == <<available, synced, settled>>

Init ==
  /\ available \in Nat
  /\ synced = {}
  /\ settled = {}

\* New data arrives at the end of the key range.
Appear ==
  /\ available' = available + 1
  /\ UNCHANGED <<synced, settled>>

\* A partition reaches the sink for the first time, after all before it.
SyncNext ==
  \E k \in 1 .. available :
    /\ k \notin synced
    /\ \A j \in 1 .. (k - 1) : j \in synced
    /\ synced' = synced \union {k}
    /\ UNCHANGED <<available, settled>>

\* The durable mark moves forward over work that is done.
Settle ==
  /\ settled \subseteq settled'
  /\ settled' \subseteq synced
  /\ UNCHANGED <<available, synced>>

Next == Appear \/ SyncNext \/ Settle

Spec == Init /\ [][Next]_sync
=============================================================================
