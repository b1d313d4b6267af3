------------------------- MODULE ChunkedSyncProofs -------------------------
(***************************************************************************)
(* Proofs about ChunkedSync, for every number of executions, every list of *)
(* partitions the assumption allows, and every bound on caps and faults.   *)
(***************************************************************************)
EXTENDS ChunkedSync, FiniteSetTheorems, WellFoundedInduction, TLAPS

-----------------------------------------------------------------------------
(* The inductive invariant *)

\* The sink holds a prefix of the partitions that are available: the loop
\* walks its list in order, and the list starts where applied work ends.
AppliedIsPrefix ==
  \A k \in applied : k <= available /\ 1 .. (k - 1) \subseteq applied

\* The cursor and the late calls are end keys of applied partitions.
KeysAreAppliedEnds ==
  /\ cursor = NoCursor \/ \E k \in applied : cursor = End[k]
  /\ \A key \in late : \E k \in applied : key = End[k]

\* Nothing of an execution's list is forgotten: each partition is applied,
\* still to run, or behind the ones to run and left to the next execution.
NothingForgotten(e) ==
  \A k \in 1 .. listed[e] :
    \/ k \in applied
    \/ k \in work[e]
    \/ deferred[e] /\ \A j \in work[e] : j < k

ExecutionInv(e) ==
  /\ listed[e] <= available
  /\ pc[e] \in {"list", "read"} => ~deferred[e]
  /\ pc[e] \in {"read", "run", "advance"} =>
       /\ work[e] # {}
       /\ work[e] \subseteq 1 .. listed[e]
       /\ NothingForgotten(e)
  /\ pc[e] = "advance" => Smallest(work[e]) \in applied
  /\ pc[e] = "done" => 1 .. listed[e] \subseteq applied

IInv ==
  /\ TypeOK
  /\ AppliedIsPrefix
  /\ KeysAreAppliedEnds
  /\ \A e \in Executions : ExecutionInv(e)

-----------------------------------------------------------------------------
(* Lemmas about the work list *)

\* A work list that is not empty has a front, and it is its least index.
LEMMA SmallestExists ==
  ASSUME NEW S \in SUBSET Nat, S # {}
  PROVE  /\ Smallest(S) \in S
         /\ \A j \in S : Smallest(S) <= j
<1>1. OpToRel(<, Nat) = {p \in Nat \X Nat : p[1] < p[2]}
  BY DEF OpToRel
<1>2. \E x \in S : \A y \in S : ~ (<<y, x>> \in {p \in Nat \X Nat : p[1] < p[2]})
  <2>1. \E x \in S : \A y \in S : ~ (<<y, x>> \in OpToRel(<, Nat))
    BY NatLessThanWellFounded, WFMin, Zenon
  <2> QED BY <1>1, <2>1, Zenon
<1>3. PICK x \in S : \A y \in S : ~ (<<y, x>> \in {p \in Nat \X Nat : p[1] < p[2]})
  BY <1>2
<1>4. ASSUME NEW y \in S PROVE x <= y
  <2>1. x \in Nat /\ y \in Nat /\ <<y, x>> \in Nat \X Nat
    OBVIOUS
  <2>2. ~ (y < x)
    BY <1>3, <2>1
  <2>3. QED
    BY <2>1, <2>2
<1>5. QED
  BY <1>4 DEF Smallest

\* Partitions are a finite set of natural numbers, in the order of their keys.
LEMMA PartitionOrder ==
  /\ Partitions \subseteq Nat
  /\ IsFiniteSet(Partitions)
  /\ \A k \in Partitions : Start[k] \in Nat /\ End[k] \in Nat /\ Start[k] < End[k]
  /\ \A j, k \in Partitions : j < k => End[j] <= Start[k]
  /\ \A j, k \in Partitions : Start[k] < End[j] => k <= j
  /\ \A j, k \in Partitions : End[k] <= End[j] => k <= j
<1>1. Partitions \subseteq Nat /\ IsFiniteSet(Partitions)
  BY ChunkAssumption, FS_Interval DEF Partitions
<1>2. \A k \in Partitions : Start[k] \in Nat /\ End[k] \in Nat /\ Start[k] < End[k]
  BY ChunkAssumption
<1>3. \A j, k \in Partitions : j < k => End[j] <= Start[k]
  BY ChunkAssumption
<1>4. ASSUME NEW j \in Partitions, NEW k \in Partitions, ~ (k <= j)
      PROVE  End[j] <= Start[k] /\ End[j] < End[k]
  <2>1. j < k
    BY <1>1, <1>4
  <2>2. QED
    BY <2>1, <1>2, <1>3
<1>5. QED
  BY <1>1, <1>2, <1>3, <1>4

\* Truncation to a positive cap keeps a non-empty front of the list.
LEMMA TruncateKeepsFront ==
  ASSUME NEW parts \in SUBSET Partitions, NEW max \in Nat
  PROVE  /\ Truncate(parts, max) \subseteq parts
         /\ parts # {} /\ max > 0 => Truncate(parts, max) # {}
         /\ \A j \in parts, k \in Truncate(parts, max) :
              j <= k => j \in Truncate(parts, max)
<1> DEFINE Before(k) == {j \in parts : j < k}
<1>1. IsFiniteSet(parts) /\ parts \subseteq Nat
  BY PartitionOrder, FS_Subset
<1>2. \A k \in parts : IsFiniteSet(Before(k)) /\ Cardinality(Before(k)) \in Nat
  BY <1>1, FS_Subset, FS_CardinalityType
<1>3. Truncate(parts, max) = {k \in parts : Cardinality(Before(k)) < max}
  BY DEF Truncate
<1>4. ASSUME parts # {}, max > 0
      PROVE  Truncate(parts, max) # {}
  <2>1. Smallest(parts) \in parts /\ \A j \in parts : Smallest(parts) <= j
    BY <1>1, <1>4, SmallestExists
  <2>2. ASSUME NEW j \in parts PROVE ~ (j < Smallest(parts))
    <3>1. j \in Nat /\ Smallest(parts) \in Nat /\ Smallest(parts) <= j
      BY <1>1, <2>1
    <3>2. QED
      BY <3>1
  <2>3. Cardinality(Before(Smallest(parts))) = 0
    <3>1. Before(Smallest(parts)) = {}
      BY <2>2
    <3>2. QED
      BY <3>1, FS_EmptySet
  <2>4. QED
    BY <1>3, <1>4, <2>1, <2>3
<1>5. ASSUME NEW j \in parts, NEW k \in Truncate(parts, max), j <= k
      PROVE  j \in Truncate(parts, max)
  <2>1. k \in parts /\ Cardinality(Before(k)) < max
    BY <1>3
  <2>2. Before(j) \subseteq Before(k)
    <3>1. SUFFICES ASSUME NEW i \in parts, i < j PROVE i < k
      OBVIOUS
    <3>2. i \in Nat /\ j \in Nat /\ k \in Nat
      BY <1>1, <2>1
    <3>3. QED
      BY <1>5, <3>1, <3>2
  <2>3. Cardinality(Before(j)) <= Cardinality(Before(k))
    BY <1>2, <2>1, <2>2, FS_Subset
  <2>4. Cardinality(Before(j)) < max
    BY <1>2, <2>1, <2>3
  <2>5. QED
    BY <1>3, <2>4
<1>6. QED
  BY <1>3, <1>4, <1>5

\* The front of a work list is the index of a partition.
LEMMA FrontType ==
  ASSUME NEW S \in SUBSET Partitions, S # {}
  PROVE  /\ Smallest(S) \in S
         /\ Smallest(S) \in Partitions
         /\ EndForAdvance(S) = End[Smallest(S)]
         /\ End[Smallest(S)] \in Nat
         /\ \A j \in S : Smallest(S) <= j
  BY SmallestExists, PartitionOrder DEF EndForAdvance

-----------------------------------------------------------------------------
(* What the invariant gives, and what leaves it alone *)

\* Dropping what starts below the cursor drops applied partitions only.
LEMMA CursorSafe ==
  ASSUME TypeOK, AppliedIsPrefix, KeysAreAppliedEnds,
         NEW k \in Partitions,
         cursor # NoCursor, ~ (Start[k] >= cursor)
  PROVE  k \in applied
<1>1. PICK p \in applied : cursor = End[p]
  BY DEF KeysAreAppliedEnds
<1>2. p \in Partitions /\ p \in Nat /\ k \in Nat
  BY PartitionOrder DEF TypeOK
<1>3. Start[k] < End[p]
  BY <1>1, <1>2, PartitionOrder
<1>4. k <= p
  BY <1>2, <1>3, PartitionOrder
<1>5. CASE k = p
  BY <1>1, <1>5
<1>6. CASE k # p
  <2>1. k \in 1 .. (p - 1)
    BY <1>2, <1>4, <1>6, ChunkAssumption DEF Partitions
  <2>2. QED
    BY <2>1 DEF AppliedIsPrefix
<1>7. QED
  BY <1>5, <1>6

\* An execution that does not move keeps its invariant when partitions
\* appear or are applied by someone else.
LEMMA OtherExecution ==
  ASSUME TypeOK, NEW e \in Executions, ExecutionInv(e),
         pc'[e] = pc[e], listed'[e] = listed[e], work'[e] = work[e],
         deferred'[e] = deferred[e],
         applied \subseteq applied',
         available' \in Nat, available <= available'
  PROVE  ExecutionInv(e)'
<1>1. listed'[e] <= available'
  BY ChunkAssumption DEF ExecutionInv, TypeOK
<1>2. NothingForgotten(e) => NothingForgotten(e)'
  BY DEF NothingForgotten
<1>3. QED
  BY <1>1, <1>2 DEF ExecutionInv, Smallest

\* Entering the loop with a list that covers what is not applied.
LEMMA StartLoopInv ==
  ASSUME TypeOK, NEW e \in Executions, NEW parts \in SUBSET Partitions,
         StartLoop(e, parts), applied' = applied, available' = available,
         listed'[e] \in Nat, listed'[e] <= available,
         parts \subseteq 1 .. listed'[e],
         \A k \in 1 .. listed'[e] : k \in applied \/ k \in parts
  PROVE  /\ ExecutionInv(e)'
         /\ pc' \in [Executions -> {"idle"} \union Running \union Returned]
         /\ work' \in [Executions -> SUBSET Partitions]
         /\ deferred' \in [Executions -> BOOLEAN]
         /\ \A x \in Executions \ {e} : /\ pc'[x] = pc[x]
                                        /\ work'[x] = work[x]
                                        /\ deferred'[x] = deferred[x]
<1>1. config.max \in Nat
  BY ChunkAssumption DEF TypeOK, Configs
<1>2. /\ Truncate(parts, config.max) \subseteq parts
      /\ parts # {} /\ config.max > 0 => Truncate(parts, config.max) # {}
      /\ \A j \in parts, k \in Truncate(parts, config.max) :
           j <= k => j \in Truncate(parts, config.max)
  BY <1>1, TruncateKeepsFront
<1>3. /\ pc'[e] = IF parts = {} THEN "done" ELSE "run"
      /\ deferred'[e] = TooMany(parts, config.max)
      /\ work'[e] = IF TooMany(parts, config.max)
                    THEN Truncate(parts, config.max) ELSE parts
  BY DEF StartLoop, Goto, TypeOK
<1>4. work'[e] \subseteq parts /\ (parts # {} => work'[e] # {})
  BY <1>2, <1>3 DEF TooMany
<1>5. NothingForgotten(e)'
  <2>1. SUFFICES ASSUME NEW k \in 1 .. listed'[e], k \notin applied', k \notin work'[e]
                 PROVE  deferred'[e] /\ \A j \in work'[e] : j < k
    BY DEF NothingForgotten
  <2>2. k \in parts
    BY <2>1
  <2>3. TooMany(parts, config.max)
    BY <1>3, <2>1, <2>2
  <2>4. ASSUME NEW j \in work'[e] PROVE j < k
    <3>1. j \in Nat /\ k \in Nat
      BY <1>4, <2>2, PartitionOrder
    <3>2. ~ (k <= j)
      BY <1>2, <1>3, <2>1, <2>2, <2>3
    <3>3. QED
      BY <3>1, <3>2
  <2>5. QED
    BY <1>3, <2>3, <2>4
<1>6. parts = {} => 1 .. listed'[e] \subseteq applied'
  OBVIOUS
<1>7. ExecutionInv(e)'
  BY <1>3, <1>4, <1>5, <1>6 DEF ExecutionInv
<1>8. QED
  BY <1>4, <1>7 DEF StartLoop, Goto, TypeOK, Running, Returned, TooMany

\* Moving to the next partition once the front of the list is applied.
LEMMA PopInv ==
  ASSUME TypeOK, NEW e \in Executions, ExecutionInv(e),
         pc[e] \in {"run", "advance"},
         PopAndContinue(e), listed' = listed, deferred' = deferred,
         available' = available,
         applied' = applied \union {Smallest(work[e])}
  PROVE  /\ ExecutionInv(e)'
         /\ pc' \in [Executions -> {"idle"} \union Running \union Returned]
         /\ work' \in [Executions -> SUBSET Partitions]
         /\ \A x \in Executions \ {e} : /\ pc'[x] = pc[x]
                                        /\ work'[x] = work[x]
<1> DEFINE front == Smallest(work[e])
           rest == work[e] \ {front}
<1>1. /\ work[e] # {}
      /\ work[e] \subseteq 1 .. listed[e]
      /\ work[e] \in SUBSET Partitions
      /\ NothingForgotten(e)
  BY DEF ExecutionInv, TypeOK
<1>2. front \in work[e] /\ \A j \in work[e] : front <= j
  BY <1>1, FrontType
<1>3. /\ work'[e] = rest
      /\ pc'[e] = IF rest # {} THEN "run"
                  ELSE IF deferred[e] THEN "deferred" ELSE "done"
  BY DEF PopAndContinue, Goto, TypeOK
<1>4. NothingForgotten(e)'
  BY <1>1, <1>3 DEF NothingForgotten
<1>5. rest = {} /\ ~deferred[e] => 1 .. listed'[e] \subseteq applied'
  BY <1>3, <1>4 DEF NothingForgotten
<1>6. ExecutionInv(e)'
  BY <1>1, <1>3, <1>4, <1>5 DEF ExecutionInv
<1>7. QED
  BY <1>6 DEF PopAndContinue, Goto, TypeOK, Running, Returned

\* Running the front of the list keeps the sink a prefix.
LEMMA ApplyFront ==
  ASSUME IInv, NEW e \in Executions, pc[e] = "run",
         applied' = applied \union {Smallest(work[e])},
         available' = available
  PROVE  /\ Smallest(work[e]) \in Partitions
         /\ applied' \subseteq Partitions
         /\ AppliedIsPrefix'
<1> DEFINE front == Smallest(work[e])
<1>1. /\ TypeOK
      /\ AppliedIsPrefix
      /\ listed[e] <= available
      /\ work[e] # {}
      /\ work[e] \subseteq 1 .. listed[e]
      /\ work[e] \in SUBSET Partitions
      /\ NothingForgotten(e)
  BY DEF IInv, ExecutionInv, TypeOK
<1>2. /\ front \in work[e]
      /\ front \in Partitions
      /\ \A j \in work[e] : front <= j
  BY <1>1, FrontType
<1>3. listed[e] \in Nat /\ available \in Nat /\ front \in Nat
  BY <1>1, <1>2, PartitionOrder, ChunkAssumption DEF TypeOK
<1>4. front \in 1 .. listed[e] /\ front <= available
  BY <1>1, <1>2, <1>3
<1>5. ASSUME NEW k \in 1 .. (front - 1) PROVE k \in applied
  <2>1. k \in 1 .. listed[e] /\ k < front
    BY <1>3, <1>4
  <2>2. k \notin work[e]
    BY <1>2, <1>3, <2>1
  <2>3. ~ \A j \in work[e] : j < k
    BY <1>2, <1>3, <2>1
  <2>4. QED
    BY <1>1, <2>1, <2>2, <2>3 DEF NothingForgotten
<1>6. AppliedIsPrefix'
  BY <1>1, <1>4, <1>5 DEF AppliedIsPrefix
<1>7. QED
  BY <1>1, <1>2, <1>6 DEF TypeOK

\* A key an execution passes to advance is the end of an applied partition.
LEMMA AdvanceKey ==
  ASSUME IInv, NEW e \in Executions, pc[e] = "advance"
  PROVE  /\ Smallest(work[e]) \in applied
         /\ EndForAdvance(work[e]) = End[Smallest(work[e])]
         /\ EndForAdvance(work[e]) \in Nat
<1>1. work[e] # {} /\ work[e] \in SUBSET Partitions /\ Smallest(work[e]) \in applied
  BY DEF IInv, ExecutionInv, TypeOK
<1>2. QED
  BY <1>1, FrontType

-----------------------------------------------------------------------------
(* Each action preserves the invariant *)

\* Entering an execution (first start, continue-as-new, retry) resets it.
LEMMA EnterInv ==
  ASSUME IInv, NEW e \in Executions, Enter(e)
  PROVE  IInv'
<1>1. /\ available' = available /\ cursor' = cursor /\ late' = late
      /\ applied' = applied /\ config' = config /\ faults' = faults
  BY DEF Enter, durable
<1>2. /\ pc'[e] \in {"rejected", "list"}
      /\ listed'[e] = 0
      /\ deferred'[e] = FALSE
      /\ \A x \in Executions \ {e} :
           /\ pc'[x] = pc[x] /\ listed'[x] = listed[x]
           /\ work'[x] = work[x] /\ deferred'[x] = deferred[x]
  BY DEF Enter, Goto, IInv, TypeOK
<1>3. TypeOK'
  BY <1>1, ChunkAssumption DEF Enter, Goto, IInv, TypeOK, Running, Returned
<1>4. AppliedIsPrefix' /\ KeysAreAppliedEnds'
  BY <1>1 DEF IInv, AppliedIsPrefix, KeysAreAppliedEnds
<1>5. available \in Nat
  BY ChunkAssumption DEF IInv, TypeOK
<1>6. ASSUME NEW x \in Executions PROVE ExecutionInv(x)'
  <2>1. CASE x = e
    BY <1>1, <1>2, <1>5, <2>1 DEF ExecutionInv
  <2>2. CASE x # e
    BY <1>1, <1>2, <1>5, <2>2, OtherExecution DEF IInv
  <2>3. QED
    BY <2>1, <2>2
<1>7. QED
  BY <1>3, <1>4, <1>6 DEF IInv

\* Listing the partitions covers all of them.
LEMMA ListPartitionsInv ==
  ASSUME IInv, NEW e \in Executions, ListPartitions(e)
  PROVE  IInv'
<1>1. /\ available' = available /\ cursor' = cursor /\ late' = late
      /\ applied' = applied /\ config' = config /\ faults' = faults
  BY DEF ListPartitions, durable
<1>2. /\ TypeOK
      /\ available \in 0 .. NumPartitions
      /\ available \in Nat
      /\ 1 .. available \in SUBSET Partitions
  BY ChunkAssumption DEF IInv, TypeOK, Partitions
<1>3. /\ listed' = [listed EXCEPT ![e] = available]
      /\ listed'[e] = available
      /\ \A x \in Executions \ {e} : listed'[x] = listed[x]
  BY <1>2 DEF ListPartitions, TypeOK
<1>4. /\ ExecutionInv(e)'
      /\ pc' \in [Executions -> {"idle"} \union Running \union Returned]
      /\ work' \in [Executions -> SUBSET Partitions]
      /\ deferred' \in [Executions -> BOOLEAN]
      /\ \A x \in Executions \ {e} : /\ pc'[x] = pc[x]
                                     /\ work'[x] = work[x]
                                     /\ deferred'[x] = deferred[x]
  <2>1. CASE config.hasCursor /\ available > 0
    <3>1. /\ pc' = [pc EXCEPT ![e] = "read"]
          /\ work' = [work EXCEPT ![e] = 1 .. available]
          /\ deferred' = deferred
          /\ ~deferred[e]
      BY <2>1 DEF ListPartitions, Goto, IInv, ExecutionInv
    <3>2. pc'[e] = "read" /\ work'[e] = 1 .. available
      BY <1>2, <3>1 DEF TypeOK
    <3>3. ExecutionInv(e)'
      <4>1. work'[e] # {} /\ work'[e] \subseteq 1 .. listed'[e]
        BY <1>2, <1>3, <2>1, <3>2
      <4>2. NothingForgotten(e)'
        BY <1>3, <3>2 DEF NothingForgotten
      <4>3. QED
        BY <1>1, <1>2, <1>3, <3>1, <3>2, <4>1, <4>2 DEF ExecutionInv
    <3>4. QED
      BY <1>2, <3>1, <3>3 DEF TypeOK, Running
  <2>2. CASE ~ (config.hasCursor /\ available > 0)
    <3>1. StartLoop(e, 1 .. available)
      BY <2>2 DEF ListPartitions
    <3>2. \A k \in 1 .. listed'[e] : k \in applied \/ k \in 1 .. available
      BY <1>3
    <3>3. listed'[e] \in Nat /\ listed'[e] <= available /\ 1 .. available \subseteq 1 .. listed'[e]
      BY <1>2, <1>3
    <3>4. QED
      BY <1>1, <1>2, <3>1, <3>2, <3>3, StartLoopInv
  <2>3. QED
    BY <2>1, <2>2
<1>5. TypeOK'
  BY <1>1, <1>2, <1>3, <1>4 DEF TypeOK
<1>6. AppliedIsPrefix' /\ KeysAreAppliedEnds'
  BY <1>1 DEF IInv, AppliedIsPrefix, KeysAreAppliedEnds
<1>7. ASSUME NEW x \in Executions PROVE ExecutionInv(x)'
  <2>1. CASE x = e
    BY <1>4, <2>1
  <2>2. CASE x # e
    BY <1>1, <1>2, <1>3, <1>4, <2>2, OtherExecution DEF IInv
  <2>3. QED
    BY <2>1, <2>2
<1>8. QED
  BY <1>5, <1>6, <1>7 DEF IInv

\* Filtering by the cursor drops applied partitions only.
LEMMA ReadCursorInv ==
  ASSUME IInv, NEW e \in Executions, ReadCursor(e)
  PROVE  IInv'
<1> DEFINE parts == Unprocessed(work[e], cursor)
<1>1. /\ available' = available /\ cursor' = cursor /\ late' = late
      /\ applied' = applied /\ config' = config /\ faults' = faults
      /\ listed' = listed
  BY DEF ReadCursor, durable
<1>2. /\ TypeOK
      /\ available \in Nat
      /\ listed[e] \in Nat
      /\ listed[e] <= available
      /\ work[e] \in SUBSET Partitions
      /\ work[e] \subseteq 1 .. listed[e]
      /\ pc[e] = "read"
  BY ChunkAssumption DEF IInv, TypeOK, ExecutionInv, ReadCursor
<1>3. parts \subseteq work[e]
  BY DEF Unprocessed
<1>4. ASSUME NEW k \in 1 .. listed[e], k \notin applied
      PROVE  k \in parts
  <2>1. k \in work[e]
    BY <1>2, <1>4 DEF IInv, ExecutionInv, NothingForgotten
  <2>2. cursor # NoCursor => Start[k] >= cursor
    BY <1>2, <1>4, <2>1, CursorSafe DEF IInv
  <2>3. QED
    BY <2>1, <2>2 DEF Unprocessed
<1>5. StartLoop(e, parts)
  BY DEF ReadCursor
<1>6. /\ ExecutionInv(e)'
      /\ pc' \in [Executions -> {"idle"} \union Running \union Returned]
      /\ work' \in [Executions -> SUBSET Partitions]
      /\ deferred' \in [Executions -> BOOLEAN]
      /\ \A x \in Executions \ {e} : /\ pc'[x] = pc[x]
                                     /\ work'[x] = work[x]
                                     /\ deferred'[x] = deferred[x]
  <2>1. parts \in SUBSET Partitions /\ parts \subseteq 1 .. listed'[e]
    BY <1>1, <1>2, <1>3
  <2>2. \A k \in 1 .. listed'[e] : k \in applied \/ k \in parts
    BY <1>1, <1>4
  <2>3. listed'[e] \in Nat /\ listed'[e] <= available
    BY <1>1, <1>2
  <2>4. QED
    BY <1>1, <1>2, <1>5, <2>1, <2>2, <2>3, StartLoopInv
<1>7. TypeOK'
  BY <1>1, <1>2, <1>6 DEF TypeOK
<1>8. AppliedIsPrefix' /\ KeysAreAppliedEnds'
  BY <1>1 DEF IInv, AppliedIsPrefix, KeysAreAppliedEnds
<1>9. ASSUME NEW x \in Executions PROVE ExecutionInv(x)'
  <2>1. CASE x = e
    BY <1>6, <2>1
  <2>2. CASE x # e
    BY <1>1, <1>2, <1>6, <2>2, OtherExecution DEF IInv
  <2>3. QED
    BY <2>1, <2>2
<1>10. QED
  BY <1>7, <1>8, <1>9 DEF IInv

\* A partition that was run is applied before the cursor or the list moves.
LEMMA RunPartitionInv ==
  ASSUME IInv, NEW e \in Executions, RunPartition(e)
  PROVE  IInv'
<1>1. /\ available' = available /\ cursor' = cursor /\ late' = late
      /\ config' = config /\ faults' = faults
      /\ listed' = listed /\ deferred' = deferred
      /\ applied' = applied \union {Smallest(work[e])}
      /\ pc[e] = "run"
      /\ TypeOK
      /\ available \in Nat
  BY ChunkAssumption DEF RunPartition, IInv, TypeOK
<1>2. applied' \subseteq Partitions /\ AppliedIsPrefix'
  BY <1>1, ApplyFront
<1>3. /\ ExecutionInv(e)'
      /\ pc' \in [Executions -> {"idle"} \union Running \union Returned]
      /\ work' \in [Executions -> SUBSET Partitions]
      /\ \A x \in Executions \ {e} : pc'[x] = pc[x] /\ work'[x] = work[x]
  <2>1. CASE config.hasCursor
    <3>1. pc' = [pc EXCEPT ![e] = "advance"] /\ work' = work
      BY <2>1 DEF RunPartition, Goto
    <3>2. pc'[e] = "advance"
      BY <1>1, <3>1 DEF TypeOK
    <3>3. ExecutionInv(e)'
      BY <1>1, <3>1, <3>2 DEF IInv, ExecutionInv, NothingForgotten, Smallest
    <3>4. QED
      BY <1>1, <3>1, <3>3 DEF TypeOK, Running
  <2>2. CASE ~config.hasCursor
    BY <1>1, <2>2, PopInv DEF RunPartition, IInv
  <2>3. QED
    BY <2>1, <2>2
<1>4. TypeOK'
  BY <1>1, <1>2, <1>3 DEF TypeOK
<1>5. KeysAreAppliedEnds'
  BY <1>1 DEF IInv, KeysAreAppliedEnds
<1>6. ASSUME NEW x \in Executions PROVE ExecutionInv(x)'
  <2>1. CASE x = e
    BY <1>3, <2>1
  <2>2. CASE x # e
    BY <1>1, <1>3, <2>2, OtherExecution DEF IInv
  <2>3. QED
    BY <2>1, <2>2
<1>7. QED
  BY <1>2, <1>4, <1>5, <1>6 DEF IInv

\* A key that reaches the tracker is the end of an applied partition.
LEMMA AdvanceInv ==
  ASSUME IInv, NEW e \in Executions, Advance(e)
  PROVE  IInv'
<1>1. /\ available' = available /\ late' = late
      /\ config' = config /\ faults' = faults
      /\ listed' = listed /\ deferred' = deferred
      /\ applied' = applied
      /\ cursor' = Upsert(cursor, EndForAdvance(work[e]))
      /\ pc[e] = "advance"
      /\ PopAndContinue(e)
      /\ TypeOK
      /\ available \in Nat
  BY ChunkAssumption DEF Advance, IInv, TypeOK
<1>2. /\ Smallest(work[e]) \in applied
      /\ EndForAdvance(work[e]) = End[Smallest(work[e])]
      /\ EndForAdvance(work[e]) \in Nat
  BY <1>1, AdvanceKey
<1>3. /\ ExecutionInv(e)'
      /\ pc' \in [Executions -> {"idle"} \union Running \union Returned]
      /\ work' \in [Executions -> SUBSET Partitions]
      /\ \A x \in Executions \ {e} : pc'[x] = pc[x] /\ work'[x] = work[x]
  <2>1. applied' = applied \union {Smallest(work[e])}
    BY <1>1, <1>2
  <2>2. QED
    BY <1>1, <2>1, PopInv DEF IInv
<1>4. cursor' \in Nat \union {NoCursor}
  BY <1>1, <1>2 DEF TypeOK, Upsert
<1>5. TypeOK'
  BY <1>1, <1>3, <1>4 DEF TypeOK
<1>6. AppliedIsPrefix'
  BY <1>1 DEF IInv, AppliedIsPrefix
<1>7. KeysAreAppliedEnds'
  BY <1>1, <1>2 DEF IInv, KeysAreAppliedEnds, Upsert
<1>8. ASSUME NEW x \in Executions PROVE ExecutionInv(x)'
  <2>1. CASE x = e
    BY <1>3, <2>1
  <2>2. CASE x # e
    BY <1>1, <1>3, <2>2, OtherExecution DEF IInv
  <2>3. QED
    BY <2>1, <2>2
<1>9. QED
  BY <1>5, <1>6, <1>7, <1>8 DEF IInv

\* Giving up forgets the execution and nothing else.
LEMMA FailureInv ==
  ASSUME IInv, NEW e \in Executions,
         Fail(e) \/ FailAfterWrite(e) \/ AdvanceTimesOut(e)
  PROVE  IInv'
<1>1. /\ available' = available /\ cursor' = cursor /\ config' = config
      /\ listed' = listed /\ work' = work /\ deferred' = deferred
      /\ pc' = [pc EXCEPT ![e] = "failed"]
      /\ Fault
      /\ TypeOK
      /\ available \in Nat
  BY ChunkAssumption
     DEF Fail, FailAfterWrite, AdvanceTimesOut, Goto, durable, locals, IInv, TypeOK
<1>2. faults' \in 0 .. MaxFaults
  BY <1>1, ChunkAssumption DEF Fault, TypeOK
<1>3. /\ applied \subseteq applied'
      /\ applied' \subseteq Partitions
      /\ AppliedIsPrefix'
  <2>1. CASE FailAfterWrite(e)
    BY <1>1, <2>1, ApplyFront DEF FailAfterWrite
  <2>2. CASE Fail(e) \/ AdvanceTimesOut(e)
    BY <1>1, <2>2 DEF Fail, AdvanceTimesOut, durable, IInv, AppliedIsPrefix, TypeOK
  <2>3. QED
    BY <2>1, <2>2
<1>4. late' \subseteq Nat /\ KeysAreAppliedEnds'
  <2>1. CASE AdvanceTimesOut(e)
    <3>1. Smallest(work[e]) \in applied /\ EndForAdvance(work[e]) = End[Smallest(work[e])]
          /\ EndForAdvance(work[e]) \in Nat
      BY <2>1, AdvanceKey DEF AdvanceTimesOut
    <3>2. late' = late \union {EndForAdvance(work[e])} /\ applied' = applied
      BY <2>1 DEF AdvanceTimesOut
    <3>3. QED
      BY <1>1, <3>1, <3>2 DEF IInv, KeysAreAppliedEnds, TypeOK
  <2>2. CASE Fail(e) \/ FailAfterWrite(e)
    <3>1. late' = late
      BY <2>2 DEF Fail, FailAfterWrite, durable
    <3>2. QED
      BY <1>1, <1>3, <3>1 DEF IInv, KeysAreAppliedEnds, TypeOK
  <2>3. QED
    BY <2>1, <2>2
<1>5. TypeOK'
  BY <1>1, <1>2, <1>3, <1>4 DEF TypeOK, Running, Returned
<1>6. ASSUME NEW x \in Executions PROVE ExecutionInv(x)'
  <2>1. CASE x = e
    BY <1>1, <2>1 DEF IInv, ExecutionInv, TypeOK
  <2>2. CASE x # e
    <3>1. pc'[x] = pc[x]
      BY <1>1, <2>2 DEF TypeOK
    <3>2. QED
      BY <1>1, <1>3, <3>1, OtherExecution DEF IInv
  <2>3. QED
    BY <2>1, <2>2
<1>7. QED
  BY <1>3, <1>4, <1>5, <1>6 DEF IInv

\* A late advance moves the cursor to the end of an applied partition.
LEMMA LateAdvanceInv ==
  ASSUME IInv, LateAdvance
  PROVE  IInv'
<1>1. PICK key \in late : cursor' = Upsert(cursor, key) /\ late' = late \ {key}
  BY DEF LateAdvance
<1>2. /\ available' = available /\ config' = config /\ faults' = faults
      /\ listed' = listed /\ work' = work /\ deferred' = deferred /\ pc' = pc
      /\ applied' = applied
      /\ TypeOK
      /\ available \in Nat
  BY ChunkAssumption DEF LateAdvance, locals, IInv, TypeOK
<1>3. TypeOK'
  BY <1>1, <1>2 DEF TypeOK, Upsert
<1>4. AppliedIsPrefix'
  BY <1>2 DEF IInv, AppliedIsPrefix
<1>5. KeysAreAppliedEnds'
  BY <1>1, <1>2 DEF IInv, KeysAreAppliedEnds, Upsert
<1>6. \A x \in Executions : ExecutionInv(x)'
  BY <1>2, OtherExecution DEF IInv
<1>7. QED
  BY <1>3, <1>4, <1>5, <1>6 DEF IInv

\* New partitions come after everything that was listed or applied.
LEMMA NewPartitionInv ==
  ASSUME IInv, NewPartition
  PROVE  IInv'
<1>1. /\ available' = available + 1 /\ config' = config /\ faults' = faults
      /\ listed' = listed /\ work' = work /\ deferred' = deferred /\ pc' = pc
      /\ applied' = applied /\ late' = late /\ cursor' = cursor
      /\ TypeOK
      /\ available \in Nat
      /\ available' \in 0 .. NumPartitions
      /\ available' \in Nat
  BY ChunkAssumption DEF NewPartition, locals, IInv, TypeOK
<1>2. TypeOK'
  BY <1>1 DEF TypeOK
<1>3. AppliedIsPrefix' /\ KeysAreAppliedEnds'
  <2>1. \A k \in applied : k \in Nat
    BY <1>1, PartitionOrder DEF TypeOK
  <2>2. QED
    BY <1>1, <2>1 DEF IInv, AppliedIsPrefix, KeysAreAppliedEnds
<1>4. \A x \in Executions : ExecutionInv(x)'
  BY <1>1, OtherExecution DEF IInv
<1>5. QED
  BY <1>2, <1>3, <1>4 DEF IInv

-----------------------------------------------------------------------------
(* The theorems *)

\* The invariant holds in every reachable state.
THEOREM Invariance == Spec => []IInv
<1>1. Init => IInv
  BY ChunkAssumption
     DEF Init, IInv, TypeOK, AppliedIsPrefix, KeysAreAppliedEnds, ExecutionInv,
         Running, Returned
<1>2. IInv /\ [Next]_vars => IInv'
  <2>1. SUFFICES ASSUME IInv, [Next]_vars PROVE IInv'
    OBVIOUS
  <2>2. ASSUME NEW e \in Executions,
               Trigger(e) \/ ContinueAsNew(e) \/ Retry(e)
        PROVE  IInv'
    BY <2>1, <2>2, EnterInv DEF Trigger, ContinueAsNew, Retry
  <2>3. ASSUME NEW e \in Executions, ListPartitions(e) PROVE IInv'
    BY <2>1, <2>3, ListPartitionsInv
  <2>4. ASSUME NEW e \in Executions, ReadCursor(e) PROVE IInv'
    BY <2>1, <2>4, ReadCursorInv
  <2>5. ASSUME NEW e \in Executions, RunPartition(e) PROVE IInv'
    BY <2>1, <2>5, RunPartitionInv
  <2>6. ASSUME NEW e \in Executions, Advance(e) PROVE IInv'
    BY <2>1, <2>6, AdvanceInv
  <2>7. ASSUME NEW e \in Executions,
               Fail(e) \/ FailAfterWrite(e) \/ AdvanceTimesOut(e)
        PROVE  IInv'
    BY <2>1, <2>7, FailureInv
  <2>8. CASE LateAdvance
    BY <2>1, <2>8, LateAdvanceInv
  <2>9. CASE NewPartition
    BY <2>1, <2>9, NewPartitionInv
  <2>10. CASE UNCHANGED vars
    BY <2>1, <2>10
       DEF vars, IInv, TypeOK, AppliedIsPrefix, KeysAreAppliedEnds, ExecutionInv,
           NothingForgotten, Smallest
  <2>11. QED
    BY <2>1, <2>2, <2>3, <2>4, <2>5, <2>6, <2>7, <2>8, <2>9, <2>10 DEF Next
<1>3. QED
  BY <1>1, <1>2, PTL DEF Spec

\* Every variable keeps its type.
THEOREM TypeCorrect == Spec => []TypeOK
<1>1. IInv => TypeOK
  BY DEF IInv
<1>2. QED
  BY <1>1, Invariance, PTL

\* The cursor never passes a partition that is not in the sink.
THEOREM CursorIsSafe == Spec => []CursorCoversOnlyApplied
<1>1. IInv => CursorCoversOnlyApplied
  <2>1. SUFFICES ASSUME IInv, NEW k \in Partitions, NEW p \in applied, End[k] <= End[p]
                 PROVE  k \in applied
    <3>1. ASSUME IInv PROVE \A k \in Partitions : ~ (End[k] <= NoCursor)
      BY PartitionOrder DEF NoCursor
    <3>2. QED
      BY <3>1 DEF CursorCoversOnlyApplied, IInv, KeysAreAppliedEnds
  <2>2. p \in Partitions /\ p \in Nat /\ k \in Nat /\ k >= 1 /\ k <= p
    BY <2>1, PartitionOrder, ChunkAssumption DEF IInv, TypeOK, Partitions
  <2>3. k = p \/ k \in 1 .. (p - 1)
    BY <2>2
  <2>4. QED
    BY <2>1, <2>3 DEF IInv, AppliedIsPrefix
<1>2. QED
  BY <1>1, Invariance, PTL

\* An execution that returns without the deferred flag left nothing behind.
THEOREM FinishedIsSynced == Spec => []FinishedMeansSynced
<1>1. IInv => FinishedMeansSynced
  BY DEF IInv, ExecutionInv, FinishedMeansSynced
<1>2. QED
  BY <1>1, Invariance, PTL

\* Whatever the executions do, the job is a ResumableSync: partitions reach
\* the sink in order, and the mark only moves forward over what is there.
THEOREM Refinement == Spec => RefinesResumableSync
<1> DEFINE settled == {k \in Partitions : End[k] <= cursor}
<1>1. Init => Abstract!Init
  <2>1. SUFFICES ASSUME Init PROVE Abstract!Init
    OBVIOUS
  <2>2. available \in Nat /\ applied = {} /\ cursor = NoCursor
    BY <2>1, ChunkAssumption DEF Init
  <2>3. settled = {}
    <3>1. ASSUME NEW k \in Partitions PROVE ~ (End[k] <= cursor)
      <4>1. End[k] \in Nat /\ cursor = -1
        BY <2>2, PartitionOrder DEF NoCursor
      <4>2. QED
        BY <4>1
    <3>2. QED
      BY <3>1
  <2>4. QED
    BY <2>2, <2>3 DEF Abstract!Init
<1>2. IInv /\ IInv' /\ CursorCoversOnlyApplied' /\ [Next]_vars
        => [Abstract!Next]_Abstract!sync
  <2>1. SUFFICES ASSUME IInv, IInv', CursorCoversOnlyApplied', [Next]_vars
                 PROVE  [Abstract!Next]_Abstract!sync
    OBVIOUS
  <2>2. CASE available' = available /\ applied' = applied /\ cursor' = cursor
    BY <2>2 DEF Abstract!sync
  <2>3. ASSUME NEW e \in Executions, pc[e] = "run",
               applied' = applied \union {Smallest(work[e])},
               available' = available, cursor' = cursor
        PROVE  [Abstract!Next]_Abstract!sync
    <3> DEFINE front == Smallest(work[e])
    <3>1. CASE front \in applied
      BY <2>3, <3>1 DEF Abstract!sync
    <3>2. CASE front \notin applied
      <4>1. front <= available /\ front \in Nat /\ front >= 1
        <5>1. front \in applied' /\ front \in Partitions
          BY <2>1, <2>3 DEF IInv, TypeOK
        <5>2. front <= available
          BY <2>1, <2>3, <5>1 DEF IInv, AppliedIsPrefix
        <5>3. QED
          BY <5>1, <5>2, ChunkAssumption DEF Partitions
      <4>2. \A j \in 1 .. (front - 1) : j \in applied
        <5>1. \A j \in 1 .. (front - 1) : j \in applied'
          BY <2>1, <2>3 DEF IInv, AppliedIsPrefix
        <5>2. QED
          BY <2>3, <4>1, <5>1
      <4>3. front \in 1 .. available
        BY <2>1, <4>1, ChunkAssumption DEF IInv, TypeOK
      <4>4. Abstract!SyncNext
        BY <2>3, <3>2, <4>2, <4>3 DEF Abstract!SyncNext
      <4>5. QED
        BY <4>4 DEF Abstract!Next
    <3>3. QED
      BY <3>1, <3>2
  <2>4. ASSUME NEW key \in Nat, cursor' = Upsert(cursor, key),
               applied' = applied, available' = available
        PROVE  [Abstract!Next]_Abstract!sync
    <3>1. settled \subseteq settled'
      <4>1. SUFFICES ASSUME NEW k \in Partitions, End[k] <= cursor
                     PROVE  End[k] <= cursor'
        OBVIOUS
      <4>2. End[k] \in Nat /\ cursor \in Nat \union {NoCursor}
        BY <2>1, PartitionOrder DEF IInv, TypeOK
      <4>3. QED
        BY <2>4, <4>1, <4>2 DEF Upsert, NoCursor
    <3>2. settled' \subseteq applied
      BY <2>1, <2>4 DEF CursorCoversOnlyApplied
    <3>3. Abstract!Settle
      BY <2>4, <3>1, <3>2 DEF Abstract!Settle
    <3>4. QED
      BY <3>3 DEF Abstract!Next
  <2>5. ASSUME NEW e \in Executions,
               \/ Trigger(e) \/ ContinueAsNew(e) \/ Retry(e)
               \/ ListPartitions(e) \/ ReadCursor(e)
        PROVE  [Abstract!Next]_Abstract!sync
    BY <2>2, <2>5 DEF Trigger, ContinueAsNew, Retry, Enter, ListPartitions,
                      ReadCursor, durable
  <2>6. ASSUME NEW e \in Executions, RunPartition(e) \/ FailAfterWrite(e)
        PROVE  [Abstract!Next]_Abstract!sync
    BY <2>3, <2>6 DEF RunPartition, FailAfterWrite
  <2>7. ASSUME NEW e \in Executions, Advance(e)
        PROVE  [Abstract!Next]_Abstract!sync
    <3>1. EndForAdvance(work[e]) \in Nat
      BY <2>1, <2>7, AdvanceKey DEF Advance
    <3>2. QED
      BY <2>4, <2>7, <3>1 DEF Advance
  <2>8. ASSUME NEW e \in Executions, Fail(e) \/ AdvanceTimesOut(e)
        PROVE  [Abstract!Next]_Abstract!sync
    BY <2>2, <2>8 DEF Fail, AdvanceTimesOut, durable
  <2>9. CASE LateAdvance
    BY <2>1, <2>4, <2>9 DEF LateAdvance, IInv, TypeOK
  <2>10. CASE NewPartition
    BY <2>10 DEF NewPartition, Abstract!Next, Abstract!Appear
  <2>11. CASE UNCHANGED vars
    BY <2>2, <2>11 DEF vars
  <2>12. QED
    BY <2>1, <2>5, <2>6, <2>7, <2>8, <2>9, <2>10, <2>11 DEF Next
<1>3. QED
  BY <1>1, <1>2, Invariance, CursorIsSafe, PTL
     DEF Spec, RefinesResumableSync, Abstract!Spec
=============================================================================
