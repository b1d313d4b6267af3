--------------------------- MODULE PatternsProofs ---------------------------
(***************************************************************************)
(* Proofs about the list patterns, for lists of any length: a pipeline     *)
(* runs its steps one after the other, and none after one that failed;     *)
(* max_in_flight bounds the futures alive; and what a pattern returns      *)
(* depends on how its items ended, not on when.                            *)
(***************************************************************************)
EXTENDS Examples, SequenceTheorems, FiniteSetTheorems, WellFoundedInduction, TLAPS

Failing == {"failed", "error"}

\* The items are the positions of a finite list, and Taken are some of them.
ItemsInv ==
  /\ call.valid \in Seq(BOOLEAN)
  /\ collected \in Seq(Items)
  /\ item \in [Items -> {"queued", "running"} \union Outcomes]

\* An outcome that has been taken is final.
TakenHaveEnded == \A k \in Taken : item[k] \in Outcomes

\* A step only starts when the outcomes of those before it have been taken.
OneByOne ==
  \A j, k \in Items : j < k /\ item[k] # "queued" => j \in Taken

\* While a pipeline that stops on errors runs, what it has taken is good.
NoFailureTaken == pc = "run" /\ call.stop => \A k \in Taken : item[k] = "ok"

PipelineInv ==
  /\ ~call.concurrent
  /\ ItemsInv /\ TakenHaveEnded /\ OneByOne /\ NoFailureTaken

Inv == call.pattern = "pipeline" => PipelineInv /\ PipelineStops

-----------------------------------------------------------------------------

LEMMA FiniteItems ==
  ASSUME ItemsInv, NEW S \in SUBSET Items
  PROVE  IsFiniteSet(S) /\ Cardinality(S) \in Nat
<1>1. Items = 1 .. Len(call.valid) /\ Len(call.valid) \in Nat
  BY DEF ItemsInv, Items
<1>2. IsFiniteSet(Items)
  BY <1>1, FS_Interval
<1>3. IsFiniteSet(S)
  BY <1>2, FS_Subset
<1> QED BY <1>3, FS_CardinalityType

\* One slot: nothing else is in flight when a step starts, and no step before
\* it is still in the queue.
LEMMA OneSlot ==
  ASSUME PipelineInv, NEW k \in ToStart
  PROVE  /\ k \in Items /\ item[k] = "queued"
         /\ \A j \in Items : j < k => j \in Taken
<1> DEFINE B == {j \in Queued : j < k}
<1>1. k \in Queued /\ Cardinality(InFlight) + Cardinality(B) < 1
  BY DEF ToStart, Width, PipelineInv
<1>2. InFlight \in SUBSET Items /\ B \in SUBSET Items
  BY DEF InFlight, Queued
<1> HIDE DEF B
<1>3. /\ IsFiniteSet(InFlight) /\ Cardinality(InFlight) \in Nat
      /\ IsFiniteSet(B) /\ Cardinality(B) \in Nat
  BY <1>2, FiniteItems DEF PipelineInv
<1>4. Cardinality(InFlight) = 0 /\ Cardinality(B) = 0
  BY <1>1, <1>3
<1>5. InFlight = {} /\ B = {}
  BY <1>3, <1>4, FS_EmptySet
<1>6. ASSUME NEW j \in Items, j < k PROVE j \in Taken
  <2>1. j \notin Queued
    BY <1>5, <1>6 DEF B
  <2> QED BY <1>5, <2>1 DEF InFlight
<1> QED BY <1>1, <1>6 DEF Queued

LEMMA SameItems ==
  ASSUME UNCHANGED <<call, collected>>
  PROVE  Items' = Items /\ Taken' = Taken
BY DEF Items, Taken

\* A step that leaves items and collected alone, and does not start the run
\* with something taken, keeps the invariant.
LEMMA QuietKeeps ==
  ASSUME PipelineInv, PipelineStops, UNCHANGED <<call, item, collected>>,
         pc' = "run" => pc = "run" \/ collected = <<>>
  PROVE  (PipelineInv /\ PipelineStops)'
<1>1. Items' = Items /\ Taken' = Taken
  BY SameItems
<1>2. collected = <<>> => Taken = {}
  BY DEF Taken, ToSet
<1>3. ItemsInv' /\ TakenHaveEnded' /\ OneByOne' /\ NoFailureTaken'
  BY <1>1, <1>2 DEF PipelineInv, ItemsInv, TakenHaveEnded, OneByOne, NoFailureTaken
<1> QED BY <1>1, <1>3 DEF PipelineInv, PipelineStops

LEMMA RefillKeeps ==
  ASSUME PipelineInv, PipelineStops, Refill
  PROVE  (PipelineInv /\ PipelineStops)'
<1>1. /\ UNCHANGED <<call, collected, pc>> /\ pc = "run"
      /\ item' = [k \in Items |-> IF k \in ToStart THEN "running" ELSE item[k]]
  BY DEF Refill, tallied
<1>2. Items' = Items /\ Taken' = Taken
  BY <1>1, SameItems
<1>3. ItemsInv'
  BY <1>1, <1>2 DEF PipelineInv, ItemsInv
<1>4. Taken \subseteq Items
  BY DEF Taken, ToSet, PipelineInv, ItemsInv
<1>5. \A k \in Taken : item'[k] = item[k]
  <2>1. \A k \in Taken : k \notin ToStart
    BY OneSlot DEF PipelineInv, TakenHaveEnded, Outcomes
  <2> QED BY <1>1, <1>4, <2>1
<1>6. TakenHaveEnded' /\ NoFailureTaken'
  BY <1>1, <1>2, <1>5 DEF PipelineInv, TakenHaveEnded, NoFailureTaken
<1>7. OneByOne'
  BY <1>1, <1>2, OneSlot DEF PipelineInv, OneByOne
<1>8. PipelineStops'
  <2> SUFFICES ASSUME call.pattern = "pipeline", call.stop,
                      NEW j \in Items, NEW k \in Items,
                      j < k, item'[j] \in Failing, item'[k] # "queued"
               PROVE  FALSE
    BY <1>1, <1>2 DEF PipelineStops, Failing
  <2>1. j \in Taken
    BY <1>2, <1>7 DEF OneByOne
  <2>2. item[j] = "ok"
    BY <1>1, <2>1 DEF PipelineInv, NoFailureTaken
  <2> QED BY <1>5, <2>1, <2>2 DEF Failing
<1> QED BY <1>1, <1>3, <1>6, <1>7, <1>8 DEF PipelineInv

LEMMA AnswerKeeps ==
  ASSUME PipelineInv, PipelineStops, NEW k \in Items, Answer(k)
  PROVE  (PipelineInv /\ PipelineStops)'
<1>1. /\ UNCHANGED <<call, collected, pc>> /\ item[k] = "running"
      /\ \E o \in Outcomes : item' = [item EXCEPT ![k] = o]
  BY DEF Answer
<1>2. Items' = Items /\ Taken' = Taken
  BY <1>1, SameItems
<1>3. ItemsInv'
  BY <1>1, <1>2 DEF PipelineInv, ItemsInv
<1>4. k \notin Taken /\ Taken \subseteq Items
  BY <1>1 DEF Taken, ToSet, PipelineInv, ItemsInv, TakenHaveEnded, Outcomes
<1>5. \A j \in Items : j # k => item'[j] = item[j]
  BY <1>1 DEF PipelineInv, ItemsInv
<1>6. TakenHaveEnded' /\ NoFailureTaken'
  BY <1>1, <1>2, <1>4, <1>5 DEF PipelineInv, TakenHaveEnded, NoFailureTaken
<1>7. OneByOne'
  BY <1>1, <1>2, <1>5 DEF PipelineInv, OneByOne
<1>8. PipelineStops'
  <2> SUFFICES ASSUME call.pattern = "pipeline", call.stop,
                      NEW i \in Items, NEW j \in Items,
                      i < j, item'[i] \in Failing, item'[j] # "queued"
               PROVE  FALSE
    BY <1>1, <1>2 DEF PipelineStops, Failing
  <2>1. i \in Taken
    BY <1>2, <1>7 DEF OneByOne
  <2>2. i # k
    BY <1>4, <2>1
  <2>3. item[j] # "queued"
    BY <1>1, <1>5
  <2> QED BY <1>5, <2>2, <2>3 DEF PipelineStops, Failing
<1> QED BY <1>1, <1>3, <1>6, <1>7, <1>8 DEF PipelineInv

LEMMA TakeKeeps ==
  ASSUME PipelineInv, PipelineStops, call.pattern = "pipeline",
         NEW k \in Items, Take(k)
  PROVE  (PipelineInv /\ PipelineStops)'
<1>1. /\ UNCHANGED <<call, item>> /\ pc = "run" /\ item[k] \in Outcomes
      /\ collected' = Append(collected, k) /\ Tally(k, item[k])
  BY DEF Take
<1>2. Items' = Items
  BY <1>1 DEF Items
<1>3. Taken' = Taken \union {k}
  <2>1. collected \in Seq(Items)
    BY DEF PipelineInv, ItemsInv
  <2>2. /\ DOMAIN collected = 1 .. Len(collected) /\ Len(collected) \in Nat
        /\ DOMAIN collected' = 1 .. Len(collected) + 1
        /\ collected'[Len(collected) + 1] = k
        /\ \A a \in 1 .. Len(collected) : collected'[a] = collected[a]
    BY <1>1, <2>1
  <2> QED BY <2>2 DEF Taken, ToSet
<1>4. ItemsInv'
  BY <1>1, <1>2 DEF PipelineInv, ItemsInv
<1>5. TakenHaveEnded' /\ OneByOne'
  BY <1>1, <1>2, <1>3 DEF PipelineInv, TakenHaveEnded, OneByOne
<1>6. NoFailureTaken'
  <2>1. item[k] # "ok" /\ call.stop => pc' = "returned"
    BY <1>1 DEF Tally, Stops, Return
  <2> QED BY <1>1, <1>3, <2>1 DEF PipelineInv, NoFailureTaken
<1> QED BY <1>1, <1>2, <1>4, <1>5, <1>6 DEF PipelineInv, PipelineStops

-----------------------------------------------------------------------------

\* What a pattern has taken before it runs: nothing.
NothingTaken == pc = "start" => collected = <<>>

LEMMA InitInv == Init => Inv /\ NothingTaken
<1> SUFFICES ASSUME Init PROVE Inv /\ NothingTaken
  OBVIOUS
<1>1. call.valid \in Seq(BOOLEAN)
  BY PatternsAssumption DEF Init, Calls, SmallCalls, PatternsAssumption
<1>2. ItemsInv
  BY <1>1 DEF Init, ItemsInv
<1>3. Taken = {}
  BY DEF Init, Taken, ToSet
<1> QED BY <1>2, <1>3 DEF Init, Inv, NothingTaken, PipelineInv, PipelineStops,
           TakenHaveEnded, OneByOne, NoFailureTaken

LEMMA StepInv == Inv /\ NothingTaken /\ [Next]_vars => Inv' /\ NothingTaken'
<1> SUFFICES ASSUME Inv, NothingTaken, [Next]_vars PROVE Inv' /\ NothingTaken'
  OBVIOUS
<1>1. call' = call
  BY DEF Next, vars, Enter, Refill, Answer, Take, AllTaken, TallyNext, AllTallied
<1>2. NothingTaken'
  BY DEF NothingTaken, Next, vars, Enter, Refill, Answer, Take, AllTaken, TallyNext,
     AllTallied, Return, Tally
<1>3. ASSUME call.pattern = "pipeline" PROVE (PipelineInv /\ PipelineStops)'
  <2>1. PipelineInv /\ PipelineStops
    BY <1>3 DEF Inv
  <2>2. CASE Enter
    BY <2>1, <2>2, QuietKeeps DEF Enter, NothingTaken
  <2>3. CASE Refill
    BY <2>1, <2>3, RefillKeeps
  <2>4. ASSUME NEW k \in Items, Answer(k) PROVE (PipelineInv /\ PipelineStops)'
    BY <2>1, <2>4, AnswerKeeps
  <2>5. ASSUME NEW k \in Items, Take(k) PROVE (PipelineInv /\ PipelineStops)'
    BY <1>3, <2>1, <2>5, TakeKeeps
  <2>6. CASE AllTaken
    <3>1. UNCHANGED <<call, item, collected>> /\ pc' = "returned"
      BY <1>3, <2>6 DEF AllTaken, Return
    <3> QED BY <2>1, <3>1, QuietKeeps
  <2>7. CASE TallyNext
    <3>1. UNCHANGED <<call, item, collected>> /\ pc' # "run"
      BY <2>7 DEF TallyNext, Tally, Return
    <3> QED BY <2>1, <3>1, QuietKeeps
  <2>8. CASE AllTallied
    <3>1. UNCHANGED <<call, item, collected>> /\ pc' # "run"
      BY <2>8 DEF AllTallied, Return
    <3> QED BY <2>1, <3>1, QuietKeeps
  <2>9. CASE UNCHANGED vars
    <3>1. UNCHANGED <<call, item, collected, pc>>
      BY <2>9 DEF vars
    <3> QED BY <2>1, <3>1, QuietKeeps
  <2> QED BY <2>2, <2>3, <2>4, <2>5, <2>6, <2>7, <2>8, <2>9 DEF Next
<1> QED BY <1>1, <1>2, <1>3 DEF Inv

\* A pipeline asked to stop on errors runs no step after one that failed, for
\* a pipeline of any length.
THEOREM PipelineStopsAtFailure == Spec => []PipelineStops
<1>1. Inv => PipelineStops
  BY DEF Inv, PipelineStops
<1>2. Spec => [](Inv /\ NothingTaken)
  BY InitInv, StepInv, PTL DEF Spec
<1> QED BY <1>1, <1>2, PTL

-----------------------------------------------------------------------------
(* Lemmas about listings of finite sets of positions *)

\* A set of naturals that is not empty has a least element.
LEMMA LeastExists ==
  ASSUME NEW S \in SUBSET Nat, S # {}
  PROVE  \E x \in S : \A y \in S : x <= y
<1>1. OpToRel(<, Nat) = {p \in Nat \X Nat : p[1] < p[2]}
  BY DEF OpToRel
<1>2. PICK x \in S : \A y \in S : ~ (<<y, x>> \in {p \in Nat \X Nat : p[1] < p[2]})
  <2>1. \E x \in S : \A y \in S : ~ (<<y, x>> \in OpToRel(<, Nat))
    BY NatLessThanWellFounded, WFMin, Zenon
  <2> QED BY <1>1, <2>1, Zenon
<1>3. ASSUME NEW y \in S PROVE x <= y
  <2>1. x \in Nat /\ y \in Nat /\ <<y, x>> \in Nat \X Nat
    OBVIOUS
  <2> QED BY <1>2, <2>1
<1> QED BY <1>3

\* A set of indices that is not empty has a greatest one.
LEMMA GreatestExists ==
  ASSUME NEW n \in Nat, NEW S \in SUBSET (1 .. n), S # {}
  PROVE  \E x \in S : \A y \in S : y <= x
<1> DEFINE T == {n - x : x \in S}
<1>1. T \in SUBSET Nat /\ T # {}
  <2>1. \A x \in S : n - x \in Nat
    OBVIOUS
  <2> QED BY <2>1
<1>2. PICK d \in T : \A e \in T : d <= e
  BY <1>1, LeastExists
<1>3. PICK x \in S : d = n - x
  OBVIOUS
<1>4. ASSUME NEW y \in S PROVE y <= x
  <2>1. d <= n - y
    BY <1>2
  <2> QED BY <1>3, <2>1
<1> QED BY <1>4

LEMMA IndicesAreFinite ==
  ASSUME NEW n \in Nat, NEW S \in SUBSET (1 .. n)
  PROVE  IsFiniteSet(S) /\ Cardinality(S) \in Nat
<1>1. IsFiniteSet(1 .. n)
  BY FS_Interval
<1>2. IsFiniteSet(S)
  BY <1>1, FS_Subset
<1> QED BY <1>2, FS_CardinalityType

\* The one way to list a set in ascending order.
Lists(s, S) == s \in [1 .. Cardinality(S) -> S] /\ Increasing(s)

LEMMA ListingFacts ==
  ASSUME NEW n \in Nat, NEW S \in SUBSET (1 .. n), NEW s, Lists(s, S)
  PROVE  /\ Cardinality(S) \in Nat
         /\ \A a \in 1 .. Cardinality(S) : s[a] \in S /\ s[a] \in 1 .. n /\ s[a] \in Nat
         /\ \A a, b \in 1 .. Cardinality(S) : s[a] = s[b] => a = b
         /\ \A x \in S : \E a \in 1 .. Cardinality(S) : s[a] = x
<1> DEFINE c == Cardinality(S)
<1>1. IsFiniteSet(S) /\ c \in Nat
  BY IndicesAreFinite
<1>2. s \in [1 .. c -> S] /\ \A a, b \in 1 .. c : a < b => s[a] < s[b]
  BY DEF Lists, Increasing
<1>6. ASSUME NEW a \in 1 .. c PROVE s[a] \in S /\ s[a] \in 1 .. n /\ s[a] \in Nat
  <2>1. s[a] \in S
    BY <1>2
  <2>2. s[a] \in 1 .. n
    BY <2>1
  <2> QED BY <2>1, <2>2
<1>3. ASSUME NEW a \in 1 .. c, NEW b \in 1 .. c, s[a] = s[b] PROVE a = b
  <2>1. s[a] \in Nat /\ s[b] \in Nat
    BY <1>6
  <2>2. ~(a < b) /\ ~(b < a)
    BY <1>2, <1>3, <2>1
  <2> QED BY <1>1, <2>2
<1>4. s \in Injection(1 .. c, S)
  BY <1>2, <1>3 DEF Injection, IsInjective
<1>5. s \in Surjection(1 .. c, S)
  <2>1. Cardinality(1 .. c) = c
    BY <1>1, FS_Interval
  <2> QED BY <1>1, <1>4, <2>1, FS_Injection
<1> QED BY <1>1, <1>3, <1>5, <1>6 DEF Surjection

\* The listing of some of the numbers up to n.
ListsUpTo(n, s, S) == n \in Nat /\ S \in SUBSET (1 .. n) /\ Lists(s, S)

\* Only the empty set has an empty listing.
LEMMA NothingListed ==
  ASSUME NEW n, NEW s, NEW S, ListsUpTo(n, s, S), DOMAIN s = {}
  PROVE  S = {}
<1>3. n \in Nat /\ S \in SUBSET (1 .. n) /\ Lists(s, S)
  BY DEF ListsUpTo
<1>1. \A x \in S : \E a \in 1 .. Cardinality(S) : s[a] = x
  BY <1>3, ListingFacts
<1>2. 1 .. Cardinality(S) = {}
  BY DEF ListsUpTo, Lists
<1> QED BY <1>1, <1>2

\* Two listings do not differ at a least position.
LEMMA NoLeastDifference ==
  ASSUME NEW n \in Nat, NEW S \in SUBSET (1 .. n), NEW s, NEW t,
         Lists(s, S), Lists(t, S), NEW a \in 1 .. Cardinality(S),
         \A b \in 1 .. Cardinality(S) : b < a => s[b] = t[b]
  PROVE  ~(s[a] < t[a])
<1> SUFFICES ASSUME s[a] < t[a] PROVE FALSE
  OBVIOUS
<1> DEFINE c == Cardinality(S)
<1>1. c \in Nat
  BY ListingFacts
<1>2. s[a] \in S /\ t[a] \in S /\ s[a] \in Nat /\ t[a] \in Nat
  BY ListingFacts
<1>3. PICK b \in 1 .. c : t[b] = s[a]
  <2> DEFINE v == s[a]
  <2> HIDE DEF v
  <2>1. \E b \in 1 .. Cardinality(S) : t[b] = v
    BY <1>2, ListingFacts DEF v
  <2> QED BY <2>1 DEF v
<1>4. \A i, j \in 1 .. c : i < j => t[i] < t[j] /\ s[i] < s[j]
  BY DEF Lists, Increasing
<1>6. CASE b < a
  <2>1. s[b] = s[a]
    BY <1>3, <1>6
  <2> QED BY <1>2, <1>4, <1>6, <2>1
<1>7. CASE a <= b
  <2>1. a = b \/ a < b
    BY <1>1, <1>7
  <2> QED BY <1>2, <1>3, <1>4, <2>1
<1> QED BY <1>1, <1>6, <1>7

LEMMA OneListing ==
  ASSUME NEW n \in Nat, NEW S \in SUBSET (1 .. n), NEW s, NEW t,
         Lists(s, S), Lists(t, S)
  PROVE  s = t
<1> DEFINE c == Cardinality(S)
           Apart == {a \in 1 .. c : s[a] # t[a]}
<1>1. c \in Nat
  BY ListingFacts
<1>2. Apart = {}
  <2> SUFFICES ASSUME Apart # {} PROVE FALSE
    OBVIOUS
  <2>1. PICK a \in Apart : \A b \in Apart : a <= b
    <3>1. Apart \in SUBSET Nat
      BY <1>1
    <3> QED BY <3>1, LeastExists
  <2>2. \A b \in 1 .. c : b < a => s[b] = t[b]
    <3> SUFFICES ASSUME NEW b \in 1 .. c, b < a, s[b] # t[b] PROVE FALSE
      OBVIOUS
    <3> QED BY <1>1, <2>1
  <2>3. ~(s[a] < t[a]) /\ ~(t[a] < s[a])
    <3>1. a \in 1 .. c
      OBVIOUS
    <3> HIDE DEF Apart, c
    <3> QED BY <2>2, <3>1, NoLeastDifference DEF c
  <2>4. s[a] \in Nat /\ t[a] \in Nat
    <3>1. a \in 1 .. Cardinality(S)
      OBVIOUS
    <3> QED BY <3>1, ListingFacts
  <2> QED BY <2>3, <2>4
<1>3. s = [a \in 1 .. c |-> s[a]] /\ t = [a \in 1 .. c |-> t[a]]
  BY DEF Lists
<1>4. \A a \in 1 .. c : s[a] = t[a]
  BY <1>2
<1> HIDE DEF c, Apart
<1>5. [a \in 1 .. c |-> s[a]] = [a \in 1 .. c |-> t[a]]
  BY <1>4
<1> QED BY <1>3, <1>5

LEMMA AscendingIs ==
  ASSUME NEW n \in Nat, NEW S \in SUBSET (1 .. n), NEW s, Lists(s, S)
  PROVE  s = Ascending(S)
<1>1. \E t \in [1 .. Cardinality(S) -> S] : Increasing(t)
  BY DEF Lists
<1>2. Lists(Ascending(S), S)
  BY <1>1 DEF Lists, Ascending
<1> QED BY <1>2, OneListing

\* A listing of positions up to n goes on with n + 1.
LEMMA ListingGrows ==
  ASSUME NEW n \in Nat, NEW S \in SUBSET (1 .. n), NEW s, Lists(s, S), NEW x,
         x = n + 1
  PROVE  Lists(Append(s, x), S \union {x})
<1> DEFINE c == Cardinality(S)
           t == Append(s, x)
<1>1. c \in Nat /\ IsFiniteSet(S)
  BY IndicesAreFinite
<1>2. Cardinality(S \union {x}) = c + 1
  <2>1. x \notin S
    OBVIOUS
  <2> QED BY <1>1, <2>1, FS_AddElement
<1>3. s \in Seq(S) /\ Len(s) = c
  BY <1>1 DEF Lists
<1>4. /\ t \in Seq(S \union {x}) /\ Len(t) = c + 1
      /\ \A a \in 1 .. c : t[a] = s[a]
      /\ t[c + 1] = x
  <2>1. s \in Seq(S \union {x})
    BY <1>3
  <2> QED BY <1>3, <2>1, AppendProperties
<1> HIDE DEF t, c
<1>5. t \in [1 .. c + 1 -> S \union {x}]
  BY <1>4
<1>6. \A a, b \in 1 .. c : a < b => s[a] < s[b]
  BY DEF Lists, Increasing, c
<1>7. \A a \in 1 .. c : s[a] \in 1 .. n
  BY ListingFacts DEF c
<1>8. ASSUME NEW a \in 1 .. c + 1, NEW b \in 1 .. c + 1, a < b PROVE t[a] < t[b]
  <2>1. a \in 1 .. c
    BY <1>1, <1>8
  <2>2. CASE b \in 1 .. c
    BY <1>4, <1>6, <1>8, <2>1, <2>2
  <2>3. CASE b = c + 1
    <3>1. t[a] \in 1 .. n /\ t[b] = n + 1
      BY <1>4, <1>7, <2>1, <2>3
    <3> QED BY <3>1
  <2>4. b \in 1 .. c \/ b = c + 1
    BY <1>1
  <2> QED BY <2>2, <2>3, <2>4
<1>9. DOMAIN t = 1 .. c + 1
  BY <1>5
<1>10. Increasing(t)
  BY <1>8, <1>9 DEF Increasing
<1> QED BY <1>2, <1>5, <1>10 DEF Lists, t

\* The numbers up to n in ascending order.
Positions(n) == [a \in 1 .. n |-> a]

\* The numbers up to n, each once, in some order.
Shuffles(n, s) ==
  /\ n \in Nat /\ s \in Seq(1 .. n) /\ Len(s) = n
  /\ \A a, b \in 1 .. n : s[a] = s[b] => a = b

\* A list of n different positions up to n is sorted into 1 to n.
LEMMA SortedListing ==
  ASSUME NEW n, NEW s, Shuffles(n, s)
  PROVE  /\ InOrder(s) = Positions(n)
         /\ \A k \in 1 .. n : \E a \in 1 .. n : s[a] = k
<1> SUFFICES ASSUME n \in Nat, s \in Seq(1 .. n), Len(s) = n,
                    \A a, b \in 1 .. n : s[a] = s[b] => a = b
             PROVE  /\ InOrder(s) = Positions(n)
                    /\ \A k \in 1 .. n : \E a \in 1 .. n : s[a] = k
  BY DEF Shuffles
<1>1. s \in [1 .. n -> 1 .. n] /\ DOMAIN s = 1 .. n
  OBVIOUS
<1>2. IsFiniteSet(1 .. n) /\ Cardinality(1 .. n) = n
  BY FS_Interval
<1>3. s \in Injection(1 .. n, 1 .. n)
  BY <1>1 DEF Injection, IsInjective
<1>4. s \in Surjection(1 .. n, 1 .. n)
  BY <1>2, <1>3, FS_Injection
<1>5. \A k \in 1 .. n : \E a \in 1 .. n : s[a] = k
  BY <1>4 DEF Surjection
<1> DEFINE place == [k \in 1 .. n |-> CHOOSE a \in 1 .. n : s[a] = k]
           Sorts(q) == \A i, j \in DOMAIN s : i < j => s[q[i]] <= s[q[j]]
           order == CHOOSE q \in Injection(DOMAIN s, DOMAIN s) : Sorts(q)
           t == [i \in 1 .. n |-> s[order[i]]]
<1>6. \A k \in 1 .. n : place[k] \in 1 .. n /\ s[place[k]] = k
  BY <1>5
<1>7. place \in [1 .. n -> 1 .. n]
  BY <1>6
<1> HIDE DEF place
<1>8. place \in Injection(1 .. n, 1 .. n)
  <2>1. \A i, j \in 1 .. n : place[i] = place[j] => i = j
    BY <1>6
  <2> QED BY <1>7, <2>1 DEF Injection, IsInjective
<1>9. Sorts(place)
  BY <1>1, <1>6
<1> HIDE DEF Sorts
<1>10. order \in Injection(1 .. n, 1 .. n) /\ Sorts(order)
  BY <1>1, <1>8, <1>9
<1>11. InOrder(s) = t
  BY <1>1 DEF InOrder, Sorts
<1> HIDE DEF order
<1>12. order \in [1 .. n -> 1 .. n] /\ \A i, j \in 1 .. n : order[i] = order[j] => i = j
  BY <1>10 DEF Injection, IsInjective
<1>13. \A i \in 1 .. n : t[i] = s[order[i]] /\ t[i] \in 1 .. n
  BY <1>1, <1>12
<1>14. ASSUME NEW i \in 1 .. n, NEW j \in 1 .. n, i < j PROVE t[i] < t[j]
  <2>1. s[order[i]] <= s[order[j]]
    BY <1>1, <1>10, <1>14 DEF Sorts
  <2>2. s[order[i]] # s[order[j]]
    <3>1. order[i] # order[j] /\ order[i] \in 1 .. n /\ order[j] \in 1 .. n
      BY <1>12, <1>14
    <3> QED BY <3>1
  <2>3. t[i] \in 1 .. n /\ t[j] \in 1 .. n /\ t[i] <= t[j] /\ t[i] # t[j]
    BY <1>13, <2>1, <2>2
  <2> QED BY <2>3
<1>15. t \in [1 .. n -> 1 .. n] /\ DOMAIN t = 1 .. n
  BY <1>13
<1> HIDE DEF t
<1>16. Lists(t, 1 .. n)
  BY <1>2, <1>14, <1>15 DEF Lists, Increasing
<1>17. Lists([a \in 1 .. n |-> a], 1 .. n)
  BY <1>2 DEF Lists, Increasing
<1>18. t = Positions(n)
  BY <1>16, <1>17, OneListing DEF Positions
<1> QED BY <1>5, <1>11, <1>18

-----------------------------------------------------------------------------
(* The invariant of the fan-out and of the tally *)

\* How many outcomes have been tallied; their positions are 1 to Seen.
Seen == success + Len(failed)

TallyTypeOK ==
  /\ ItemsInv /\ call.cap \in Nat
  /\ success \in Nat /\ failed \in Seq(Nat)

\* No item is taken twice.
TakenOnce == \A a, b \in DOMAIN collected : collected[a] = collected[b] => a = b

\* What is tallied is tallied in input order: a pipeline takes its items in
\* that order, the others have sorted what they took.
ByPosition ==
  call.pattern = "pipeline" \/ pc = "tally" \/ Seen > 0 =>
    \A a \in DOMAIN collected : collected[a] = a

\* What the tally says is a function of the outcomes up to Seen.
TalliedSoFar ==
  /\ Seen <= Len(collected)
  /\ Lists(results, {k \in 1 .. Seen : item[k] # "error"})
  /\ Lists(failed, {k \in 1 .. Seen : item[k] # "ok"})
  /\ success = Cardinality({k \in 1 .. Seen : item[k] = "ok"})

\* Where a call is in its tally.
TallyPhase ==
  /\ pc = "start" => collected = <<>> /\ Seen = 0
  /\ pc = "run" => Seen = IF call.pattern = "pipeline" THEN Len(collected) ELSE 0
  /\ pc = "tally" => Len(collected) = Len(call.valid)
  /\ pc = "returned" <=> answer # "none"
  /\ call.stop /\ answer \in {"none", "Ok"} => failed = <<>>
  /\ answer = "Ok" => Seen = Len(call.valid)

\* A pattern that stopped did so at the first failure.
StoppedAtFirst ==
  answer = "PatternStopped" =>
    /\ call.stop /\ position = Seen /\ position >= 1
    /\ item[position] \in Failing
    /\ \A k \in 1 .. position - 1 : item[k] = "ok"

TallyInv ==
  /\ TallyTypeOK /\ TakenHaveEnded /\ TakenOnce /\ ByPosition
  /\ TalliedSoFar /\ TallyPhase /\ StoppedAtFirst

-----------------------------------------------------------------------------

LEMMA ItemsAre ==
  ASSUME ItemsInv
  PROVE  /\ Items = 1 .. Len(call.valid) /\ Len(call.valid) \in Nat
         /\ Cardinality(Items) = Len(call.valid)
         /\ Len(collected) \in Nat /\ DOMAIN collected = 1 .. Len(collected)
         /\ \A a \in 1 .. Len(collected) : collected[a] \in Items /\ collected[a] \in Taken
<1>1. Items = 1 .. Len(call.valid) /\ Len(call.valid) \in Nat
  BY DEF ItemsInv, Items
<1>2. Cardinality(Items) = Len(call.valid)
  BY <1>1, FS_Interval
<1> QED BY <1>1, <1>2 DEF ItemsInv, Taken, ToSet

\* What has been tallied has been taken.
LEMMA SeenAreTaken ==
  ASSUME TallyTypeOK, ByPosition, TalliedSoFar
  PROVE  Seen \in Nat /\ \A k \in 1 .. Seen : k \in Taken /\ k \in Items
<1>1. Seen \in Nat
  BY DEF Seen, TallyTypeOK
<1>2. ASSUME NEW k \in 1 .. Seen PROVE k \in Taken /\ k \in Items
  <2>1. k \in 1 .. Len(collected) /\ DOMAIN collected = 1 .. Len(collected)
    BY <1>1, ItemsAre DEF TalliedSoFar, TallyTypeOK
  <2>2. collected[k] = k
    BY <1>1, <2>1 DEF ByPosition
  <2> QED BY <2>1, <2>2, ItemsAre DEF TallyTypeOK
<1> QED BY <1>1, <1>2

\* All items taken: they are sorted into input order.
LEMMA AllCollected ==
  ASSUME ItemsInv, TakenOnce, Len(collected) = Cardinality(Items)
  PROVE  /\ Taken = Items
         /\ InOrder(collected) = [a \in 1 .. Len(call.valid) |-> a]
<1> DEFINE n == Len(call.valid)
<1>1. n \in Nat /\ Items = 1 .. n /\ Len(collected) = n /\ collected \in Seq(1 .. n)
  BY ItemsAre DEF ItemsInv
<1>2. \A a, b \in 1 .. n : collected[a] = collected[b] => a = b
  BY <1>1 DEF TakenOnce
<1> HIDE DEF n
<1>3. /\ InOrder(collected) = Positions(n)
      /\ \A k \in 1 .. n : \E a \in 1 .. n : collected[a] = k
  <2>1. Shuffles(n, collected)
    BY <1>1, <1>2 DEF Shuffles
  <2> QED BY <2>1, SortedListing
<1>4. Taken = Items
  <2>1. Taken = {collected[a] : a \in 1 .. n}
    BY <1>1 DEF Taken, ToSet
  <2>2. \A a \in 1 .. n : collected[a] \in Items
    BY <1>1
  <2>3. \A k \in Items : \E a \in 1 .. n : collected[a] = k
    BY <1>1, <1>3, Zenon
  <2> QED BY <2>1, <2>2, <2>3, Zenon
<1> QED BY <1>3, <1>4 DEF n, Positions

\* A step that leaves calls, tallies and what is taken alone.
LEMMA QuietTally ==
  ASSUME TallyInv, UNCHANGED <<call, collected, tallied, answer, position, pc>>,
         ItemsInv', \A k \in Taken : item'[k] = item[k]
  PROVE  TallyInv'
<1>1. Items' = Items /\ Taken' = Taken /\ Seen' = Seen
  BY DEF Items, Taken, Seen, tallied
<1>2. Seen \in Nat /\ \A k \in 1 .. Seen : item'[k] = item[k]
  BY SeenAreTaken DEF TallyInv
<1>3. TallyTypeOK' /\ TakenHaveEnded' /\ TakenOnce' /\ ByPosition'
  BY <1>1 DEF TallyInv, TallyTypeOK, TakenHaveEnded, TakenOnce, ByPosition, tallied
<1>4. TalliedSoFar'
  <2>1. /\ {k \in 1 .. Seen : item'[k] # "error"} = {k \in 1 .. Seen : item[k] # "error"}
        /\ {k \in 1 .. Seen : item'[k] # "ok"} = {k \in 1 .. Seen : item[k] # "ok"}
        /\ {k \in 1 .. Seen : item'[k] = "ok"} = {k \in 1 .. Seen : item[k] = "ok"}
    BY <1>2
  <2> QED BY <1>1, <2>1 DEF TallyInv, TalliedSoFar, tallied
<1>5. TallyPhase'
  BY <1>1 DEF TallyInv, TallyPhase, tallied
<1>6. StoppedAtFirst'
  BY <1>1, <1>2 DEF TallyInv, StoppedAtFirst
<1> QED BY <1>3, <1>4, <1>5, <1>6 DEF TallyInv

\* Nothing has failed: every outcome seen is ok.
LEMMA NoneFailed ==
  ASSUME TallyTypeOK, TalliedSoFar, failed = <<>>
  PROVE  \A k \in 1 .. Seen : item[k] = "ok"
<1> DEFINE S == {k \in 1 .. Seen : item[k] # "ok"}
<1>1. Seen \in Nat
  BY DEF Seen, TallyTypeOK
<1>2. S \in SUBSET (1 .. Seen) /\ Lists(failed, S)
  BY DEF TalliedSoFar
<1> HIDE DEF S
<1>3. S = {}
  <2>1. ListsUpTo(Seen, failed, S) /\ DOMAIN failed = {}
    BY <1>1, <1>2 DEF ListsUpTo
  <2> QED BY <2>1, NothingListed
<1> QED BY <1>3 DEF S

\* One outcome is tallied, the next in input order.
LEMMA TallyStep ==
  ASSUME TallyInv, answer = "none", UNCHANGED <<call, item>>,
         NEW k \in Items, k = Seen + 1, item[k] \in Outcomes, Tally(k, item[k]),
         Len(collected') \in Nat, Len(collected') >= k
  PROVE  /\ Seen' = k
         /\ success' \in Nat /\ failed' \in Seq(Nat)
         /\ TalliedSoFar' /\ StoppedAtFirst'
         /\ pc' = "returned" <=> answer' # "none"
         /\ call.stop /\ answer' \in {"none", "Ok"} => failed' = <<>>
         /\ answer' # "none" => answer' = "PatternStopped"
         /\ pc' \in {pc, "returned"}
<1>1. Seen \in Nat /\ success \in Nat /\ Len(failed) \in Nat /\ failed \in Seq(Nat)
  BY DEF TallyInv, TallyTypeOK, Seen
<1>2. NextPosition = k
  BY <1>1 DEF NextPosition, Seen
<1>3. /\ item[k] = "ok" => success' = success + 1 /\ failed' = failed
      /\ item[k] # "ok" => success' = success /\ failed' = Append(failed, k)
      /\ item[k] = "error" => results' = results
      /\ item[k] # "error" => results' = Append(results, k)
  BY <1>2 DEF Tally
<1>4. k \in Nat
  BY <1>1
<1>5. Seen' = k /\ success' \in Nat /\ failed' \in Seq(Nat)
  <2>1. CASE item[k] = "ok"
    BY <1>1, <1>3, <2>1 DEF Seen
  <2>2. CASE item[k] # "ok"
    <3>1. Len(failed') = Len(failed) + 1 /\ failed' \in Seq(Nat)
      <4>1. failed' = Append(failed, k) /\ k \in Nat /\ failed \in Seq(Nat)
        BY <1>1, <1>3, <1>4, <2>2
      <4> QED BY <4>1, AppendProperties
    <3>2. Seen' = success + Len(failed) + 1
      BY <1>1, <1>3, <2>2, <3>1 DEF Seen
    <3> QED BY <1>1, <1>3, <2>2, <3>1, <3>2 DEF Seen
  <2> QED BY <2>1, <2>2
<1> DEFINE Res == {j \in 1 .. Seen : item[j] # "error"}
           Bad == {j \in 1 .. Seen : item[j] # "ok"}
           Fine == {j \in 1 .. Seen : item[j] = "ok"}
<1>6. Lists(results, Res) /\ Lists(failed, Bad) /\ success = Cardinality(Fine)
  BY DEF TallyInv, TalliedSoFar
<1>7. Res \in SUBSET (1 .. Seen) /\ Bad \in SUBSET (1 .. Seen) /\ Fine \in SUBSET (1 .. Seen)
  OBVIOUS
<1>8. /\ {j \in 1 .. k : item[j] # "error"} = IF item[k] = "error" THEN Res ELSE Res \union {k}
      /\ {j \in 1 .. k : item[j] # "ok"} = IF item[k] = "ok" THEN Bad ELSE Bad \union {k}
      /\ {j \in 1 .. k : item[j] = "ok"} = IF item[k] = "ok" THEN Fine \union {k} ELSE Fine
  BY <1>1
<1> HIDE DEF Res, Bad, Fine
<1>9. Lists(results', {j \in 1 .. k : item[j] # "error"})
  <2>1. CASE item[k] = "error"
    BY <1>3, <1>6, <1>8, <2>1
  <2>2. CASE item[k] # "error"
    <3>1. Lists(Append(results, k), Res \union {k})
      BY <1>1, <1>6, <1>7, ListingGrows
    <3> QED BY <1>3, <1>8, <2>2, <3>1
  <2> QED BY <2>1, <2>2
<1>10. Lists(failed', {j \in 1 .. k : item[j] # "ok"})
  <2>1. CASE item[k] = "ok"
    BY <1>3, <1>6, <1>8, <2>1
  <2>2. CASE item[k] # "ok"
    <3>1. Lists(Append(failed, k), Bad \union {k})
      BY <1>1, <1>6, <1>7, ListingGrows
    <3> QED BY <1>3, <1>8, <2>2, <3>1
  <2> QED BY <2>1, <2>2
<1>11. success' = Cardinality({j \in 1 .. k : item[j] = "ok"})
  <2>1. CASE item[k] # "ok"
    BY <1>3, <1>6, <1>8, <2>1
  <2>2. CASE item[k] = "ok"
    <3>1. IsFiniteSet(Fine) /\ k \notin Fine
      <4>1. k \notin 1 .. Seen
        BY <1>1
      <4> QED BY <1>1, <1>7, <4>1, IndicesAreFinite
    <3>2. Cardinality(Fine \union {k}) = Cardinality(Fine) + 1
      BY <3>1, FS_AddElement
    <3> QED BY <1>3, <1>6, <1>8, <2>2, <3>2
  <2> QED BY <2>1, <2>2
<1>12. TalliedSoFar'
  BY <1>5, <1>9, <1>10, <1>11 DEF TalliedSoFar
<1>13. call.stop => failed = <<>>
  BY DEF TallyInv, TallyPhase
<1>14. /\ Stops(item[k]) => pc' = "returned" /\ answer' = "PatternStopped" /\ position' = k
       /\ ~Stops(item[k]) => UNCHANGED <<pc, answer, position>>
  BY <1>2 DEF Tally, Return
<1>15. StoppedAtFirst'
  <2> SUFFICES ASSUME answer' = "PatternStopped"
               PROVE  /\ call.stop /\ position' = k /\ k >= 1 /\ item[k] \in Failing
                      /\ \A j \in 1 .. k - 1 : item[j] = "ok"
    BY <1>5 DEF StoppedAtFirst
  <2>1. Stops(item[k]) /\ position' = k
    BY <1>14
  <2>2. call.stop /\ item[k] \in Failing
    BY <2>1 DEF Stops, Failing, Outcomes
  <2>3. \A j \in 1 .. Seen : item[j] = "ok"
    BY <1>13, <2>2, NoneFailed DEF TallyInv
  <2> QED BY <1>1, <2>1, <2>2, <2>3
<1>16. pc # "returned"
  BY DEF TallyInv, TallyPhase
<1> QED BY <1>3, <1>5, <1>12, <1>13, <1>14, <1>15, <1>16 DEF Stops

LEMMA TallyEnter ==
  ASSUME TallyInv, Enter
  PROVE  TallyInv'
<1>1. /\ UNCHANGED <<call, item, collected, tallied, position>> /\ pc = "start"
      /\ \/ pc' = "run" /\ answer' = answer
         \/ pc' = "returned" /\ answer' = "InvalidInput"
  BY DEF Enter, Return
<1>2. Items' = Items /\ Taken' = Taken /\ Seen' = Seen
  BY <1>1 DEF Items, Taken, Seen, tallied
<1>3. collected = <<>> /\ Seen = 0 /\ answer = "none"
  BY <1>1 DEF TallyInv, TallyPhase
<1>4. TallyTypeOK' /\ TakenHaveEnded' /\ TakenOnce' /\ ByPosition'
  BY <1>1, <1>2, <1>3 DEF TallyInv, TallyTypeOK, ItemsInv, TakenHaveEnded, TakenOnce,
     ByPosition, tallied
<1>5. TalliedSoFar'
  BY <1>1, <1>2 DEF TallyInv, TalliedSoFar, tallied
<1>6. TallyPhase'
  BY <1>1, <1>2, <1>3 DEF TallyInv, TallyPhase, tallied
<1>7. StoppedAtFirst'
  BY <1>1, <1>3 DEF StoppedAtFirst
<1> QED BY <1>4, <1>5, <1>6, <1>7 DEF TallyInv

LEMMA TallyRefill ==
  ASSUME TallyInv, Refill
  PROVE  TallyInv'
<1>1. /\ UNCHANGED <<call, collected, tallied, answer, position, pc>>
      /\ item' = [k \in Items |-> IF k \in ToStart THEN "running" ELSE item[k]]
  BY DEF Refill
<1>2. Items' = Items
  BY <1>1 DEF Items
<1>3. ItemsInv'
  BY <1>1, <1>2 DEF TallyInv, TallyTypeOK, ItemsInv
<1>4. ASSUME NEW k \in Taken PROVE item'[k] = item[k]
  <2>1. k \in Items
    BY DEF Taken, ToSet, TallyInv, TallyTypeOK, ItemsInv
  <2>2. k \notin ToStart
    BY DEF ToStart, Queued, TallyInv, TakenHaveEnded, Outcomes
  <2> QED BY <1>1, <2>1, <2>2
<1> QED BY <1>1, <1>3, <1>4, QuietTally

LEMMA TallyAnswer ==
  ASSUME TallyInv, NEW k \in Items, Answer(k)
  PROVE  TallyInv'
<1>1. /\ UNCHANGED <<call, collected, tallied, answer, position, pc>>
      /\ item[k] = "running" /\ \E o \in Outcomes : item' = [item EXCEPT ![k] = o]
  BY DEF Answer
<1>2. Items' = Items
  BY <1>1 DEF Items
<1>3. ItemsInv'
  BY <1>1, <1>2 DEF TallyInv, TallyTypeOK, ItemsInv
<1>4. \A j \in Taken : item'[j] = item[j]
  BY <1>1 DEF TallyInv, TallyTypeOK, ItemsInv, TakenHaveEnded, Outcomes, Taken, ToSet
<1> QED BY <1>1, <1>3, <1>4, QuietTally

\* A pipeline takes the next item in input order.
LEMMA TakesNext ==
  ASSUME TallyInv, PipelineInv, call.pattern = "pipeline", pc = "run",
         NEW k \in Items, k \notin Taken, item[k] # "queued"
  PROVE  k = Seen + 1 /\ Seen = Len(collected)
<1> DEFINE l == Len(collected)
<1>1. Seen = l /\ l \in Nat /\ DOMAIN collected = 1 .. l
  BY ItemsAre DEF TallyInv, TallyPhase, TallyTypeOK
<1>2. \A a \in 1 .. l : collected[a] = a
  BY <1>1 DEF TallyInv, ByPosition
<1>3. \A j \in Items : j \in Taken <=> j \in 1 .. l
  BY <1>1, <1>2 DEF Taken, ToSet
<1>4. \A j \in Items : j < k => j \in Taken
  BY DEF PipelineInv, OneByOne
<1>5. Items = 1 .. Len(call.valid) /\ Len(call.valid) \in Nat
  BY ItemsAre DEF TallyInv, TallyTypeOK
<1> HIDE DEF l
<1>6. k \in Nat /\ k > l
  BY <1>1, <1>3, <1>5
<1>7. ASSUME k # l + 1 PROVE FALSE
  <2>1. l + 1 \in Items /\ l + 1 < k
    BY <1>1, <1>5, <1>6, <1>7
  <2> QED BY <1>1, <1>3, <1>4, <2>1
<1> QED BY <1>1, <1>7 DEF l

LEMMA TallyTake ==
  ASSUME TallyInv, call.pattern = "pipeline" => PipelineInv, NEW k \in Items, Take(k)
  PROVE  TallyInv'
<1>1. /\ UNCHANGED <<call, item>> /\ pc = "run" /\ item[k] \in Outcomes
      /\ collected' = Append(collected, k) /\ k \notin Taken
  BY DEF Take, InFlight
<1>2. Items' = Items
  BY <1>1 DEF Items
<1>3. Taken' = Taken \union {k}
  <2>1. collected \in Seq(Items)
    BY DEF TallyInv, TallyTypeOK, ItemsInv
  <2> QED BY <1>1, <2>1, AppendProperties DEF Taken, ToSet
<1> DEFINE l == Len(collected)
<1>4. /\ l \in Nat /\ DOMAIN collected = 1 .. l
      /\ \A a \in 1 .. l : collected[a] \in Taken
  BY ItemsAre DEF TallyInv, TallyTypeOK
<1>5. /\ collected' \in Seq(Items) /\ Len(collected') = l + 1
      /\ \A a \in 1 .. l : collected'[a] = collected[a]
      /\ collected'[l + 1] = k
  BY <1>1, AppendProperties DEF TallyInv, TallyTypeOK, ItemsInv
<1> HIDE DEF l
<1>6. DOMAIN collected' = 1 .. l + 1
  BY <1>5
<1>7. ItemsInv' /\ TakenHaveEnded'
  BY <1>1, <1>2, <1>3, <1>5 DEF TallyInv, TallyTypeOK, ItemsInv, TakenHaveEnded
<1>8. TakenOnce'
  <2> SUFFICES ASSUME NEW a \in 1 .. l + 1, NEW b \in 1 .. l + 1,
                      collected'[a] = collected'[b]
               PROVE  a = b
    BY <1>6 DEF TakenOnce
  <2>1. a \in 1 .. l => collected'[a] \in Taken
    BY <1>4, <1>5
  <2>2. b \in 1 .. l => collected'[b] \in Taken
    BY <1>4, <1>5
  <2>3. (a \in 1 .. l \/ a = l + 1) /\ (b \in 1 .. l \/ b = l + 1)
    BY <1>4
  <2>4. a \in 1 .. l /\ b \in 1 .. l => a = b
    BY <1>4, <1>5 DEF TallyInv, TakenOnce
  <2> QED BY <1>1, <1>5, <2>1, <2>2, <2>3, <2>4
<1>9. answer = "none"
  BY <1>1 DEF TallyInv, TallyPhase
<1>10. CASE call.pattern # "pipeline"
  <2>1. UNCHANGED <<pc, tallied, answer, position>>
    BY <1>10 DEF Take
  <2>2. Seen' = Seen /\ Seen = 0
    BY <1>1, <1>10, <2>1 DEF Seen, tallied, TallyInv, TallyPhase
  <2>3. TallyTypeOK' /\ ByPosition' /\ StoppedAtFirst'
    BY <1>1, <1>7, <1>9, <1>10, <2>1, <2>2
       DEF TallyInv, TallyTypeOK, ByPosition, StoppedAtFirst, tallied
  <2>4. TalliedSoFar'
    BY <1>1, <1>4, <1>5, <2>1, <2>2 DEF TallyInv, TalliedSoFar, tallied
  <2>5. TallyPhase'
    BY <1>1, <1>9, <1>10, <2>1, <2>2 DEF TallyInv, TallyPhase, tallied
  <2> QED BY <1>7, <1>8, <2>3, <2>4, <2>5 DEF TallyInv
<1>11. CASE call.pattern = "pipeline"
  <2>1. Tally(k, item[k])
    BY <1>11 DEF Take
  <2>2. k = Seen + 1 /\ Seen = l
    BY <1>1, <1>11, TakesNext DEF l, Outcomes
  <2>3. /\ Seen' = k /\ success' \in Nat /\ failed' \in Seq(Nat)
        /\ TalliedSoFar' /\ StoppedAtFirst'
        /\ pc' = "returned" <=> answer' # "none"
        /\ call.stop /\ answer' \in {"none", "Ok"} => failed' = <<>>
        /\ answer' # "none" => answer' = "PatternStopped"
        /\ pc' \in {pc, "returned"}
    <3>1. Len(collected') \in Nat /\ Len(collected') >= k
      BY <1>4, <1>5, <2>2
    <3> QED BY <1>1, <1>9, <2>1, <2>2, <3>1, TallyStep
  <2>4. TallyTypeOK'
    BY <1>1, <1>7, <2>3 DEF TallyInv, TallyTypeOK
  <2>5. ByPosition'
    <3>1. \A a \in 1 .. l : collected'[a] = a
      BY <1>4, <1>5, <1>11 DEF TallyInv, ByPosition
    <3>2. \A a \in 1 .. l + 1 : a \in 1 .. l \/ a = l + 1
      BY <1>4
    <3> QED BY <1>5, <1>6, <2>2, <3>1, <3>2 DEF ByPosition
  <2>6. TallyPhase'
    BY <1>1, <1>5, <1>11, <2>2, <2>3 DEF TallyPhase
  <2> QED BY <1>7, <1>8, <2>3, <2>4, <2>5, <2>6 DEF TallyInv
<1> QED BY <1>10, <1>11

LEMMA TallyAllTaken ==
  ASSUME TallyInv, AllTaken
  PROVE  TallyInv' /\ Taken' = Taken
<1>1. /\ UNCHANGED <<call, item, tallied, position>> /\ pc = "run"
      /\ Len(collected) = Cardinality(Items)
  BY DEF AllTaken
<1>2. Items' = Items /\ Seen' = Seen /\ answer = "none"
  BY <1>1 DEF Items, Seen, tallied, TallyInv, TallyPhase
<1> DEFINE n == Len(call.valid)
<1>3. n \in Nat /\ Items = 1 .. n /\ Len(collected) = n /\ Taken \in SUBSET Items
  BY <1>1, ItemsAre DEF TallyInv, TallyTypeOK, Taken, ToSet, ItemsInv
<1>4. CASE call.pattern = "pipeline"
  <2>1. collected' = collected /\ pc' = "returned" /\ answer' = "Ok" /\ Taken' = Taken
    BY <1>4 DEF AllTaken, Return, Taken
  <2>2. Seen = n
    BY <1>1, <1>3, <1>4 DEF TallyInv, TallyPhase
  <2>3. TallyTypeOK' /\ TakenHaveEnded' /\ TakenOnce' /\ ByPosition'
    BY <1>1, <1>2, <1>4, <2>1 DEF TallyInv, TallyTypeOK, ItemsInv, TakenHaveEnded,
       TakenOnce, ByPosition, tallied
  <2>4. TalliedSoFar'
    BY <1>1, <1>2, <2>1 DEF TallyInv, TalliedSoFar, tallied
  <2>5. TallyPhase' /\ StoppedAtFirst'
    BY <1>1, <1>2, <2>1, <2>2 DEF TallyInv, TallyPhase, StoppedAtFirst, tallied
  <2> QED BY <2>1, <2>3, <2>4, <2>5 DEF TallyInv
<1>5. CASE call.pattern # "pipeline"
  <2>1. pc' = "tally" /\ collected' = InOrder(collected) /\ answer' = answer
    BY <1>5 DEF AllTaken
  <2>2. Taken = Items /\ collected' = [a \in 1 .. n |-> a]
    BY <1>1, <2>1, AllCollected DEF TallyInv, TallyTypeOK
  <2>3. /\ DOMAIN collected' = 1 .. n /\ Len(collected') = n
        /\ collected' \in Seq(Items) /\ \A a \in 1 .. n : collected'[a] = a
    BY <1>3, <2>2
  <2>4. Taken' = Taken
    <3>1. Taken' = {collected'[a] : a \in 1 .. n}
      BY <2>3 DEF Taken, ToSet
    <3> HIDE DEF n
    <3> QED BY <1>3, <2>2, <2>3, <3>1
  <2>5. Seen = 0
    BY <1>1, <1>5 DEF TallyInv, TallyPhase
  <2>6. TallyTypeOK' /\ TakenHaveEnded' /\ TakenOnce' /\ ByPosition'
    BY <1>1, <1>2, <2>3, <2>4 DEF TallyInv, TallyTypeOK, ItemsInv, TakenHaveEnded,
       TakenOnce, ByPosition, tallied
  <2>7. TalliedSoFar'
    BY <1>1, <1>2, <1>3, <2>3, <2>5 DEF TallyInv, TalliedSoFar, tallied
  <2>8. TallyPhase' /\ StoppedAtFirst'
    BY <1>1, <1>2, <2>1, <2>3 DEF TallyInv, TallyPhase, StoppedAtFirst, tallied
  <2> QED BY <2>4, <2>6, <2>7, <2>8 DEF TallyInv
<1> QED BY <1>4, <1>5

LEMMA TallyTallyNext ==
  ASSUME TallyInv, TallyNext
  PROVE  TallyInv'
<1> DEFINE k == collected[NextPosition]
<1>1. /\ UNCHANGED <<call, item, collected>> /\ pc = "tally"
      /\ NextPosition <= Len(collected) /\ Tally(k, item[k])
  BY DEF TallyNext
<1>2. Items' = Items /\ Taken' = Taken /\ answer = "none"
  BY <1>1 DEF Items, Taken, TallyInv, TallyPhase
<1>3. NextPosition = Seen + 1 /\ Seen \in Nat
  BY DEF NextPosition, Seen, TallyInv, TallyTypeOK
<1>4. /\ Len(collected) \in Nat /\ DOMAIN collected = 1 .. Len(collected)
      /\ \A a \in 1 .. Len(collected) : collected[a] \in Items /\ collected[a] \in Taken
  BY ItemsAre DEF TallyInv, TallyTypeOK
<1>5. NextPosition \in 1 .. Len(collected)
  BY <1>1, <1>3, <1>4
<1>6. \A a \in DOMAIN collected : collected[a] = a
  BY <1>1 DEF TallyInv, ByPosition
<1>7. k = Seen + 1 /\ k \in Items /\ k \in Taken
  BY <1>3, <1>4, <1>5, <1>6
<1>8. item[k] \in Outcomes
  BY <1>7 DEF TallyInv, TakenHaveEnded
<1> HIDE DEF k
<1>9. /\ Seen' = k /\ success' \in Nat /\ failed' \in Seq(Nat)
      /\ TalliedSoFar' /\ StoppedAtFirst'
      /\ pc' = "returned" <=> answer' # "none"
      /\ call.stop /\ answer' \in {"none", "Ok"} => failed' = <<>>
      /\ answer' # "none" => answer' = "PatternStopped"
      /\ pc' \in {pc, "returned"}
  <2>1. Len(collected') \in Nat /\ Len(collected') >= k
    BY <1>1, <1>3, <1>4, <1>7
  <2> QED BY <1>1, <1>2, <1>7, <1>8, <2>1, TallyStep
<1>10. TallyTypeOK' /\ TakenHaveEnded' /\ TakenOnce' /\ ByPosition'
  BY <1>1, <1>2, <1>6, <1>9 DEF TallyInv, TallyTypeOK, ItemsInv, TakenHaveEnded, TakenOnce,
     ByPosition
<1>11. TallyPhase'
  BY <1>1, <1>9 DEF TallyInv, TallyPhase
<1> QED BY <1>9, <1>10, <1>11 DEF TallyInv

LEMMA TallyAllTallied ==
  ASSUME TallyInv, AllTallied
  PROVE  TallyInv'
<1>1. /\ UNCHANGED <<call, item, collected, tallied, position>> /\ pc = "tally"
      /\ NextPosition > Len(collected) /\ pc' = "returned" /\ answer' = "Ok"
  BY DEF AllTallied, Return
<1>2. Items' = Items /\ Taken' = Taken /\ Seen' = Seen /\ answer = "none"
  BY <1>1 DEF Items, Taken, Seen, tallied, TallyInv, TallyPhase
<1>3. Seen = Len(call.valid)
  <2>1. NextPosition = Seen + 1 /\ Seen \in Nat /\ Len(collected) \in Nat
    BY ItemsAre DEF NextPosition, Seen, TallyInv, TallyTypeOK
  <2>2. Seen <= Len(collected) /\ Len(collected) = Len(call.valid)
    BY <1>1 DEF TallyInv, TalliedSoFar, TallyPhase
  <2> QED BY <1>1, <2>1, <2>2
<1>4. TallyTypeOK' /\ TakenHaveEnded' /\ TakenOnce' /\ ByPosition'
  BY <1>1, <1>2 DEF TallyInv, TallyTypeOK, ItemsInv, TakenHaveEnded, TakenOnce,
     ByPosition, tallied
<1>5. TalliedSoFar'
  BY <1>1, <1>2 DEF TallyInv, TalliedSoFar, tallied
<1>6. TallyPhase' /\ StoppedAtFirst'
  BY <1>1, <1>2, <1>3 DEF TallyInv, TallyPhase, StoppedAtFirst, tallied
<1> QED BY <1>4, <1>5, <1>6 DEF TallyInv

LEMMA TallyInit == Init => TallyInv
<1> SUFFICES ASSUME Init PROVE TallyInv
  OBVIOUS
<1>1. call.valid \in Seq(BOOLEAN) /\ call.cap \in Nat
  BY PatternsAssumption DEF Init, Calls, SmallCalls, PatternsAssumption
<1>2. Taken = {} /\ Seen = 0
  BY DEF Init, Taken, ToSet, Seen
<1>3. TallyTypeOK
  BY <1>1 DEF Init, TallyTypeOK, ItemsInv
<1>4. TalliedSoFar
  <2>1. /\ {k \in 1 .. 0 : item[k] # "error"} = {} /\ {k \in 1 .. 0 : item[k] # "ok"} = {}
        /\ {k \in 1 .. 0 : item[k] = "ok"} = {} /\ Cardinality({}) = 0
    BY FS_EmptySet
  <2>2. Lists(<<>>, {})
    BY <2>1 DEF Lists, Increasing
  <2> QED BY <1>2, <2>1, <2>2 DEF Init, TalliedSoFar
<1> QED BY <1>2, <1>3, <1>4 DEF Init, TallyInv, TakenHaveEnded, TakenOnce, ByPosition,
           TallyPhase, StoppedAtFirst

LEMMA TallyNextInv == Inv /\ TallyInv /\ [Next]_vars => TallyInv'
<1> SUFFICES ASSUME Inv, TallyInv, [Next]_vars PROVE TallyInv'
  OBVIOUS
<1>1. CASE Enter
  BY <1>1, TallyEnter
<1>2. CASE Refill
  BY <1>2, TallyRefill
<1>3. CASE AllTaken
  BY <1>3, TallyAllTaken
<1>4. CASE TallyNext
  BY <1>4, TallyTallyNext
<1>5. CASE AllTallied
  BY <1>5, TallyAllTallied
<1>6. ASSUME NEW k \in Items, Answer(k) PROVE TallyInv'
  BY <1>6, TallyAnswer
<1>7. ASSUME NEW k \in Items, Take(k) PROVE TallyInv'
  BY <1>7, TallyTake DEF Inv
<1>8. CASE UNCHANGED vars
  <2>1. UNCHANGED <<call, collected, tallied, answer, position, pc>> /\ item' = item
    BY <1>8 DEF vars, tallied
  <2>2. ItemsInv'
    BY <2>1 DEF TallyInv, TallyTypeOK, ItemsInv, Items
  <2> QED BY <2>1, <2>2, QuietTally
<1> QED BY <1>1, <1>2, <1>3, <1>4, <1>5, <1>6, <1>7, <1>8 DEF Next

\* The invariant of every list pattern: what is taken, what is tallied, and
\* how the two depend on the outcomes of the items.
THEOREM TallyInvariance == Spec => [](Inv /\ NothingTaken /\ TallyInv)
<1>1. Init => Inv /\ NothingTaken /\ TallyInv
  BY InitInv, TallyInit
<1>2. Inv /\ NothingTaken /\ TallyInv /\ [Next]_vars => (Inv /\ NothingTaken /\ TallyInv)'
  BY StepInv, TallyNextInv
<1> QED BY <1>1, <1>2, PTL DEF Spec

LEMMA OrderFromTally == TallyInv => OrderNeverShows
<1> SUFFICES ASSUME TallyInv PROVE OrderNeverShows
  OBVIOUS
<1>1. Items = 1 .. Len(call.valid) /\ Len(call.valid) \in Nat
  BY ItemsAre DEF TallyInv, TallyTypeOK
<1>2. ASSUME answer = "Ok"
      PROVE  /\ results = Ascending({k \in Items : item[k] # "error"})
             /\ failed = Ascending({k \in Items : item[k] # "ok"})
             /\ success = Cardinality({k \in Items : item[k] = "ok"})
             /\ call.stop => failed = <<>>
  <2>1. 1 .. Seen = Items
    BY <1>1, <1>2 DEF TallyInv, TallyPhase
  <2> DEFINE Res == {k \in Items : item[k] # "error"}
             Bad == {k \in Items : item[k] # "ok"}
  <2>2. Lists(results, Res) /\ Lists(failed, Bad)
    BY <2>1 DEF TallyInv, TalliedSoFar
  <2>3. Res \in SUBSET (1 .. Len(call.valid)) /\ Bad \in SUBSET (1 .. Len(call.valid))
    BY <1>1
  <2> HIDE DEF Res, Bad
  <2>4. results = Ascending(Res) /\ failed = Ascending(Bad)
    BY <1>1, <2>2, <2>3, AscendingIs
  <2>5. success = Cardinality({k \in Items : item[k] = "ok"})
    BY <2>1 DEF TallyInv, TalliedSoFar
  <2>6. call.stop => failed = <<>>
    BY <1>2 DEF TallyInv, TallyPhase
  <2> QED BY <2>4, <2>5, <2>6 DEF Res, Bad
<1>3. ASSUME answer = "PatternStopped"
      PROVE  /\ call.stop /\ item[position] \in {"failed", "error"}
             /\ \A k \in 1 .. (position - 1) : item[k] = "ok"
  BY <1>3 DEF TallyInv, StoppedAtFirst, Failing
<1> QED BY <1>2, <1>3 DEF OrderNeverShows

\* What a pattern returns is a function of how its items ended, whatever the
\* order in which they did, for lists of any length and any cap.
THEOREM ReplaySafe == Spec => []OrderNeverShows
BY TallyInvariance, OrderFromTally, PTL

-----------------------------------------------------------------------------
(* max_in_flight *)

\* A poll starts no more futures than there are free slots.
LEMMA RefillFits ==
  ASSUME ItemsInv, Width \in Nat, Cardinality(InFlight) <= Width
  PROVE  Cardinality(InFlight \union ToStart) <= Width
<1>1. CASE ToStart = {}
  <2>1. InFlight \union ToStart = InFlight
    BY <1>1
  <2> QED BY <2>1
<1>2. CASE ToStart # {}
  <2>1. /\ Items = 1 .. Len(call.valid) /\ Len(call.valid) \in Nat
        /\ ToStart \in SUBSET Items /\ InFlight \in SUBSET Items
    BY ItemsAre DEF ToStart, Queued, InFlight
  <2>2. PICK m \in ToStart : \A k \in ToStart : k <= m
    BY <1>2, <2>1, GreatestExists
  <2> DEFINE Before == {j \in Queued : j < m}
  <2>3. Cardinality(InFlight) + Cardinality(Before) < Width
    BY <2>2 DEF ToStart
  <2>4. Before \in SUBSET Items /\ m \in Items
    BY <2>1 DEF Queued
  <2>5. InFlight \union ToStart \in SUBSET ((InFlight \union Before) \union {m})
    <3>1. ASSUME NEW k \in ToStart PROVE k \in Before \/ k = m
      <4>1. k <= m /\ k \in Queued /\ k \in 1 .. Len(call.valid) /\ m \in 1 .. Len(call.valid)
        BY <2>1, <2>2 DEF ToStart
      <4> QED BY <4>1
    <3> HIDE DEF Before
    <3> QED BY <3>1
  <2> HIDE DEF Before
  <2>6. /\ IsFiniteSet(InFlight) /\ Cardinality(InFlight) \in Nat
        /\ IsFiniteSet(Before) /\ Cardinality(Before) \in Nat
    BY <2>1, <2>4, FiniteItems
  <2>7. /\ IsFiniteSet(InFlight \union Before)
        /\ Cardinality(InFlight \union Before) <= Cardinality(InFlight) + Cardinality(Before)
        /\ Cardinality(InFlight \union Before) \in Nat
    <3>1. IsFiniteSet(InFlight \intersect Before)
      BY <2>6, FS_Intersection
    <3>2. /\ IsFiniteSet(InFlight \union Before)
          /\ Cardinality(InFlight \union Before)
               = Cardinality(InFlight) + Cardinality(Before)
                   - Cardinality(InFlight \intersect Before)
      BY <2>6, FS_Union
    <3>3. Cardinality(InFlight \intersect Before) \in Nat
      BY <3>1, FS_CardinalityType
    <3>4. Cardinality(InFlight \union Before) \in Nat
      BY <3>2, FS_CardinalityType
    <3> QED BY <2>6, <3>2, <3>3, <3>4
  <2>8. /\ IsFiniteSet((InFlight \union Before) \union {m})
        /\ Cardinality((InFlight \union Before) \union {m})
             <= Cardinality(InFlight \union Before) + 1
        /\ Cardinality((InFlight \union Before) \union {m}) \in Nat
    <3> DEFINE U == InFlight \union Before
    <3>1. IsFiniteSet(U) /\ Cardinality(U) \in Nat
      BY <2>7
    <3> HIDE DEF U
    <3>2. /\ IsFiniteSet(U \union {m})
          /\ Cardinality(U \union {m}) =
               IF m \in U THEN Cardinality(U) ELSE Cardinality(U) + 1
      BY <3>1, FS_AddElement
    <3> QED BY <3>1, <3>2 DEF U
  <2> DEFINE V == (InFlight \union Before) \union {m}
  <2>9. IsFiniteSet(V) /\ Cardinality(V) \in Nat
    BY <2>8
  <2>10. Cardinality(V) <= Cardinality(InFlight) + Cardinality(Before) + 1
    BY <2>6, <2>7, <2>8
  <2>11. InFlight \union ToStart \in SUBSET V
    BY <2>5
  <2> HIDE DEF V
  <2>12. Cardinality(InFlight \union ToStart) <= Cardinality(V)
    BY <2>9, <2>11, FS_Subset
  <2>13. Cardinality(InFlight \union ToStart) \in Nat
    <3>1. InFlight \union ToStart \in SUBSET Items
      BY <2>1
    <3> QED BY <3>1, FiniteItems
  <2> QED BY <2>3, <2>6, <2>9, <2>10, <2>12, <2>13
<1> QED BY <1>1, <1>2

LEMMA CapInit == Init => CapHolds
<1> SUFFICES ASSUME Init, call.cap > 0 PROVE Cardinality(InFlight) <= call.cap
  BY DEF CapHolds
<1>1. InFlight = {}
  BY DEF Init, InFlight, Queued
<1>2. call.cap \in Nat
  BY PatternsAssumption DEF Init, Calls, SmallCalls, PatternsAssumption
<1> QED BY <1>1, <1>2, FS_EmptySet

\* Only Refill adds to what is in flight.
LEMMA CapNext == TallyInv /\ CapHolds /\ [Next]_vars => CapHolds'
<1> SUFFICES ASSUME TallyInv, CapHolds, [Next]_vars PROVE CapHolds'
  OBVIOUS
<1>0. call' = call
  BY DEF Next, vars, Enter, Refill, Answer, Take, AllTaken, TallyNext, AllTallied
<1> SUFFICES ASSUME call.concurrent, call.cap > 0
             PROVE  Cardinality(InFlight') <= call.cap
  BY <1>0 DEF CapHolds
<1>1. Cardinality(InFlight) <= call.cap /\ call.cap \in Nat /\ ItemsInv
  BY DEF CapHolds, TallyInv, TallyTypeOK
<1>2. ASSUME InFlight' \in SUBSET InFlight PROVE Cardinality(InFlight') <= call.cap
  <2>1. InFlight \in SUBSET Items
    BY DEF InFlight
  <2>2. IsFiniteSet(InFlight) /\ Cardinality(InFlight) \in Nat
    BY <1>1, <2>1, FiniteItems
  <2>3. IsFiniteSet(InFlight') /\ Cardinality(InFlight') <= Cardinality(InFlight)
    BY <1>2, <2>2, FS_Subset
  <2>4. Cardinality(InFlight') \in Nat
    BY <2>3, FS_CardinalityType
  <2> QED BY <1>1, <2>2, <2>3, <2>4
<1>3. Items' = Items
  BY <1>0 DEF Items
<1>4. CASE Refill
  <2>1. /\ UNCHANGED collected
        /\ item' = [k \in Items |-> IF k \in ToStart THEN "running" ELSE item[k]]
    BY <1>4 DEF Refill
  <2>2. Taken' = Taken
    BY <2>1 DEF Taken
  <2>3. InFlight' = InFlight \union ToStart
    <3>1. ToStart \in SUBSET Queued
      BY DEF ToStart
    <3>2. ASSUME NEW k \in Items PROVE k \in Queued' <=> k \in Queued /\ k \notin ToStart
      BY <1>3, <2>1 DEF Queued
    <3>3. \A k \in Queued : k \notin Taken
      BY DEF Queued, TallyInv, TakenHaveEnded, Outcomes
    <3> QED BY <1>3, <2>2, <3>1, <3>2, <3>3 DEF InFlight, Queued
  <2>4. Width = call.cap
    BY <1>1 DEF Width
  <2>5. Cardinality(InFlight \union ToStart) <= Width
    BY <1>1, <2>4, RefillFits
  <2> QED BY <2>3, <2>4, <2>5
<1>5. CASE AllTaken
  <2>1. Taken' = Taken /\ item' = item
    BY <1>5, TallyAllTaken DEF AllTaken
  <2> QED BY <1>2, <1>3, <2>1 DEF InFlight, Queued
<1>6. ASSUME NEW k \in Items, Answer(k) PROVE Cardinality(InFlight') <= call.cap
  <2>1. /\ collected' = collected /\ item[k] = "running"
        /\ \E o \in Outcomes : item' = [item EXCEPT ![k] = o]
    BY <1>6 DEF Answer
  <2>2. Queued' = Queued
    BY <1>1, <1>3, <2>1 DEF Queued, ItemsInv, Outcomes
  <2> QED BY <1>2, <1>3, <2>1, <2>2 DEF InFlight, Taken
<1>7. ASSUME NEW k \in Items, Take(k) PROVE Cardinality(InFlight') <= call.cap
  <2>1. item' = item /\ collected' = Append(collected, k) /\ collected \in Seq(Items)
    BY <1>1, <1>7 DEF Take, ItemsInv
  <2>2. Taken' = Taken \union {k}
    BY <2>1, AppendProperties DEF Taken, ToSet
  <2> QED BY <1>2, <1>3, <2>1, <2>2 DEF InFlight, Queued
<1>8. CASE Enter \/ TallyNext \/ AllTallied \/ UNCHANGED vars
  <2>1. UNCHANGED <<item, collected>>
    BY <1>8 DEF Enter, TallyNext, AllTallied, vars
  <2> QED BY <1>2, <1>3, <2>1 DEF InFlight, Queued, Taken
<1> QED BY <1>4, <1>5, <1>6, <1>7, <1>8 DEF Next

\* max_in_flight bounds the futures alive at any moment, for lists of any
\* length and any cap.
THEOREM WindowHolds == Spec => []CapHolds
BY TallyInvariance, CapInit, CapNext, PTL DEF Spec

-----------------------------------------------------------------------------
(* The example programs *)

\* An answer other than a refusal, or a refusal of an input that is invalid.
Refused ==
  \/ answer \in {"none", "Ok", "PatternStopped"}
  \/ answer = "InvalidInput" /\ ~InputValid

LEMMA RefusedInit == Init => Refused
BY DEF Init, Refused

LEMMA RefusedNext == Refused /\ [Next]_vars => Refused'
<1> SUFFICES ASSUME Refused, [Next]_vars PROVE Refused'
  OBVIOUS
<1>1. call' = call
  BY DEF Next, vars, Enter, Refill, Answer, Take, AllTaken, TallyNext, AllTallied
<1>2. InputValid' = InputValid
  BY <1>1 DEF InputValid, Items
<1>3. answer' = answer \/ answer' \in {"Ok", "PatternStopped"}
                       \/ (answer' = "InvalidInput" /\ ~InputValid)
  BY DEF Next, vars, Enter, Refill, Answer, Take, AllTaken, TallyNext, AllTallied,
     Return, Tally
<1> QED BY <1>2, <1>3 DEF Refused

\* A program's promise follows from its call and its script alone.
Promised(p) ==
  LET n == Len(p.script)
      Bad == {k \in 1 .. n : p.script[k] # "ok"}
  IN  /\ p.script \in Seq(Outcomes) /\ n # 0
      /\ p.call.valid = [k \in 1 .. n |-> TRUE] /\ p.call.template
      /\ p.says.answer \in {"Ok", "PatternStopped"}
      /\ p.says.answer = "Ok" =>
           /\ p.call.stop => Bad = {}
           /\ Lists(p.says.results, {k \in 1 .. n : p.script[k] # "error"})
           /\ Lists(p.says.failed, Bad)
      /\ p.says.answer = "PatternStopped" =>
           /\ p.call.stop /\ p.says.failed[1] \in Bad
           /\ \A k \in Bad : p.says.failed[1] <= k

LEMMA EmptyListing == Lists(<<>>, {})
BY FS_EmptySet DEF Lists, Increasing

\* The listing of all positions.
LEMMA AllListing ==
  ASSUME NEW n \in Nat
  PROVE  Lists(AllOf(n), 1 .. n)
<1>1. Cardinality(1 .. n) = n
  BY FS_Interval
<1> QED BY <1>1 DEF Lists, Increasing, AllOf

LEMMA OneListed ==
  ASSUME NEW k \in Nat
  PROVE  Lists(<<k>>, {k})
BY FS_Singleton DEF Lists, Increasing

LEMMA OneAndThreeListed == Lists(<<1, 3>>, {1, 3})
<1>1. IsFiniteSet({1}) /\ Cardinality({1}) = 1
  BY FS_Singleton
<1>2. Cardinality({1} \union {3}) = 2
  BY <1>1, FS_AddElement
<1>3. {1} \union {3} = {1, 3}
  OBVIOUS
<1> QED BY <1>2, <1>3 DEF Lists, Increasing

\* A program whose activities all succeed.
Succeeds(p, n) ==
  /\ p.script = Good(n) /\ p.says = EverySucceeds(n)
  /\ p.call.valid = [k \in 1 .. n |-> TRUE] /\ p.call.template

LEMMA SucceedsPromised ==
  ASSUME NEW p, NEW n \in Nat \ {0}, Succeeds(p, n)
  PROVE  Promised(p)
<1>1. p.script \in Seq(Outcomes) /\ Len(p.script) = n /\ \A k \in 1 .. n : p.script[k] = "ok"
  BY DEF Succeeds, Good, Outcomes
<1>2. /\ {k \in 1 .. n : p.script[k] # "ok"} = {}
      /\ {k \in 1 .. n : p.script[k] # "error"} = 1 .. n
  BY <1>1
<1>3. p.says.answer = "Ok" /\ p.says.results = AllOf(n) /\ p.says.failed = <<>>
  BY DEF Succeeds, EverySucceeds, Says
<1>4. Lists(p.says.results, 1 .. n) /\ Lists(p.says.failed, {})
  BY <1>3, EmptyListing, AllListing
<1>5. p.call.valid = [k \in 1 .. n |-> TRUE] /\ p.call.template
  BY DEF Succeeds
<1> QED BY <1>1, <1>2, <1>3, <1>4, <1>5 DEF Promised

\* A program that goes on after its only failure, at position b.
GoesOn(p, n, b) ==
  /\ p.script \in Seq(Outcomes) /\ Len(p.script) = n
  /\ \A k \in 1 .. n : p.script[k] = "ok" <=> k # b
  /\ p.call.valid = [k \in 1 .. n |-> TRUE] /\ p.call.template /\ ~p.call.stop
  /\ p.says.answer = "Ok" /\ p.says.failed = <<b>>

LEMMA GoesOnPromised ==
  ASSUME NEW p, NEW n \in Nat \ {0}, NEW b \in 1 .. n, GoesOn(p, n, b),
         Lists(p.says.results, {k \in 1 .. n : p.script[k] # "error"})
  PROVE  Promised(p)
<1>1. {k \in 1 .. n : p.script[k] # "ok"} = {b}
  BY DEF GoesOn
<1>2. p.says.answer = "Ok" /\ p.says.failed = <<b>> /\ Lists(<<b>>, {b})
  BY OneListed DEF GoesOn
<1>3. /\ p.script \in Seq(Outcomes) /\ Len(p.script) = n /\ n # 0
      /\ p.call.valid = [k \in 1 .. n |-> TRUE] /\ p.call.template /\ ~p.call.stop
  BY DEF GoesOn
<1> QED BY <1>1, <1>2, <1>3 DEF Promised

\* A program that stops at its first failure, at position b.
StopsFirst(p, n, b) ==
  /\ p.script \in Seq(Outcomes) /\ Len(p.script) = n
  /\ \A k \in 1 .. n : p.script[k] = "ok" <=> k # b
  /\ p.call.valid = [k \in 1 .. n |-> TRUE] /\ p.call.template /\ p.call.stop
  /\ p.says = StopsAt(b)

LEMMA StopsFirstPromised ==
  ASSUME NEW p, NEW n \in Nat \ {0}, NEW b \in 1 .. n, StopsFirst(p, n, b)
  PROVE  Promised(p)
<1>1. p.says.answer = "PatternStopped" /\ p.says.failed[1] = b
  BY DEF StopsFirst, StopsAt, Says
<1>2. {k \in 1 .. n : p.script[k] # "ok"} = {b}
  BY DEF StopsFirst
<1> QED BY <1>1, <1>2 DEF StopsFirst, Promised

\* What a call returns, when its items end as the script of a program has it.
LEMMA PromiseKept ==
  ASSUME TallyInv, Refused, pc = "returned", NEW p, Promised(p), call = p.call,
         \A k \in Items : Ended(k) => item[k] = p.script[k]
  PROVE  /\ answer = p.says.answer
         /\ answer = "Ok" => results = p.says.results /\ failed = p.says.failed
         /\ answer = "PatternStopped" => position = p.says.failed[1]
<1> DEFINE n == Len(p.script)
           Bad == {k \in 1 .. n : p.script[k] # "ok"}
           Kept == {k \in 1 .. n : p.script[k] # "error"}
<1>1. n \in Nat /\ n # 0 /\ Items = 1 .. n /\ Len(call.valid) = n
  BY DEF Promised, Items
<1>2. InputValid
  <2>1. call.valid = [k \in 1 .. n |-> TRUE] /\ call.template = TRUE
    BY DEF Promised
  <2>2. \A k \in Items : call.valid[k]
    BY <1>1, <2>1
  <2>3. Items # {}
    <3>1. 1 \in 1 .. n
      BY <1>1
    <3> QED BY <3>1, <1>1
  <2> HIDE DEF n
  <2> QED BY <2>1, <2>2, <2>3 DEF InputValid
<1>3. answer \in {"Ok", "PatternStopped"} /\ p.says.answer \in {"Ok", "PatternStopped"}
  BY <1>2 DEF Refused, TallyInv, TallyPhase, Promised
<1>4. ASSUME answer = "Ok"
      PROVE  /\ \A k \in 1 .. n : item[k] = p.script[k]
             /\ Seen = n
  <2>1. Seen = n /\ Seen <= Len(collected) /\ collected \in Seq(Items)
        /\ \A a \in DOMAIN collected : collected[a] = a
    BY <1>1, <1>4 DEF TallyInv, TallyPhase, TalliedSoFar, ByPosition, TallyTypeOK, ItemsInv
  <2>2. \A k \in 1 .. n : k \in Taken
    BY <1>1, <2>1 DEF Taken, ToSet
  <2> QED BY <1>1, <2>1, <2>2 DEF TallyInv, TakenHaveEnded, Ended
<1>5. ASSUME answer = "PatternStopped"
      PROVE  /\ call.stop /\ position \in Bad
             /\ \A k \in 1 .. n : k < position => p.script[k] = "ok"
  <2>1. /\ call.stop /\ position = Seen /\ position >= 1 /\ item[position] \in Failing
        /\ \A k \in 1 .. position - 1 : item[k] = "ok"
        /\ Seen \in Nat /\ Seen <= Len(collected) /\ collected \in Seq(Items)
    BY <1>5 DEF TallyInv, StoppedAtFirst, TalliedSoFar, TallyTypeOK, ItemsInv, Seen
  <2>2. \A a \in DOMAIN collected : collected[a] = a
    BY <2>1 DEF TallyInv, ByPosition
  <2>3. position \in Items /\ collected[position] = position
    BY <2>1, <2>2
  <2>4. item[position] = p.script[position] /\ p.script[position] # "ok"
    BY <2>1, <2>3 DEF Ended, Outcomes, Failing
  <2>5. ASSUME NEW k \in 1 .. n, k < position PROVE p.script[k] = "ok"
    <3>1. item[k] = "ok" /\ k \in Items
      BY <1>1, <2>1, <2>5
    <3> QED BY <3>1 DEF Ended, Outcomes
  <2> QED BY <1>1, <2>1, <2>3, <2>4, <2>5
<1>6. CASE p.says.answer = "Ok"
  <2>1. /\ call.stop => Bad = {}
        /\ Lists(p.says.results, Kept) /\ Lists(p.says.failed, Bad)
    BY <1>6 DEF Promised
  <2>2. answer = "Ok"
    BY <1>3, <1>5, <2>1
  <2>3. {k \in 1 .. Seen : item[k] # "error"} = Kept /\ {k \in 1 .. Seen : item[k] # "ok"} = Bad
    BY <1>4, <2>2
  <2>4. Lists(results, Kept) /\ Lists(failed, Bad)
    BY <2>3 DEF TallyInv, TalliedSoFar
  <2>5. Kept \in SUBSET (1 .. n) /\ Bad \in SUBSET (1 .. n)
    OBVIOUS
  <2> HIDE DEF Kept, Bad
  <2>6. results = p.says.results /\ failed = p.says.failed
    BY <1>1, <2>1, <2>4, <2>5, OneListing
  <2> QED BY <1>6, <2>2, <2>6
<1>7. CASE p.says.answer = "PatternStopped"
  <2>1. /\ call.stop /\ p.says.failed[1] \in Bad
        /\ \A k \in Bad : p.says.failed[1] <= k
    BY <1>7 DEF Promised
  <2>2. answer = "PatternStopped"
    <3>1. SUFFICES ASSUME answer = "Ok" PROVE FALSE
      BY <1>3
    <3>2. failed = <<>> /\ Lists(failed, {k \in 1 .. Seen : item[k] # "ok"})
      BY <2>1, <3>1 DEF TallyInv, TallyPhase, TalliedSoFar
    <3>3. {k \in 1 .. Seen : item[k] # "ok"} = Bad
      BY <1>4, <3>1
    <3>4. Bad \in SUBSET (1 .. n)
      OBVIOUS
    <3> HIDE DEF Bad
    <3>5. Lists(<<>>, Bad)
      BY <3>2, <3>3
    <3>6. PICK a \in 1 .. Cardinality(Bad) : <<>>[a] = p.says.failed[1]
      <4>1. \A x \in Bad : \E a \in 1 .. Cardinality(Bad) : <<>>[a] = x
        BY <1>1, <3>4, <3>5, ListingFacts
      <4> QED BY <2>1, <4>1
    <3>7. DOMAIN <<>> = 1 .. Cardinality(Bad)
      BY <3>5 DEF Lists
    <3> QED BY <3>6, <3>7
  <2>3. position = p.says.failed[1]
    <3>1. position \in Bad /\ position \in Nat /\ p.says.failed[1] \in 1 .. n
      BY <1>1, <1>5, <2>1, <2>2
    <3>2. p.says.failed[1] <= position
      BY <2>1, <3>1
    <3>3. ~(p.says.failed[1] < position)
      BY <1>5, <2>1, <2>2
    <3> QED BY <1>1, <3>1, <3>2, <3>3
  <2> QED BY <1>7, <2>2, <2>3
<1> QED BY <1>3, <1>6, <1>7

\* The scripts as their activities are written.
LEMMA GoodScripts ==
  /\ \A n \in Nat : Len(Good(n)) = n
  /\ Echo(<<"ok">>) = Good(1)
  /\ Echo(<<"ok", "ok", "ok">>) = Good(3)
  /\ Echo(<<"ok", "ok", "ok", "ok">>) = Good(4)
  /\ Echo(<<"ok", "ok", "ok", "ok", "ok">>) = Good(5)
  /\ Functions(UpperRegistry, <<"upper", "repeat", "reverse">>) = Good(3)
  /\ Functions(DemoRegistry, <<"upper", "reverse", "repeat">>) = Good(3)
<1>1. /\ \A n \in Nat : Len(Good(n)) = n
      /\ Echo(<<"ok">>) = Good(1)
      /\ Echo(<<"ok", "ok", "ok">>) = Good(3)
  BY DEF Good, Echo
<1>2. /\ Echo(<<"ok", "ok", "ok", "ok">>) = Good(4)
      /\ Echo(<<"ok", "ok", "ok", "ok", "ok">>) = Good(5)
  BY DEF Good, Echo
<1>3. Functions(UpperRegistry, <<"upper", "repeat", "reverse">>) = Good(3)
  BY DEF Good, Functions, UpperRegistry
<1>4. Functions(DemoRegistry, <<"upper", "reverse", "repeat">>) = Good(3)
  BY DEF Good, Functions, DemoRegistry
<1> QED BY <1>1, <1>2, <1>3, <1>4

LEMMA BadScripts ==
  /\ Echo(<<"bad">>) = <<"failed">>
  /\ Echo(<<"ok", "bad", "ok">>) = <<"ok", "failed", "ok">>
  /\ Echo(<<"ok", "bad", "ok", "ok">>) = <<"ok", "failed", "ok", "ok">>
  /\ Functions(DemoRegistry, <<"upper", "explode", "upper">>) = <<"ok", "failed", "ok">>
<1>1. /\ Echo(<<"bad">>) = <<"failed">>
      /\ Echo(<<"ok", "bad", "ok">>) = <<"ok", "failed", "ok">>
  BY DEF Echo
<1>2. Echo(<<"ok", "bad", "ok", "ok">>) = <<"ok", "failed", "ok", "ok">>
  BY DEF Echo
<1>3. Functions(DemoRegistry, <<"upper", "explode", "upper">>) = <<"ok", "failed", "ok">>
  BY DEF Functions, DemoRegistry
<1> QED BY <1>1, <1>2, <1>3

LEMMA ProgramsThatSucceed ==
  \A p \in {HelloExecute, HelloPipeline, HelloLoop, HelloParameterizedLoop, FunctionRegistry,
            ScheduledExecuteOk, ScheduledPipelineAllOk, ScheduledLoopSequential,
            ScheduledLoopParallel, ScheduledParameterizedLoop, ScheduledFunctionSuccess} :
    Promised(p)
<1>1. 2 * 2 = 4 /\ \A n \in {1, 3, 4, 5} : n \in Nat \ {0} /\ Len(Good(n)) = n
  <2>1. 2 * 2 = 4 /\ \A n \in {1, 3, 4, 5} : n \in Nat \ {0} /\ n \in Nat
    OBVIOUS
  <2> QED BY <2>1, GoodScripts
<1>2. Succeeds(HelloExecute, 1) /\ Succeeds(ScheduledExecuteOk, 1)
  BY <1>1, GoodScripts DEF Succeeds, HelloExecute, ScheduledExecuteOk, Runs, CallOf
<1>3. Succeeds(HelloPipeline, 3) /\ Succeeds(HelloLoop, 3)
  BY <1>1 DEF Succeeds, HelloPipeline, HelloLoop, Runs, CallOf
<1>4. Succeeds(HelloParameterizedLoop, 4) /\ Succeeds(ScheduledParameterizedLoop, 4)
  BY <1>1, GoodScripts
  DEF Succeeds, HelloParameterizedLoop, ScheduledParameterizedLoop, Runs, CallOf
<1>5. Succeeds(FunctionRegistry, 3) /\ Succeeds(ScheduledFunctionSuccess, 3)
  BY <1>1, GoodScripts
  DEF Succeeds, FunctionRegistry, ScheduledFunctionSuccess, Runs, CallOf
<1>6. Succeeds(ScheduledPipelineAllOk, 3) /\ Succeeds(ScheduledLoopSequential, 3)
  BY <1>1, GoodScripts
  DEF Succeeds, ScheduledPipelineAllOk, ScheduledLoopSequential, Runs, CallOf
<1>7. Succeeds(ScheduledLoopParallel, 5)
  BY <1>1, GoodScripts DEF Succeeds, ScheduledLoopParallel, Runs, CallOf
<1> QED BY <1>1, <1>2, <1>3, <1>4, <1>5, <1>6, <1>7, SucceedsPromised

LEMMA BadShapes ==
  /\ LET s == <<"failed">>
     IN  s \in Seq(Outcomes) /\ Len(s) = 1 /\ \A k \in 1 .. 1 : s[k] = "ok" <=> k # 1
  /\ LET s == <<"ok", "error", "ok">>
     IN  s \in Seq(Outcomes) /\ Len(s) = 3 /\ \A k \in 1 .. 3 : s[k] = "ok" <=> k # 2
  /\ LET s == <<"ok", "failed", "ok">>
     IN  s \in Seq(Outcomes) /\ Len(s) = 3 /\ \A k \in 1 .. 3 : s[k] = "ok" <=> k # 2
  /\ LET s == <<"ok", "failed", "ok", "ok">>
     IN  s \in Seq(Outcomes) /\ Len(s) = 4 /\ \A k \in 1 .. 4 : s[k] = "ok" <=> k # 2
BY DEF Outcomes

LEMMA ProgramsThatGoOn ==
  \A p \in {HelloParallel, ScheduledExecuteFail, ScheduledPipelineContinue,
            ScheduledParallelContinue, ScheduledFunctionMixed} :
    Promised(p)
<1>1. Promised(HelloParallel)
  <2>1. /\ HelloParallel.script = <<"ok", "error", "ok">>
        /\ HelloParallel.says.answer = "Ok"
        /\ HelloParallel.says.failed = <<2>> /\ HelloParallel.says.results = <<1, 3>>
    BY BadScripts DEF HelloParallel, Runs, Says
  <2>2. /\ HelloParallel.call.valid = [k \in 1 .. 3 |-> TRUE]
        /\ HelloParallel.call.template /\ ~HelloParallel.call.stop
    BY BadScripts, BadShapes DEF HelloParallel, Runs, CallOf
  <2>3. GoesOn(HelloParallel, 3, 2)
    BY <2>1, <2>2, BadShapes DEF GoesOn
  <2>4. {k \in 1 .. 3 : HelloParallel.script[k] # "error"} = {1, 3}
    BY <2>1
  <2> QED BY <2>1, <2>3, <2>4, OneAndThreeListed, GoesOnPromised
<1>2. Promised(ScheduledExecuteFail)
  <2>1. /\ ScheduledExecuteFail.script = <<"failed">>
        /\ ScheduledExecuteFail.says.answer = "Ok"
        /\ ScheduledExecuteFail.says.failed = <<1>> /\ ScheduledExecuteFail.says.results = <<1>>
    BY BadScripts DEF ScheduledExecuteFail, Runs, Says
  <2>2. /\ ScheduledExecuteFail.call.valid = [k \in 1 .. 1 |-> TRUE]
        /\ ScheduledExecuteFail.call.template /\ ~ScheduledExecuteFail.call.stop
    BY BadScripts, BadShapes DEF ScheduledExecuteFail, Runs, CallOf
  <2>3. GoesOn(ScheduledExecuteFail, 1, 1)
    BY <2>1, <2>2, BadShapes DEF GoesOn
  <2>4. {k \in 1 .. 1 : ScheduledExecuteFail.script[k] # "error"} = {1}
    BY <2>1
  <2> QED BY <2>1, <2>3, <2>4, OneListed, GoesOnPromised
<1>3. Promised(ScheduledPipelineContinue)
  <2>1. /\ ScheduledPipelineContinue.script = <<"ok", "failed", "ok">>
        /\ ScheduledPipelineContinue.says.answer = "Ok"
        /\ ScheduledPipelineContinue.says.failed = <<2>> /\ ScheduledPipelineContinue.says.results = AllOf(3)
    BY BadScripts DEF ScheduledPipelineContinue, Runs, Says
  <2>2. /\ ScheduledPipelineContinue.call.valid = [k \in 1 .. 3 |-> TRUE]
        /\ ScheduledPipelineContinue.call.template /\ ~ScheduledPipelineContinue.call.stop
    BY BadScripts, BadShapes DEF ScheduledPipelineContinue, Runs, CallOf
  <2>3. GoesOn(ScheduledPipelineContinue, 3, 2)
    BY <2>1, <2>2, BadShapes DEF GoesOn
  <2>4. {k \in 1 .. 3 : ScheduledPipelineContinue.script[k] # "error"} = 1 .. 3
    BY <2>1
  <2>5. Lists(ScheduledPipelineContinue.says.results, 1 .. 3)
    BY <2>1, AllListing
  <2> QED BY <2>3, <2>4, <2>5, GoesOnPromised
<1>4. Promised(ScheduledParallelContinue)
  <2>1. /\ ScheduledParallelContinue.script = <<"ok", "failed", "ok", "ok">>
        /\ ScheduledParallelContinue.says.answer = "Ok"
        /\ ScheduledParallelContinue.says.failed = <<2>> /\ ScheduledParallelContinue.says.results = AllOf(4)
    BY BadScripts DEF ScheduledParallelContinue, Runs, Says
  <2>2. /\ ScheduledParallelContinue.call.valid = [k \in 1 .. 4 |-> TRUE]
        /\ ScheduledParallelContinue.call.template /\ ~ScheduledParallelContinue.call.stop
    BY BadScripts, BadShapes DEF ScheduledParallelContinue, Runs, CallOf
  <2>3. GoesOn(ScheduledParallelContinue, 4, 2)
    BY <2>1, <2>2, BadShapes DEF GoesOn
  <2>4. {k \in 1 .. 4 : ScheduledParallelContinue.script[k] # "error"} = 1 .. 4
    BY <2>1
  <2>5. Lists(ScheduledParallelContinue.says.results, 1 .. 4)
    BY <2>1, AllListing
  <2> QED BY <2>3, <2>4, <2>5, GoesOnPromised
<1>5. Promised(ScheduledFunctionMixed)
  <2>1. /\ ScheduledFunctionMixed.script = <<"ok", "failed", "ok">>
        /\ ScheduledFunctionMixed.says.answer = "Ok"
        /\ ScheduledFunctionMixed.says.failed = <<2>> /\ ScheduledFunctionMixed.says.results = AllOf(3)
    BY BadScripts DEF ScheduledFunctionMixed, Runs, Says
  <2>2. /\ ScheduledFunctionMixed.call.valid = [k \in 1 .. 3 |-> TRUE]
        /\ ScheduledFunctionMixed.call.template /\ ~ScheduledFunctionMixed.call.stop
    BY BadScripts, BadShapes DEF ScheduledFunctionMixed, Runs, CallOf
  <2>3. GoesOn(ScheduledFunctionMixed, 3, 2)
    BY <2>1, <2>2, BadShapes DEF GoesOn
  <2>4. {k \in 1 .. 3 : ScheduledFunctionMixed.script[k] # "error"} = 1 .. 3
    BY <2>1
  <2>5. Lists(ScheduledFunctionMixed.says.results, 1 .. 3)
    BY <2>1, AllListing
  <2> QED BY <2>3, <2>4, <2>5, GoesOnPromised
<1> QED BY <1>1, <1>2, <1>3, <1>4, <1>5

LEMMA ProgramsThatStop ==
  Promised(ScheduledPipelineStop) /\ Promised(ScheduledParallelFailFast)
<1>1. \A p \in {ScheduledPipelineStop, ScheduledParallelFailFast} :
        p.script = <<"ok", "failed", "ok">> /\ p.says = StopsAt(2)
  <2>1. /\ ScheduledPipelineStop.script = <<"ok", "failed", "ok">>
        /\ ScheduledPipelineStop.says = StopsAt(2)
    BY BadScripts DEF ScheduledPipelineStop, Runs
  <2>2. /\ ScheduledParallelFailFast.script = <<"ok", "failed", "ok">>
        /\ ScheduledParallelFailFast.says = StopsAt(2)
    BY BadScripts DEF ScheduledParallelFailFast, Runs
  <2> QED BY <2>1, <2>2
<1>2. /\ ScheduledPipelineStop.call.valid = [k \in 1 .. 3 |-> TRUE]
      /\ ScheduledPipelineStop.call.template /\ ScheduledPipelineStop.call.stop
  BY BadScripts, BadShapes DEF ScheduledPipelineStop, Runs, CallOf
<1>3. /\ ScheduledParallelFailFast.call.valid = [k \in 1 .. 3 |-> TRUE]
      /\ ScheduledParallelFailFast.call.template /\ ScheduledParallelFailFast.call.stop
  BY BadScripts, BadShapes DEF ScheduledParallelFailFast, Runs, CallOf
<1>4. StopsFirst(ScheduledPipelineStop, 3, 2) /\ StopsFirst(ScheduledParallelFailFast, 3, 2)
  <2>1. \A p : p.script = <<"ok", "failed", "ok">> =>
               /\ p.script \in Seq(Outcomes) /\ Len(p.script) = 3
               /\ \A k \in 1 .. 3 : p.script[k] = "ok" <=> k # 2
    BY BadShapes
  <2> QED BY <1>1, <1>2, <1>3, <2>1 DEF StopsFirst
<1> QED BY <1>4, StopsFirstPromised

LEMMA ProgramsPromise == \A p \in Programs : Promised(p)
BY ProgramsThatSucceed, ProgramsThatGoOn, ProgramsThatStop DEF Programs

CallIsProgram == program = Free \/ (program \in Programs /\ call = program.call)

LEMMA ExampleFromTally ==
  TallyInv /\ Refused /\ CallIsProgram => ExamplesAsDocumented
<1> SUFFICES ASSUME TallyInv, Refused, CallIsProgram, program # Free, pc = "returned",
                    \A k \in Items : Ended(k) => item[k] = program.script[k]
             PROVE  /\ answer = program.says.answer
                    /\ answer = "Ok" => /\ results = program.says.results
                                        /\ failed = program.says.failed
                    /\ answer = "PatternStopped" => position = program.says.failed[1]
  BY DEF ExamplesAsDocumented
<1> QED BY ProgramsPromise, PromiseKept DEF CallIsProgram

\* Every example program comes to what its comments say, in whatever order its
\* activities answer.
THEOREM ExamplesKeepTheirWord == ExampleSpec => []ExamplesAsDocumented
<1>1. ExampleInit => Inv /\ NothingTaken /\ TallyInv /\ Refused /\ CallIsProgram
  BY InitInv, TallyInit, RefusedInit DEF ExampleInit, CallIsProgram
<1>2. Inv /\ NothingTaken /\ TallyInv /\ Refused /\ CallIsProgram
        /\ [ExampleNext]_exampleVars
      => (Inv /\ NothingTaken /\ TallyInv /\ Refused /\ CallIsProgram)'
  <2> SUFFICES ASSUME Inv, NothingTaken, TallyInv, Refused, CallIsProgram,
                      [ExampleNext]_exampleVars
               PROVE  (Inv /\ NothingTaken /\ TallyInv /\ Refused /\ CallIsProgram)'
    OBVIOUS
  <2>1. [Next]_vars /\ program' = program
    BY DEF ExampleNext, exampleVars
  <2>2. call' = call
    BY <2>1 DEF Next, vars, Enter, Refill, Answer, Take, AllTaken, TallyNext, AllTallied
  <2>3. CallIsProgram'
    BY <2>1, <2>2 DEF CallIsProgram
  <2> QED BY <2>1, <2>3, StepInv, TallyNextInv, RefusedNext
<1> QED BY <1>1, <1>2, ExampleFromTally, PTL DEF ExampleSpec
=============================================================================
