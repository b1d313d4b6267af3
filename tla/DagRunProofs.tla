---------------------------- MODULE DagRunProofs ----------------------------
(***************************************************************************)
(* Proofs about DagRun, for every set of inputs.  First the cycle search:  *)
(* it accepts only graphs without a cycle, and rejects only graphs with    *)
(* one.  Then the layers and waves: an accepted input is placed            *)
(* completely, its nodes run after the nodes they depend on, and the       *)
(* answer accounts for them.                                               *)
(***************************************************************************)
EXTENDS DagRun, SequenceTheorems, FiniteSetTheorems, WellFoundedInduction, TLAPS

-----------------------------------------------------------------------------
(* The inductive invariant *)

Frame == Names \X (Nat \ {0})

Colour == {n \in Names : state[n] = Visited}

\* The dependency of frame i that the search has gone into, when another
\* frame lies on it, and the number of those it is done with.
Entered(i) == DepsOf(stack[i][1])[stack[i][2] - 1]
Passed(i) == IF i < Len(stack) THEN stack[i][2] - 2 ELSE stack[i][2] - 1

\* The stack is a path along dependencies, and Visiting means on the path.
StackIsPath ==
  /\ \A i \in 1 .. Len(stack) :
       /\ stack[i][1] \in NamesUsed
       /\ state[stack[i][1]] = Visiting
       /\ stack[i][2] <= Len(DepsOf(stack[i][1])) + 1
  /\ \A n \in Names : state[n] = Visiting =>
       \E i \in 1 .. Len(stack) : stack[i][1] = n
  /\ \A i, j \in 1 .. Len(stack) : stack[i][1] = stack[j][1] => i = j
  /\ \A i \in 1 .. Len(stack) - 1 :
       stack[i][2] >= 2 /\ Entered(i) = stack[i + 1][1]

\* The dependencies a frame is done with are finalised.
PassedAreVisited ==
  \A i \in 1 .. Len(stack) : \A k \in 1 .. Passed(i) :
    state[DepsOf(stack[i][1])[k]] = Visited

\* Finalised nodes only wait for finalised nodes, and not for each other.
VisitedAreSound ==
  /\ \A n \in Colour : DepSet(n) \subseteq Colour
  /\ \A S \in SUBSET Colour : ~Deadlocked(S)

\* The loop over the nodes has left none behind it white.
NextIsReached == \A i \in 1 .. next : state[Nodes[i].name] # Unvisited

SearchInv ==
  /\ WellFormed
  /\ StackIsPath
  /\ PassedAreVisited
  /\ VisitedAreSound
  /\ NextIsReached

\* The inductive invariant: the search keeps SearchInv until its verdict.
DagInv ==
  /\ DagTypeOK
  /\ ~screened => /\ stack = <<>> /\ next = 0 /\ state = [n \in Names |-> Unvisited]
                  /\ verdict \in {"pending", "InvalidInput"}
  /\ Searching => SearchInv
  /\ AcceptedIsAcyclic
  /\ CircularIsCyclic

-----------------------------------------------------------------------------
(* Lemmas about the graph *)

\* The input does not change, so neither does anything read from it.
LEMMA SameInput ==
  ASSUME input' = input
  PROVE  /\ Nodes' = Nodes /\ NamesUsed' = NamesUsed
         /\ \A n : DepsOf(n)' = DepsOf(n)
         /\ \A n : DepSet(n)' = DepSet(n)
         /\ \A S : Deadlocked(S)' <=> Deadlocked(S)
         /\ WellFormed' <=> WellFormed
<1>1. Nodes' = Nodes /\ Index' = Index
  BY DEF Nodes, Index
<1>2. NamesUsed' = NamesUsed
  BY <1>1 DEF NamesUsed
<1>3. ASSUME NEW n PROVE DepsOf(n)' = DepsOf(n)
  BY <1>1 DEF DepsOf
<1>4. ASSUME NEW n PROVE DepSet(n)' = DepSet(n)
  BY <1>3 DEF DepSet
<1>5. ASSUME NEW S PROVE Deadlocked(S)' <=> Deadlocked(S)
  BY <1>4 DEF Deadlocked
<1>6. WellFormed' <=> WellFormed
  BY <1>1, <1>2 DEF WellFormed
<1> QED BY <1>1, <1>2, <1>3, <1>4, <1>5, <1>6

\* The nodes of a well-formed input have names, and so do their dependencies.
LEMMA DepsFacts ==
  ASSUME DagTypeOK, WellFormed, NEW n \in NamesUsed
  PROVE  /\ n \in Names
         /\ DepsOf(n) \in Seq(Names) /\ Len(DepsOf(n)) \in Nat
         /\ \A k \in 1 .. Len(DepsOf(n)) : DepsOf(n)[k] \in NamesUsed
         /\ DepSet(n) = {DepsOf(n)[k] : k \in 1 .. Len(DepsOf(n))}
<1>1. Nodes \in Seq(NodeType)
  BY DagAssumption DEF DagAssumption, DagTypeOK, Nodes
<1>2. PICK i \in Index : Nodes[i].name = n
  BY DEF NamesUsed
<1> DEFINE j == CHOOSE q \in Index : Nodes[q].name = n
<1>3. j \in Index /\ Nodes[j].name = n
  BY <1>2
<1>4. DepsOf(n) = Nodes[j].deps
  BY DEF DepsOf
<1>5. Nodes[j] \in NodeType
  BY <1>1, <1>3 DEF Index
<1> HIDE DEF j
<1>6. n \in Names /\ DepsOf(n) \in Seq(Names)
  BY <1>3, <1>4, <1>5 DEF NodeType, WellFormed
<1>7. \A k \in 1 .. Len(DepsOf(n)) : DepsOf(n)[k] \in NamesUsed
  BY <1>3, <1>4 DEF WellFormed
<1> QED BY <1>6, <1>7 DEF DepSet

\* A node that only waits for nodes of an acyclic, closed set joins it
\* without closing a cycle.
LEMMA AcyclicGrows ==
  ASSUME NEW V, NEW n, n \notin V, DepSet(n) \subseteq V,
         \A m \in V : DepSet(m) \subseteq V,
         \A S \in SUBSET V : ~Deadlocked(S)
  PROVE  \A S \in SUBSET (V \union {n}) : ~Deadlocked(S)
<1> SUFFICES ASSUME NEW S \in SUBSET (V \union {n}), Deadlocked(S) PROVE FALSE
  OBVIOUS
<1> DEFINE T == S \ {n}
<1>1. T \in SUBSET V
  OBVIOUS
<1>2. \A m \in S : DepSet(m) \intersect T # {}
  BY DEF Deadlocked
<1>3. T # {}
  BY <1>2 DEF Deadlocked
<1> QED BY <1>1, <1>2, <1>3 DEF Deadlocked

-----------------------------------------------------------------------------
(* Lemmas about the search *)

\* A stack without its last element.
LEMMA PopFacts ==
  ASSUME NEW S, NEW s \in Seq(S), NEW n \in Nat, n >= 1, n = Len(s)
  PROVE  /\ SubSeq(s, 1, n - 1) \in Seq(S)
         /\ Len(SubSeq(s, 1, n - 1)) = n - 1
         /\ \A i \in 1 .. n - 1 : SubSeq(s, 1, n - 1)[i] = s[i]
<1> DEFINE m == n - 1
<1>1. m \in Int /\ m >= 0 /\ m <= n
  OBVIOUS
<1> HIDE DEF m
<1>2. \A i \in 1 .. m : s[i] \in S
  BY <1>1
<1>3. /\ SubSeq(s, 1, m) \in Seq(S)
      /\ Len(SubSeq(s, 1, m)) = IF 1 <= m THEN m - 1 + 1 ELSE 0
      /\ \A i \in 1 .. m - 1 + 1 : SubSeq(s, 1, m)[i] = s[1 + i - 1]
  BY <1>1, <1>2, SubSeqProperties
<1>4. Len(SubSeq(s, 1, m)) = m
  BY <1>1, <1>3
<1>5. \A i \in 1 .. m : SubSeq(s, 1, m)[i] = s[i]
  BY <1>1, <1>3
<1> QED BY <1>3, <1>4, <1>5 DEF m

\* A stack with one more element.
LEMMA PushFacts ==
  ASSUME NEW S, NEW s \in Seq(S), NEW e \in S, NEW n \in Nat, n = Len(s)
  PROVE  /\ Append(s, e) \in Seq(S)
         /\ Len(Append(s, e)) = n + 1
         /\ Append(s, e)[n + 1] = e
         /\ \A i \in 1 .. n : Append(s, e)[i] = s[i]
BY AppendProperties

\* What a stack of the search and its top look like.
LEMMA StackFacts ==
  ASSUME DagTypeOK, SearchInv
  PROVE  /\ stack \in Seq(Frame) /\ Len(stack) \in Nat
         /\ stack # <<>> => Len(stack) \in 1 .. Len(stack)
         /\ \A i \in 1 .. Len(stack) :
              /\ stack[i] \in Frame
              /\ stack[i] = <<stack[i][1], stack[i][2]>>
              /\ stack[i][1] \in NamesUsed /\ stack[i][1] \in Names
              /\ stack[i][2] \in Nat \ {0}
<1>1. stack \in Seq(Frame) /\ Len(stack) \in Nat
  BY DEF DagTypeOK, Frame
<1>2. stack # <<>> => Len(stack) >= 1
  BY <1>1
<1>3. \A i \in 1 .. Len(stack) : stack[i] \in Frame
  BY <1>1
<1>4. \A i \in 1 .. Len(stack) : stack[i][1] \in NamesUsed
  BY DEF SearchInv, StackIsPath
<1> QED BY <1>1, <1>2, <1>3, <1>4 DEF Frame

\* Reaching a node of the path again closes a cycle: the nodes from it up.
LEMMA CycleFound ==
  ASSUME DagTypeOK, SearchInv, stack # <<>>,
         Top[2] <= Len(DepsOf(Top[1])),
         state[DepsOf(Top[1])[Top[2]]] = Visiting
  PROVE  \E S \in SUBSET NamesUsed : Deadlocked(S)
<1> DEFINE dep == DepsOf(Top[1])[Top[2]]
           n == Len(stack)
<1>1. /\ n \in 1 .. n /\ Top = stack[n] /\ n \in Nat
      /\ Top[1] \in NamesUsed /\ Top[2] \in Nat \ {0}
  BY StackFacts DEF Top
<1>2. dep \in NamesUsed /\ dep \in Names /\ dep \in DepSet(Top[1])
  <2>1. Top[2] \in 1 .. Len(DepsOf(Top[1]))
    BY <1>1, DepsFacts DEF SearchInv
  <2>2. dep \in NamesUsed
    BY <1>1, <2>1, DepsFacts DEF SearchInv
  <2> QED BY <1>1, <2>1, <2>2, DepsFacts DEF SearchInv
<1>3. PICK p \in 1 .. n : stack[p][1] = dep
  BY <1>2 DEF SearchInv, StackIsPath
<1> DEFINE S == {stack[i][1] : i \in p .. n}
<1>4. S \in SUBSET NamesUsed /\ dep \in S
  BY <1>1, <1>3, StackFacts
<1>5. ASSUME NEW i \in p .. n PROVE DepSet(stack[i][1]) \intersect S # {}
  <2>1. CASE i = n
    BY <1>1, <1>2, <1>4, <2>1
  <2>2. CASE i # n
    <3> DEFINE k == stack[i][2] - 1
    <3>1. i \in 1 .. n - 1 /\ i \in 1 .. n /\ i + 1 \in p .. n
      BY <1>1, <1>3, <2>2
    <3>2. /\ stack[i][2] >= 2 /\ stack[i][2] <= Len(DepsOf(stack[i][1])) + 1
          /\ DepsOf(stack[i][1])[k] = stack[i + 1][1]
      BY <3>1 DEF SearchInv, StackIsPath, Entered
    <3>3. stack[i][1] \in NamesUsed /\ stack[i][2] \in Nat
      BY <3>1, StackFacts
    <3>4. Len(DepsOf(stack[i][1])) \in Nat
      BY <3>3, DepsFacts DEF SearchInv
    <3>5. k \in 1 .. Len(DepsOf(stack[i][1]))
      <4> DEFINE x == stack[i][2]
                 len == Len(DepsOf(stack[i][1]))
      <4>1. x \in Nat /\ len \in Nat /\ x >= 2 /\ x <= len + 1
        BY <3>2, <3>3, <3>4
      <4> HIDE DEF x, len
      <4>2. x - 1 \in 1 .. len
        BY <4>1
      <4> QED BY <4>2 DEF x, len
    <3>6. DepsOf(stack[i][1])[k] \in DepSet(stack[i][1])
      BY <3>3, <3>5, DepsFacts DEF SearchInv
    <3>7. stack[i + 1][1] \in S
      BY <3>1
    <3> QED BY <3>2, <3>6, <3>7
  <2> QED BY <2>1, <2>2
<1>6. Deadlocked(S)
  BY <1>4, <1>5 DEF Deadlocked
<1> QED BY <1>4, <1>6

-----------------------------------------------------------------------------
(* The steps of the search keep its invariant *)

\* The clauses of StackIsPath, one by one: the provers meet them as facts, not as a definition.
LEMMA PathFacts ==
  ASSUME SearchInv
  PROVE  /\ \A i \in 1 .. Len(stack) :
              /\ stack[i][1] \in NamesUsed
              /\ state[stack[i][1]] = Visiting
              /\ stack[i][2] <= Len(DepsOf(stack[i][1])) + 1
         /\ \A m \in Names : state[m] = Visiting => \E i \in 1 .. Len(stack) : stack[i][1] = m
         /\ \A i, j \in 1 .. Len(stack) : stack[i][1] = stack[j][1] => i = j
         /\ \A i \in 1 .. Len(stack) - 1 :
              stack[i][2] >= 2 /\ Entered(i) = stack[i + 1][1]
BY DEF SearchInv, StackIsPath

\* A node is finalised after all its dependencies, and joins an acyclic set.
LEMMA FinaliseKeeps ==
  ASSUME DagTypeOK, SearchInv, Finalise
  PROVE  SearchInv' /\ stack' \in Seq(Frame)
<1> DEFINE n == Len(stack)
           x == Top[1]
<1>1. /\ n \in Nat /\ n \in 1 .. n /\ Top = stack[n]
      /\ x \in NamesUsed /\ x \in Names /\ Top[2] \in Nat \ {0}
  BY StackFacts DEF Top, Finalise
<1>2. /\ input' = input /\ next' = next /\ state \in [Names -> {Unvisited, Visiting, Visited}]
      /\ state'[x] = Visited /\ \A m \in Names : m # x => state'[m] = state[m]
  BY <1>1 DEF Finalise, DagTypeOK
<1>3. /\ stack' \in Seq(Frame) /\ Len(stack') = n - 1
      /\ \A i \in 1 .. n - 1 : stack'[i] = stack[i]
  <2>1. stack' = SubSeq(stack, 1, n - 1)
    BY DEF Finalise
  <2>2. n \in Nat /\ n >= 1 /\ n = Len(stack) /\ stack \in Seq(Frame)
    BY <1>1, StackFacts
  <2> HIDE DEF n
  <2> QED BY <2>1, <2>2, PopFacts, Zenon
<1>4. state[x] = Visiting /\ \A i \in 1 .. n - 1 : stack[i][1] # x
  BY <1>1 DEF SearchInv, StackIsPath
<1>5. StackIsPath'
  <2>1. ASSUME NEW i \in 1 .. n - 1
        PROVE  /\ stack'[i][1] \in NamesUsed'
               /\ state'[stack'[i][1]] = Visiting
               /\ stack'[i][2] <= Len(DepsOf(stack'[i][1])) + 1
    <3>1. i \in 1 .. n
      BY <1>1
    <3>2. stack[i][1] \in Names /\ stack[i][1] # x
      BY <1>4, <3>1, StackFacts
    <3>3. /\ stack[i][1] \in NamesUsed /\ state[stack[i][1]] = Visiting
          /\ stack[i][2] <= Len(DepsOf(stack[i][1])) + 1
      BY <3>1, PathFacts
    <3>4. NamesUsed' = NamesUsed
      BY <1>2, SameInput
    <3>5. stack'[i] = stack[i]
      BY <1>3
    <3> QED BY <1>2, <3>2, <3>3, <3>4, <3>5
  <2>2. ASSUME NEW m \in Names, state'[m] = Visiting
        PROVE  \E i \in 1 .. n - 1 : stack'[i][1] = m
    <3>1. m # x /\ state[m] = Visiting
      BY <1>2, <2>2 DEF Visiting, Visited
    <3>2. PICK i \in 1 .. n : stack[i][1] = m
      BY <3>1 DEF SearchInv, StackIsPath
    <3>3. i \in 1 .. n - 1
      BY <1>1, <3>1, <3>2
    <3> QED BY <1>3, <3>2, <3>3
  <2>3. \A i, j \in 1 .. n - 1 : stack'[i][1] = stack'[j][1] => i = j
    <3> SUFFICES ASSUME NEW i \in 1 .. n - 1, NEW j \in 1 .. n - 1,
                        stack[i][1] = stack[j][1]
                 PROVE  i = j
      BY <1>3
    <3>1. i \in 1 .. n /\ j \in 1 .. n
      BY <1>1
    <3> QED BY <3>1 DEF SearchInv, StackIsPath
  <2>4. ASSUME NEW i \in 1 .. (n - 1) - 1
        PROVE  stack'[i][2] >= 2 /\ Entered(i)' = stack'[i + 1][1]
    <3>1. i \in 1 .. n - 1 /\ i + 1 \in 1 .. n - 1
      BY <1>1
    <3>2. stack[i][2] >= 2 /\ Entered(i) = stack[i + 1][1]
      BY <3>1 DEF SearchInv, StackIsPath
    <3> QED BY <1>2, <1>3, <3>1, <3>2, SameInput DEF Entered
  <2> QED BY <1>2, <1>3, <2>1, <2>2, <2>3, <2>4, SameInput DEF StackIsPath
<1>6. PassedAreVisited'
  <2> SUFFICES ASSUME NEW i \in 1 .. n - 1, NEW k \in 1 .. Passed(i)'
               PROVE  state'[DepsOf(stack[i][1])[k]] = Visited
    BY <1>2, <1>3, SameInput DEF PassedAreVisited
  <2>1. i \in 1 .. n /\ i < n /\ stack[i][2] \in Nat
    BY <1>1, StackFacts
  <2>2. k \in Nat /\ k >= 1 /\ k <= stack[i][2] - 1
    <3>1. stack'[i][2] = stack[i][2]
      BY <1>3
    <3>2. Passed(i)' \in {stack[i][2] - 2, stack[i][2] - 1}
      BY <3>1 DEF Passed
    <3> QED BY <2>1, <3>2
  <2>3. k \in 1 .. Len(DepsOf(stack[i][1]))
    <3>1. stack[i][1] \in NamesUsed /\ stack[i][2] <= Len(DepsOf(stack[i][1])) + 1
      BY <2>1 DEF SearchInv, StackIsPath
    <3>2. Len(DepsOf(stack[i][1])) \in Nat
      BY <3>1, DepsFacts DEF SearchInv
    <3> QED BY <2>1, <2>2, <3>1, <3>2
  <2>4. DepsOf(stack[i][1])[k] \in Names
    <3>1. DepsOf(stack[i][1])[k] \in NamesUsed
      BY <2>1, <2>3, StackFacts, DepsFacts DEF SearchInv
    <3> QED BY <3>1, DepsFacts DEF SearchInv
  <2>5. CASE k = stack[i][2] - 1
    <3>1. Entered(i) = stack[i + 1][1]
      <4>1. i \in 1 .. Len(stack) - 1
        BY <1>1, <2>1
      <4> QED BY <4>1, PathFacts
    <3>2. CASE i = n - 1
      BY <1>1, <1>2, <2>5, <3>1, <3>2 DEF Entered
    <3>3. CASE i # n - 1
      <4>1. Passed(i)' = stack[i][2] - 2
        BY <1>1, <1>3, <2>1, <3>3 DEF Passed
      <4> QED BY <2>1, <2>2, <2>5, <4>1
    <3> QED BY <3>2, <3>3
  <2>6. CASE k # stack[i][2] - 1
    <3>1. k \in 1 .. Passed(i)
      BY <2>1, <2>2, <2>6 DEF Passed
    <3>2. state[DepsOf(stack[i][1])[k]] = Visited
      BY <2>1, <3>1 DEF SearchInv, PassedAreVisited
    <3> QED BY <1>2, <2>4, <3>2
  <2> QED BY <2>5, <2>6
<1>7. VisitedAreSound'
  <2>1. Colour' = Colour \union {x} /\ x \notin Colour
    BY <1>1, <1>2, <1>4 DEF Colour, Visiting, Visited
  <2>2. DepSet(x) \subseteq Colour
    <3>1. ASSUME NEW k \in 1 .. Len(DepsOf(x)) PROVE DepsOf(x)[k] \in Colour
      <4>1. k \in 1 .. Passed(n)
        <5>1. Len(DepsOf(x)) \in Nat /\ Top[2] > Len(DepsOf(x))
          BY <1>1, DepsFacts DEF SearchInv, Finalise
        <5> QED BY <1>1, <5>1 DEF Passed
      <4>2. state[DepsOf(x)[k]] = Visited
        BY <1>1, <4>1 DEF SearchInv, PassedAreVisited
      <4>3. DepsOf(x)[k] \in NamesUsed
        BY <1>1, DepsFacts DEF SearchInv
      <4>4. DepsOf(x)[k] \in Names
        BY <4>3, DepsFacts DEF SearchInv
      <4> QED BY <4>2, <4>4 DEF Colour
    <3> QED BY <1>1, <3>1, DepsFacts DEF SearchInv
  <2>3. \A S \in SUBSET (Colour \union {x}) : ~Deadlocked(S)
    BY <2>1, <2>2, AcyclicGrows DEF SearchInv, VisitedAreSound
  <2>4. \A m \in Colour \union {x} : DepSet(m) \subseteq Colour \union {x}
    BY <2>2 DEF SearchInv, VisitedAreSound
  <2> QED BY <1>2, <2>1, <2>3, <2>4, SameInput DEF VisitedAreSound
<1>8. NextIsReached'
  <2>1. ASSUME NEW i \in 1 .. next PROVE state'[Nodes[i].name] # Unvisited
    <3>1. i \in Index
      BY DEF DagTypeOK, Index
    <3>2. Nodes[i].name \in NamesUsed
      BY <3>1 DEF NamesUsed
    <3>3. Nodes[i].name \in Names
      BY <3>2, DepsFacts DEF SearchInv
    <3> QED BY <1>2, <3>3 DEF SearchInv, NextIsReached, Unvisited, Visited
  <2> QED BY <1>2, <2>1, SameInput DEF NextIsReached
<1> QED BY <1>2, <1>3, <1>5, <1>6, <1>7, <1>8, SameInput DEF SearchInv

\* Moving the cursor of the top frame.
LEMMA BumpFacts ==
  ASSUME DagTypeOK, SearchInv, stack # <<>>, NEW n \in Nat, n = Len(stack)
  PROVE  /\ n \in 1 .. n /\ Top = stack[n]
         /\ Bump \in Seq(Frame) /\ Len(Bump) = n
         /\ Bump[n] = <<Top[1], Top[2] + 1>>
         /\ \A i \in 1 .. n : i # n => Bump[i] = stack[i]
<1>1. n \in 1 .. n /\ Top = stack[n] /\ stack \in Seq(Frame) /\ Top \in Frame
  BY StackFacts DEF Top
<1>2. <<Top[1], Top[2] + 1>> \in Frame
  BY <1>1 DEF Frame
<1>3. Bump = [stack EXCEPT ![n] = <<Top[1], Top[2] + 1>>]
  BY DEF Bump
<1> QED BY <1>1, <1>2, <1>3, ExceptSeq

\* The dependency the top frame is at.
LEMMA NextDep ==
  ASSUME DagTypeOK, SearchInv, Descend
  PROVE  /\ DepsOf(Top[1])[Top[2]] \in NamesUsed
         /\ DepsOf(Top[1])[Top[2]] \in Names
         /\ Top[1] \in NamesUsed /\ Top[1] \in Names /\ Top[2] \in Nat \ {0}
         /\ Len(DepsOf(Top[1])) \in Nat
<1>1. Top[1] \in NamesUsed /\ Top[1] \in Names /\ Top[2] \in Nat \ {0}
  BY StackFacts DEF Top, Descend
<1>2. Top[2] \in 1 .. Len(DepsOf(Top[1])) /\ Len(DepsOf(Top[1])) \in Nat
  BY <1>1, DepsFacts DEF SearchInv, Descend
<1>3. DepsOf(Top[1])[Top[2]] \in NamesUsed
  BY <1>1, <1>2, DepsFacts DEF SearchInv
<1> QED BY <1>1, <1>2, <1>3, DepsFacts DEF SearchInv

\* A dependency that is finalised is passed.
LEMMA SkipKeeps ==
  ASSUME DagTypeOK, SearchInv, Descend, stack' = Bump, state' = state,
         state[DepsOf(Top[1])[Top[2]]] = Visited
  PROVE  SearchInv' /\ stack' \in Seq(Frame)
<1> DEFINE n == Len(stack)
           dep == DepsOf(Top[1])[Top[2]]
<1>1. /\ n \in Nat /\ n \in 1 .. n /\ Top = stack[n]
      /\ stack' \in Seq(Frame) /\ Len(stack') = n
      /\ stack'[n] = <<Top[1], Top[2] + 1>>
      /\ \A i \in 1 .. n : i # n => stack'[i] = stack[i]
  BY StackFacts, BumpFacts DEF Descend
<1>2. input' = input /\ next' = next /\ state' = state
  BY DEF Descend
<1>3. \A i \in 1 .. n : stack'[i][1] = stack[i][1]
  BY <1>1
<1>4. StackIsPath'
  <2>1. ASSUME NEW i \in 1 .. n
        PROVE  /\ stack'[i][1] \in NamesUsed'
               /\ state'[stack'[i][1]] = Visiting
               /\ stack'[i][2] <= Len(DepsOf(stack'[i][1])) + 1
    <3>1. stack'[i][2] <= Len(DepsOf(stack[i][1])) + 1
      <4>1. CASE i = n
        BY <1>1, <4>1, NextDep DEF Descend
      <4>2. CASE i # n
        BY <1>1, <4>2 DEF SearchInv, StackIsPath
      <4> QED BY <4>1, <4>2
    <3> QED BY <1>2, <1>3, <3>1, SameInput DEF SearchInv, StackIsPath
  <2>2. ASSUME NEW m \in Names, state'[m] = Visiting
        PROVE  \E i \in 1 .. n : stack'[i][1] = m
    <3>1. state[m] = Visiting
      BY <1>2, <2>2
    <3>2. \E i \in 1 .. n : stack[i][1] = m
      BY <3>1, PathFacts
    <3> QED BY <1>3, <3>2
  <2>3. ASSUME NEW i \in 1 .. n, NEW j \in 1 .. n, stack'[i][1] = stack'[j][1]
        PROVE  i = j
    <3>1. stack[i][1] = stack[j][1]
      BY <1>3, <2>3
    <3> QED BY <3>1, PathFacts
  <2>4. ASSUME NEW i \in 1 .. n - 1
        PROVE  stack'[i][2] >= 2 /\ Entered(i)' = stack'[i + 1][1]
    <3>1. i \in 1 .. n /\ i # n /\ i + 1 \in 1 .. n
      BY <1>1
    <3>2. stack[i][2] >= 2 /\ Entered(i) = stack[i + 1][1]
      BY DEF SearchInv, StackIsPath
    <3> QED BY <1>1, <1>2, <1>3, <3>1, <3>2, SameInput DEF Entered
  <2> HIDE DEF n
  <2>5. Len(stack') = n
    BY <1>1
  <2>6. \A i : DepsOf(stack'[i][1]) = DepsOf(stack[i][1])'
    BY <1>2, SameInput
  <2> QED BY <2>1, <2>2, <2>3, <2>4, <2>5, <2>6 DEF StackIsPath
<1>5. PassedAreVisited'
  <2> SUFFICES ASSUME NEW i \in 1 .. n, NEW k \in 1 .. Passed(i)'
               PROVE  state[DepsOf(stack[i][1])[k]] = Visited
    BY <1>1, <1>2, <1>3, SameInput DEF PassedAreVisited
  <2>1. CASE i # n
    BY <1>1, <2>1 DEF Passed, SearchInv, PassedAreVisited
  <2>2. CASE i = n
    <3>1. Passed(i)' = Top[2] /\ Passed(i) = Top[2] - 1 /\ Top[2] \in Nat
      BY <1>1, <2>2, NextDep DEF Passed
    <3>2. CASE k = Top[2]
      BY <1>1, <2>2, <3>2
    <3>3. CASE k # Top[2]
      <4>1. k \in 1 .. Passed(i)
        BY <3>1, <3>3
      <4> QED BY <4>1 DEF SearchInv, PassedAreVisited
    <3> QED BY <3>2, <3>3
  <2> QED BY <2>1, <2>2
<1>6. VisitedAreSound'
  BY <1>2, SameInput DEF SearchInv, VisitedAreSound, Colour
<1>7. NextIsReached'
  BY <1>2, SameInput DEF SearchInv, NextIsReached
<1> QED BY <1>1, <1>2, <1>4, <1>5, <1>6, <1>7, SameInput DEF SearchInv

\* A white name turned grey: nothing finalised and nothing reached changes.
LEMMA GreyKeeps ==
  ASSUME DagTypeOK, SearchInv, NEW m \in Names, state[m] = Unvisited,
         input' = input, state' = [state EXCEPT ![m] = Visiting]
  PROVE  /\ VisitedAreSound'
         /\ state'[m] = Visiting
         /\ \A u \in Names : u # m => state'[u] = state[u]
         /\ \A i \in 1 .. next : state'[Nodes[i].name] # Unvisited
<1>1. /\ state'[m] = Visiting
      /\ \A u \in Names : u # m => state'[u] = state[u]
  BY DEF DagTypeOK
<1>2. Colour' = Colour
  BY <1>1 DEF Colour, Unvisited, Visiting, Visited
<1>3. VisitedAreSound'
  BY <1>2, SameInput DEF SearchInv, VisitedAreSound
<1>4. ASSUME NEW i \in 1 .. next PROVE state'[Nodes[i].name] # Unvisited
  <2>1. i \in Index
    BY DEF DagTypeOK, Index
  <2>2. Nodes[i].name \in NamesUsed
    BY <2>1 DEF NamesUsed
  <2>3. Nodes[i].name \in Names
    BY <2>2, DepsFacts DEF SearchInv
  <2> QED BY <1>1, <2>3 DEF SearchInv, NextIsReached, Unvisited, Visiting
<1> QED BY <1>1, <1>3, <1>4

\* A white dependency is entered and lengthens the path.
LEMMA EnterKeeps ==
  ASSUME DagTypeOK, SearchInv, Descend,
         state[DepsOf(Top[1])[Top[2]]] = Unvisited,
         state' = [state EXCEPT ![DepsOf(Top[1])[Top[2]]] = Visiting],
         stack' = Append(Bump, <<DepsOf(Top[1])[Top[2]], 1>>)
  PROVE  SearchInv' /\ stack' \in Seq(Frame)
<1> DEFINE n == Len(stack)
           dep == DepsOf(Top[1])[Top[2]]
<1>1. /\ n \in Nat /\ n \in 1 .. n /\ Top = stack[n]
      /\ Bump \in Seq(Frame) /\ Len(Bump) = n
      /\ Bump[n] = <<Top[1], Top[2] + 1>>
      /\ \A i \in 1 .. n : i # n => Bump[i] = stack[i]
  BY StackFacts, BumpFacts DEF Descend
<1>2. dep \in NamesUsed /\ dep \in Names /\ Top[2] \in Nat \ {0}
  BY NextDep
<1>3. /\ stack' \in Seq(Frame) /\ Len(stack') = n + 1
      /\ stack'[n + 1] = <<dep, 1>>
      /\ \A i \in 1 .. n : stack'[i] = Bump[i]
  <2>1. <<dep, 1>> \in Frame
    BY <1>2 DEF Frame
  <2> HIDE DEF dep
  <2>2. stack' = Append(Bump, <<dep, 1>>)
    BY DEF dep
  <2> DEFINE A == Append(Bump, <<dep, 1>>)
  <2>3. Bump \in Seq(Frame) /\ n \in Nat /\ n = Len(Bump)
    BY <1>1
  <2> HIDE DEF n
  <2>4. A \in Seq(Frame) /\ Len(A) = n + 1
    BY <2>1, <2>3, PushFacts
  <2>5. A[n + 1] = <<dep, 1>>
    BY <2>1, <2>3, PushFacts
  <2>6. \A i \in 1 .. n : A[i] = Bump[i]
    BY <2>1, <2>3, PushFacts
  <2> HIDE DEF A
  <2>7. stack' = A
    BY <2>2 DEF A
  <2> QED BY <2>4, <2>5, <2>6, <2>7
<1>4. \A i \in 1 .. n : stack'[i][1] = stack[i][1]
  BY <1>1, <1>3
<1>5. /\ VisitedAreSound' /\ state'[dep] = Visiting
      /\ \A u \in Names : u # dep => state'[u] = state[u]
      /\ \A i \in 1 .. next : state'[Nodes[i].name] # Unvisited
      /\ input' = input /\ next' = next
  BY <1>2, GreyKeeps DEF Descend
<1>6. \A i \in 1 .. n : stack[i][1] # dep /\ stack[i][1] \in Names
  <2>1. \A i \in 1 .. n : stack[i][1] \in Names
    BY StackFacts
  <2>2. \A i \in 1 .. n : state[stack[i][1]] = Visiting
    BY DEF SearchInv, StackIsPath
  <2>3. state[dep] # Visiting
    BY DEF Unvisited, Visiting
  <2> QED BY <2>1, <2>2, <2>3
<1>7. StackIsPath'
  <2>1. ASSUME NEW i \in 1 .. n + 1
        PROVE  /\ stack'[i][1] \in NamesUsed'
               /\ state'[stack'[i][1]] = Visiting
               /\ stack'[i][2] <= Len(DepsOf(stack'[i][1])) + 1
    <3>1. CASE i = n + 1
      <4>1. Len(DepsOf(dep)) \in Nat
        BY <1>2, DepsFacts DEF SearchInv
      <4> QED BY <1>2, <1>3, <1>5, <3>1, <4>1, SameInput
    <3>2. CASE i # n + 1
      <4>1. i \in 1 .. n
        BY <1>1, <3>2
      <4>2. stack'[i][2] <= Len(DepsOf(stack[i][1])) + 1
        <5>1. CASE i = n
          BY <1>1, <1>3, <5>1, NextDep DEF Descend
        <5>2. CASE i # n
          BY <1>1, <1>3, <4>1, <5>2 DEF SearchInv, StackIsPath
        <5> QED BY <5>1, <5>2
      <4>3. state'[stack[i][1]] = Visiting /\ stack[i][1] \in NamesUsed
        BY <1>5, <1>6, <4>1 DEF SearchInv, StackIsPath
      <4> QED BY <1>4, <1>5, <4>1, <4>2, <4>3, SameInput
    <3> QED BY <3>1, <3>2
  <2>2. ASSUME NEW m \in Names, state'[m] = Visiting
        PROVE  \E i \in 1 .. n + 1 : stack'[i][1] = m
    <3>1. CASE m = dep
      BY <1>1, <1>3, <3>1
    <3>2. CASE m # dep
      <4>1. PICK i \in 1 .. n : stack[i][1] = m
        BY <1>5, <2>2, <3>2 DEF SearchInv, StackIsPath
      <4> QED BY <1>1, <1>4, <4>1
    <3> QED BY <3>1, <3>2
  <2>3. ASSUME NEW i \in 1 .. n + 1, NEW j \in 1 .. n + 1,
               stack'[i][1] = stack'[j][1]
        PROVE  i = j
    <3>1. CASE i = n + 1
      <4>1. stack'[i][1] = dep /\ (j # n + 1 => j \in 1 .. n)
        BY <1>1, <1>3, <3>1
      <4> QED BY <1>4, <1>6, <2>3, <3>1, <4>1
    <3>2. CASE j = n + 1
      <4>1. stack'[j][1] = dep /\ (i # n + 1 => i \in 1 .. n)
        BY <1>1, <1>3, <3>2
      <4> QED BY <1>4, <1>6, <2>3, <3>2, <4>1
    <3>3. CASE i # n + 1 /\ j # n + 1
      <4>1. i \in 1 .. n /\ j \in 1 .. n
        BY <1>1, <3>3
      <4> QED BY <1>4, <2>3, <4>1 DEF SearchInv, StackIsPath
    <3> QED BY <3>1, <3>2, <3>3
  <2>4. ASSUME NEW i \in 1 .. (n + 1) - 1
        PROVE  stack'[i][2] >= 2 /\ Entered(i)' = stack'[i + 1][1]
    <3>1. CASE i = n
      <4>1. stack'[i] = <<Top[1], Top[2] + 1>> /\ (Top[2] + 1) - 1 = Top[2]
        BY <1>1, <1>2, <1>3, <3>1
      <4>2. Entered(i)' = DepsOf(Top[1])[Top[2]]
        <5>1. stack'[i][1] = Top[1] /\ stack'[i][2] = Top[2] + 1
          BY <1>1, <1>2, <1>3, <3>1
        <5>2. Entered(i)' = DepsOf(stack'[i][1])[stack'[i][2] - 1]
          BY <1>5, SameInput DEF Entered
        <5> QED BY <4>1, <5>1, <5>2
      <4> QED BY <1>2, <1>3, <3>1, <4>1, <4>2
    <3>2. CASE i # n
      <4>1. i \in 1 .. n - 1 /\ i \in 1 .. n /\ i + 1 \in 1 .. n
        BY <1>1, <3>2
      <4>2. stack[i][2] >= 2 /\ Entered(i) = stack[i + 1][1]
        BY <4>1 DEF SearchInv, StackIsPath
      <4> QED BY <1>1, <1>3, <1>4, <1>5, <3>2, <4>1, <4>2, SameInput DEF Entered
    <3> QED BY <3>1, <3>2
  <2> HIDE DEF n, dep
  <2>5. Len(stack') = n + 1
    BY <1>3
  <2>6. \A i : DepsOf(stack'[i][1]) = DepsOf(stack[i][1])'
    BY <1>5, SameInput
  <2> QED BY <2>1, <2>2, <2>3, <2>4, <2>5, <2>6 DEF StackIsPath
<1>8. PassedAreVisited'
  <2> SUFFICES ASSUME NEW i \in 1 .. n + 1, NEW k \in 1 .. Passed(i)'
               PROVE  state'[DepsOf(stack'[i][1])[k]] = Visited
    BY <1>3, <1>5, SameInput DEF PassedAreVisited
  <2>1. i # n + 1
    BY <1>1, <1>3 DEF Passed
  <2>2. i \in 1 .. n /\ stack'[i][1] = stack[i][1]
    BY <1>1, <1>4, <2>1
  <2>3. stack[i][1] \in NamesUsed /\ stack[i][2] \in Nat
    BY <2>2, StackFacts
  <2>4. Passed(i)' = Passed(i) /\ Passed(i) <= Len(DepsOf(stack[i][1]))
    <3>1. Len(DepsOf(stack[i][1])) \in Nat
      BY <2>3, DepsFacts DEF SearchInv
    <3>2. stack[i][2] <= Len(DepsOf(stack[i][1])) + 1
      BY <2>2 DEF SearchInv, StackIsPath
    <3>3. Passed(i) <= Len(DepsOf(stack[i][1]))
      <4> DEFINE x == stack[i][2]
                 len == Len(DepsOf(stack[i][1]))
      <4>1. x \in Nat /\ len \in Nat /\ x <= len + 1 /\ Passed(i) \in {x - 1, x - 2}
        BY <2>3, <3>1, <3>2 DEF Passed
      <4> HIDE DEF x, len
      <4>2. Passed(i) <= len
        BY <4>1
      <4> QED BY <4>2 DEF len
    <3>4. Passed(i)' = Passed(i)
      <4>1. CASE i = n
        <5>1. stack[i][2] = Top[2] /\ stack'[i][2] = Top[2] + 1
          BY <1>1, <1>3, <4>1
        <5> QED BY <1>1, <1>2, <1>3, <4>1, <5>1 DEF Passed
      <4>2. CASE i # n
        <5>1. stack'[i] = stack[i] /\ i < n /\ i < n + 1
          BY <1>1, <1>3, <2>2, <4>2
        <5> QED BY <1>3, <5>1 DEF Passed
      <4> QED BY <4>1, <4>2
    <3> QED BY <3>3, <3>4
  <2>5. state[DepsOf(stack[i][1])[k]] = Visited
    BY <2>2, <2>4 DEF SearchInv, PassedAreVisited
  <2>6. k \in 1 .. Len(DepsOf(stack[i][1]))
    <3>1. Len(DepsOf(stack[i][1])) \in Nat
      BY <2>3, DepsFacts DEF SearchInv
    <3>2. Passed(i) \in Int
      BY <2>3 DEF Passed
    <3> QED BY <2>4, <3>1, <3>2
  <2>7. DepsOf(stack[i][1])[k] \in Names
    <3>1. DepsOf(stack[i][1])[k] \in NamesUsed
      BY <2>3, <2>6, DepsFacts DEF SearchInv
    <3> QED BY <3>1, DepsFacts DEF SearchInv
  <2> DEFINE d == DepsOf(stack[i][1])[k]
  <2>8. d # dep
    BY <2>5 DEF Unvisited, Visited
  <2>9. state'[d] = Visited
    BY <1>5, <2>5, <2>7, <2>8
  <2> QED BY <2>2, <2>9
<1>9. NextIsReached'
  BY <1>5, SameInput DEF NextIsReached
<1> QED BY <1>3, <1>5, <1>7, <1>8, <1>9, SameInput DEF SearchInv

\* A node of the list is taken up, or has been reached already.
LEMMA StartKeeps ==
  ASSUME DagTypeOK, SearchInv, StartFrom
  PROVE  SearchInv' /\ stack' \in Seq(Frame)
<1> DEFINE m == Nodes[next + 1].name
<1>1. /\ stack = <<>> /\ input' = input /\ next' = next + 1
      /\ next \in Nat /\ next + 1 \in Index
  BY DagAssumption DEF DagAssumption, StartFrom, DagTypeOK, Index, Nodes
<1>2. m \in NamesUsed /\ m \in Names
  <2>1. m \in NamesUsed
    BY <1>1 DEF NamesUsed
  <2> QED BY <2>1, DepsFacts DEF SearchInv
<1>3. CASE state[m] # Unvisited
  <2>1. state' = state /\ stack' = stack
    BY <1>3 DEF StartFrom
  <2>2. \A i \in 1 .. next' : state'[Nodes[i].name] # Unvisited
    BY <1>1, <1>3, <2>1 DEF SearchInv, NextIsReached
  <2>3. NextIsReached'
    BY <1>1, <2>2, SameInput DEF NextIsReached
  <2>4. StackIsPath' /\ PassedAreVisited'
    BY <1>1, <2>1, SameInput
    DEF SearchInv, StackIsPath, PassedAreVisited, Entered, Passed
  <2>5. VisitedAreSound'
    BY <1>1, <2>1, SameInput DEF SearchInv, VisitedAreSound, Colour
  <2>6. stack' \in Seq(Frame)
    BY <2>1, StackFacts
  <2> QED BY <1>1, <2>3, <2>4, <2>5, <2>6, SameInput DEF SearchInv
<1>4. CASE state[m] = Unvisited
  <2>1. state' = [state EXCEPT ![m] = Visiting] /\ stack' = Append(stack, <<m, 1>>)
    BY <1>4 DEF StartFrom, Push
  <2>2. /\ VisitedAreSound' /\ state'[m] = Visiting
        /\ \A u \in Names : u # m => state'[u] = state[u]
        /\ \A i \in 1 .. next : state'[Nodes[i].name] # Unvisited
    BY <1>1, <1>2, <1>4, <2>1, GreyKeeps
  <2>3. stack' \in Seq(Frame) /\ Len(stack') = 1 /\ stack'[1] = <<m, 1>>
    <3>1. <<m, 1>> \in Frame /\ stack \in Seq(Frame) /\ Len(stack) = 0
      BY <1>1, <1>2, StackFacts DEF Frame
    <3> HIDE DEF m
    <3> QED BY <2>1, <3>1, AppendProperties
  <2>4. \A u \in Names : state'[u] = Visiting => u = m
    BY <1>1, <2>2 DEF SearchInv, StackIsPath
  <2>5. Len(DepsOf(m)) \in Nat
    BY <1>2, DepsFacts DEF SearchInv
  <2>6. StackIsPath'
    BY <1>1, <1>2, <2>2, <2>3, <2>4, <2>5, SameInput DEF StackIsPath
  <2>7. PassedAreVisited'
    BY <2>3 DEF PassedAreVisited, Passed
  <2>8. NextIsReached'
    <3>1. \A i \in 1 .. next' : state'[Nodes[i].name] # Unvisited
      BY <1>1, <2>2 DEF Unvisited, Visiting
    <3> QED BY <1>1, <3>1, SameInput DEF NextIsReached
  <2> QED BY <1>1, <2>2, <2>3, <2>6, <2>7, <2>8, SameInput DEF SearchInv
<1> QED BY <1>3, <1>4

\* A search that is not touched keeps its invariant.
LEMMA SameSearch ==
  ASSUME SearchInv, UNCHANGED <<input, next, state, stack>>
  PROVE  SearchInv'
<1>1. /\ Colour' = Colour /\ \A i : Entered(i)' = Entered(i)
      /\ \A i : Passed(i)' = Passed(i)
  BY SameInput DEF Colour, Entered, Passed
<1> QED BY <1>1, SameInput
    DEF SearchInv, StackIsPath, PassedAreVisited, VisitedAreSound, NextIsReached

\* A search that has not begun satisfies its invariant.
LEMMA FreshSearch ==
  ASSUME WellFormed, stack = <<>>, next = 0, state = [n \in Names |-> Unvisited],
         DagTypeOK
  PROVE  SearchInv
<1>1. StackIsPath /\ PassedAreVisited /\ NextIsReached
  BY DEF StackIsPath, PassedAreVisited, NextIsReached, Unvisited, Visiting
<1>2. Colour = {}
  BY DEF Colour, Unvisited, Visited
<1>3. VisitedAreSound
  BY <1>2 DEF VisitedAreSound, Deadlocked
<1> QED BY <1>1, <1>3 DEF SearchInv

\* When all nodes are behind the loop, the finalised ones are all there are.
LEMMA AllFinalised ==
  ASSUME DagTypeOK, SearchInv, AllSearched
  PROVE  \A S \in SUBSET NamesUsed : ~Deadlocked(S)
<1>1. ASSUME NEW n \in NamesUsed PROVE n \in Colour
  <2>1. PICK i \in Index : Nodes[i].name = n
    BY DEF NamesUsed
  <2>2. n \in Names /\ state[n] # Unvisited
    BY <1>1, <2>1, DepsFacts DEF SearchInv, NextIsReached, AllSearched, Index
  <2>3. state[n] # Visiting
    BY <2>2 DEF SearchInv, StackIsPath, AllSearched
  <2> QED BY <2>2, <2>3 DEF Colour, DagTypeOK
<1> QED BY <1>1 DEF SearchInv, VisitedAreSound

-----------------------------------------------------------------------------
(* The invariant holds at the start and is kept by every step *)

\* Nothing is screened or reached at the start.
LEMMA DagInitInv == DagInit => DagInv
<1> SUFFICES ASSUME DagInit PROVE DagInv
  OBVIOUS
<1>1. Len(Nodes) \in Nat
  BY DagAssumption DEF DagAssumption, DagInit, Nodes
<1>2. DagTypeOK
  <2>1. stack \in Seq(Names \X (Nat \ {0})) /\ next \in 0 .. Len(Nodes)
    BY <1>1 DEF DagInit
  <2>2. state \in [Names -> {Unvisited, Visiting, Visited}]
    BY DEF DagInit
  <2> QED BY <2>1, <2>2, Zenon DEF DagInit, DagTypeOK
<1> QED BY <1>2 DEF DagInit, DagInv, Searching, AcceptedIsAcyclic, CircularIsCyclic

\* The verdict is only left pending by a step that is sure of it.
LEMMA DagStepInv == DagInv /\ [DagNext]_dagVars => DagInv'
<1> SUFFICES ASSUME DagInv, [DagNext]_dagVars PROVE DagInv'
  OBVIOUS
<1>1. DagTypeOK /\ (Searching => SearchInv) /\ Len(Nodes) \in Nat
  BY DagAssumption DEF DagInv, DagAssumption, DagTypeOK, Nodes
<1>2. CASE Screen
  <2>1. /\ UNCHANGED <<input, next, state, stack>>
        /\ stack = <<>> /\ next = 0 /\ state = [n \in Names |-> Unvisited]
    BY <1>2 DEF Screen, DagInv
  <2>2. DagTypeOK'
    BY <1>1, <1>2, <2>1 DEF Screen, DagTypeOK, Nodes
  <2>3. WellFormed => SearchInv'
    BY <1>1, <2>1, FreshSearch, SameSearch
  <2> QED BY <1>2, <2>1, <2>2, <2>3
       DEF Screen, DagInv, Searching, AcceptedIsAcyclic, CircularIsCyclic
<1>3. ASSUME Searching, SearchInv', stack' \in Seq(Frame), verdict' = verdict,
             UNCHANGED <<input, screened>>, next' \in 0 .. Len(Nodes),
             state' \in [Names -> {Unvisited, Visiting, Visited}]
      PROVE  DagInv'
  <2>1. DagTypeOK'
    BY <1>1, <1>3, SameInput DEF DagTypeOK, Frame
  <2> QED BY <1>3, <2>1
       DEF DagInv, Searching, AcceptedIsAcyclic, CircularIsCyclic
<1>4. CASE StartFrom
  <2>1. /\ Searching /\ verdict' = verdict /\ UNCHANGED <<input, screened>>
        /\ next' \in 0 .. Len(Nodes)
        /\ state' \in [Names -> {Unvisited, Visiting, Visited}]
    BY <1>1, <1>4 DEF StartFrom, Push, DagTypeOK
  <2> QED BY <1>1, <1>3, <1>4, <2>1, StartKeeps
<1>5. CASE Finalise
  <2>1. /\ Searching /\ verdict' = verdict /\ UNCHANGED <<input, screened>>
        /\ next' \in 0 .. Len(Nodes)
        /\ state' \in [Names -> {Unvisited, Visiting, Visited}]
    BY <1>1, <1>5 DEF Finalise, DagTypeOK
  <2> QED BY <1>1, <1>3, <1>5, <2>1, FinaliseKeeps
<1>6. CASE Descend
  <2> DEFINE dep == DepsOf(Top[1])[Top[2]]
  <2>1. /\ Searching /\ SearchInv /\ UNCHANGED <<input, screened, next>>
        /\ next' \in 0 .. Len(Nodes)
    BY <1>1, <1>6 DEF Descend, DagTypeOK
  <2>2. CASE state[dep] = Visited /\ stack' = Bump /\ UNCHANGED <<state, verdict>>
    BY <1>1, <1>3, <1>6, <2>1, <2>2, SkipKeeps DEF DagTypeOK
  <2>3. CASE /\ state[dep] = Unvisited
             /\ state' = [state EXCEPT ![dep] = Visiting]
             /\ stack' = Append(Bump, <<dep, 1>>)
             /\ UNCHANGED verdict
    <3>1. state' \in [Names -> {Unvisited, Visiting, Visited}]
      BY <1>1, <2>3 DEF DagTypeOK
    <3> QED BY <1>1, <1>3, <1>6, <2>1, <2>3, <3>1, EnterKeeps
  <2>4. CASE /\ state[dep] = Visiting /\ verdict' = "Circular"
             /\ stack' = Bump /\ UNCHANGED state
    <3>1. \E S \in SUBSET NamesUsed : Deadlocked(S)
      BY <1>1, <1>6, <2>1, <2>4, CycleFound DEF Descend
    <3>2. CircularIsCyclic'
      BY <2>1, <3>1, SameInput DEF CircularIsCyclic
    <3>3. stack' \in Seq(Frame)
      <4>1. stack # <<>> /\ Len(stack) \in Nat
        BY <1>1, <1>6, <2>1, StackFacts DEF Descend
      <4> QED BY <1>1, <2>1, <2>4, <4>1, BumpFacts
    <3>4. DagTypeOK'
      BY <1>1, <2>1, <2>4, <3>3, SameInput DEF DagTypeOK, Frame
    <3> QED BY <2>1, <2>4, <3>2, <3>4 DEF DagInv, Searching, AcceptedIsAcyclic
  <2> QED BY <1>6, <2>2, <2>3, <2>4 DEF Descend, Visit
<1>7. CASE AllSearched
  <2>1. /\ Searching /\ verdict' = "accepted"
        /\ UNCHANGED <<input, screened, next, state, stack>>
    BY <1>7 DEF AllSearched
  <2>2. AcceptedIsAcyclic'
    BY <1>1, <1>7, <2>1, AllFinalised, SameInput DEF AcceptedIsAcyclic
  <2>3. DagTypeOK'
    BY <1>1, <2>1, SameInput DEF DagTypeOK
  <2> QED BY <2>1, <2>2, <2>3 DEF DagInv, Searching, CircularIsCyclic
<1>8. CASE UNCHANGED dagVars
  <2>1. UNCHANGED <<input, verdict, screened, next, state, stack>>
    BY <1>8 DEF dagVars
  <2>2. SearchInv => SearchInv'
    BY <2>1, SameSearch
  <2>3. DagTypeOK'
    BY <1>1, <2>1, SameInput DEF DagTypeOK
  <2> QED BY <2>1, <2>2, <2>3, SameInput
       DEF DagInv, Searching, AcceptedIsAcyclic, CircularIsCyclic
<1> QED BY <1>2, <1>4, <1>5, <1>6, <1>7, <1>8 DEF DagNext

-----------------------------------------------------------------------------
(* The theorems *)

\* The invariant holds in every reachable state of validate() called by
\* run_dag: the other steps leave the search alone.
THEOREM Invariance == Spec => []DagInv
<1>1. Init => DagInit
  BY DEF Init
<1>2. [Next]_vars => [DagNext]_dagVars
  <2> SUFFICES ASSUME [Next]_vars PROVE [DagNext]_dagVars
    OBVIOUS
  <2>1. CASE UNCHANGED vars
    BY <2>1 DEF vars
  <2>2. CASE Validate
    BY <2>2 DEF Validate
  <2>3. CASE Validated \/ AddLayer \/ LayersDone \/ Collect
    BY <2>3 DEF Validated, AddLayer, LayersDone, Collect
  <2>4. ASSUME NEW i \in Index, Answer(i) PROVE UNCHANGED dagVars
    BY <2>4 DEF Answer
  <2> QED BY <2>1, <2>2, <2>3, <2>4 DEF Next
<1> QED BY <1>1, <1>2, DagInitInv, DagStepInv, PTL DEF Spec

\* Whatever DAGInput::validate accepts has no cycle.
THEOREM AcceptedHasNoCycle == Spec => []AcceptedIsAcyclic
<1>1. DagInv => AcceptedIsAcyclic
  BY DEF DagInv
<1> QED BY <1>1, Invariance, PTL

\* Whatever it rejects as circular has one.
THEOREM CircularHasCycle == Spec => []CircularIsCyclic
<1>1. DagInv => CircularIsCyclic
  BY DEF DagInv
<1> QED BY <1>1, Invariance, PTL

-----------------------------------------------------------------------------
(* Lemmas about finite sets of indices *)

\* A set of naturals that is not empty has a least element.
LEMMA LeastExists ==
  ASSUME NEW S \in SUBSET Nat, S # {}
  PROVE  \E x \in S : \A y \in S : x <= y
<1>1. OpToRel(<, Nat) = {p \in Nat \X Nat : p[1] < p[2]}
  BY DEF OpToRel
<1>2. PICK x \in S : \A y \in S : ~ (<<y, x>> \in {p \in Nat \X Nat : p[1] < p[2]})
  <2>1. \E x \in S : \A y \in S : ~ (<<y, x>> \in OpToRel(<, Nat))
    BY NatLessThanWellFounded, WFMin, Zenon
  <2> QED BY <1>1, <2>1, Zenon
<1>3. ASSUME NEW y \in S PROVE x <= y
  <2>1. x \in Nat /\ y \in Nat /\ <<y, x>> \in Nat \X Nat
    OBVIOUS
  <2> QED BY <1>2, <2>1
<1> QED BY <1>3

\* A set of indices that is not empty has a greatest one.
LEMMA GreatestExists ==
  ASSUME NEW n \in Nat, NEW S \in SUBSET (1 .. n), S # {}
  PROVE  \E x \in S : \A y \in S : y <= x
<1> DEFINE T == {n - x : x \in S}
<1>1. T \in SUBSET Nat /\ T # {}
  <2>1. \A x \in S : n - x \in Nat
    OBVIOUS
  <2> QED BY <2>1
<1>2. PICK d \in T : \A e \in T : d <= e
  BY <1>1, LeastExists
<1>3. PICK x \in S : d = n - x
  OBVIOUS
<1>4. ASSUME NEW y \in S PROVE y <= x
  <2>1. d <= n - y
    BY <1>2
  <2> QED BY <1>3, <2>1
<1> QED BY <1>4

LEMMA IndicesAreFinite ==
  ASSUME NEW n \in Nat, NEW S \in SUBSET (1 .. n)
  PROVE  IsFiniteSet(S) /\ Cardinality(S) \in Nat
<1>1. IsFiniteSet(1 .. n)
  BY FS_Interval
<1>2. IsFiniteSet(S)
  BY <1>1, FS_Subset
<1> QED BY <1>2, FS_CardinalityType

Increasing(s) == \A a, b \in DOMAIN s : a < b => s[a] < s[b]

\* Every set of indices can be listed in ascending order; a least one that
\* cannot is listed by its other elements and its greatest.
LEMMA Enumerated ==
  ASSUME NEW n \in Nat
  PROVE  \A S \in SUBSET (1 .. n) : \E s \in [1 .. Cardinality(S) -> S] : Increasing(s)
<1> DEFINE Listed(S) == \E s \in [1 .. Cardinality(S) -> S] : Increasing(s)
           Bad == {Cardinality(S) : S \in {R \in SUBSET (1 .. n) : ~Listed(R)}}
<1> SUFFICES ASSUME Bad # {} PROVE FALSE
  OBVIOUS
<1>1. Bad \in SUBSET Nat
  BY IndicesAreFinite
<1> HIDE DEF Listed
<1>2. PICK c \in Bad : \A d \in Bad : c <= d
  BY <1>1, LeastExists
<1>3. PICK S \in SUBSET (1 .. n) : ~Listed(S) /\ Cardinality(S) = c
  BY <1>2
<1>4. S # {}
  <2> SUFFICES ASSUME S = {} PROVE FALSE
    OBVIOUS
  <2>1. Cardinality(S) = 0
    BY FS_EmptySet
  <2> DEFINE s == [i \in 1 .. 0 |-> i]
  <2>2. s \in [1 .. 0 -> S] /\ Increasing(s)
    BY DEF Increasing
  <2> QED BY <1>3, <2>1, <2>2 DEF Listed
<1>5. PICK m \in S : \A y \in S : y <= m
  BY <1>4, GreatestExists
<1> DEFINE T == S \ {m}
<1>6. Cardinality(T) = c - 1 /\ c \in Nat /\ c >= 1
  <2>1. IsFiniteSet(S) /\ c \in Nat
    BY <1>3, IndicesAreFinite
  <2>2. Cardinality(T) = c - 1
    BY <1>3, <2>1, FS_RemoveElement
  <2>3. Cardinality(T) \in Nat
    BY IndicesAreFinite
  <2> QED BY <2>1, <2>2, <2>3
<1>7. Listed(T)
  <2> SUFFICES ASSUME ~Listed(T) PROVE FALSE
    OBVIOUS
  <2>1. T \in SUBSET (1 .. n)
    OBVIOUS
  <2>2. Cardinality(T) \in Bad
    BY <2>1
  <2>3. c <= Cardinality(T)
    BY <1>2, <2>2
  <2> QED BY <1>6, <2>3
<1>8. PICK s \in [1 .. c - 1 -> T] : Increasing(s)
  BY <1>6, <1>7 DEF Listed
<1> DEFINE t == [i \in 1 .. c |-> IF i = c THEN m ELSE s[i]]
<1>9. t \in [1 .. c -> S]
  BY <1>6, <1>8
<1>10. Increasing(t)
  <2> SUFFICES ASSUME NEW a \in 1 .. c, NEW b \in 1 .. c, a < b PROVE t[a] < t[b]
    BY DEF Increasing
  <2>1. a \in 1 .. c - 1 /\ t[a] = s[a] /\ s[a] \in T
    BY <1>6, <1>8
  <2>2. CASE b = c
    <3>1. s[a] \in S /\ s[a] # m /\ s[a] <= m
      BY <1>5, <2>1
    <3>2. s[a] \in 1 .. n /\ m \in 1 .. n
      BY <3>1
    <3> QED BY <2>1, <2>2, <3>1, <3>2
  <2>3. CASE b # c
    <3>1. b \in 1 .. c - 1 /\ t[b] = s[b]
      BY <1>6, <2>3
    <3> QED BY <1>8, <2>1, <3>1 DEF Increasing
  <2> QED BY <2>2, <2>3
<1> QED BY <1>3, <1>9, <1>10 DEF Listed

\* InOrder lists each index of a set once, in ascending order.
LEMMA InOrderFacts ==
  ASSUME NEW n \in Nat, NEW S \in SUBSET (1 .. n)
  PROVE  /\ InOrder(S) \in Seq(S) /\ Len(InOrder(S)) = Cardinality(S)
         /\ Increasing(InOrder(S))
         /\ \A a \in 1 .. Len(InOrder(S)) : InOrder(S)[a] \in S
         /\ \A x \in S : \E a \in 1 .. Len(InOrder(S)) : InOrder(S)[a] = x
         /\ \A a, b \in 1 .. Len(InOrder(S)) : InOrder(S)[a] = InOrder(S)[b] => a = b
<1> DEFINE s == InOrder(S)
           c == Cardinality(S)
<1>1. c \in Nat /\ IsFiniteSet(S)
  BY IndicesAreFinite
<1>2. s \in [1 .. c -> S] /\ Increasing(s)
  <2>1. \E r \in [1 .. c -> S] : \A a, b \in DOMAIN r : a < b => r[a] < r[b]
    BY Enumerated DEF Increasing
  <2> QED BY <2>1 DEF InOrder, Increasing
<1> HIDE DEF s
<1>3. \A a, b \in 1 .. c : s[a] = s[b] => a = b
  <2> SUFFICES ASSUME NEW a \in 1 .. c, NEW b \in 1 .. c, s[a] = s[b], a # b PROVE FALSE
    OBVIOUS
  <2>1. s[a] \in S /\ s[b] \in S
    BY <1>2
  <2>2. s[a] \in 1 .. n /\ s[b] \in 1 .. n
    BY <2>1
  <2>3. a < b \/ b < a
    BY <1>1
  <2>4. s[a] < s[b] \/ s[b] < s[a]
    <3>1. DOMAIN s = 1 .. c
      BY <1>2
    <3> QED BY <1>2, <2>3, <3>1 DEF Increasing
  <2> QED BY <2>4, <2>2
<1>4. s \in Injection(1 .. c, S)
  BY <1>2, <1>3 DEF Injection, IsInjective
<1>5. s \in Surjection(1 .. c, S)
  <2>1. Cardinality(1 .. c) = c
    BY <1>1, FS_Interval
  <2> QED BY <1>1, <1>4, <2>1, FS_Injection
<1>6. \A x \in S : \E a \in 1 .. c : s[a] = x
  BY <1>5 DEF Surjection
<1>7. s \in Seq(S) /\ Len(s) = c
  BY <1>1, <1>2
<1>8. \A a \in 1 .. c : s[a] \in S
  BY <1>2
<1> QED BY <1>2, <1>3, <1>6, <1>7, <1>8 DEF s

-----------------------------------------------------------------------------
(* The invariant of a run *)

\* The nodes of the first k layers of ls.
Placed(ls, k) == UNION {ls[l] : l \in 1 .. k}

RunTypeOK ==
  /\ phase \in {"validate", "layers", "wave", "returned"}
  /\ layers \in Seq(SUBSET Index)
  /\ wave \in 0 .. Len(layers)
  /\ outcome \in [Index -> Outcomes \union {"none"}]
  /\ records \in Seq(Index)
  /\ result \in {"none", "Ok", "InvalidInput", "PatternStopped"}

\* A layer holds new nodes only, and what they depend on lies in the layers
\* before it.
LayersInv ==
  /\ done = {Nodes[i].name : i \in Placed(layers, Len(layers))}
  /\ \A k \in 1 .. Len(layers) : \A i \in layers[k] :
       /\ i \notin Placed(layers, k - 1)
       /\ \A j \in Index : Depends(i, j) => j \in Placed(layers, k - 1)

\* What the phase says of the rest; by the time waves run every node is placed.
PhaseInv ==
  /\ verdict = "accepted" => WellFormed
  /\ phase \in {"layers", "wave"} => verdict = "accepted"
  /\ phase = "validate" => layers = <<>>
  /\ phase \in {"validate", "layers"} => wave = 0 /\ records = <<>>
  /\ phase = "wave" => wave >= 1 /\ Placed(layers, Len(layers)) = Index
  /\ phase # "returned" => result = "none"

\* The waves before the current one are over, and did not end the run.
WavesInv ==
  /\ started = Placed(layers, wave)
  /\ \A i \in Placed(layers, wave - 1) :
       outcome[i] # "none" /\ (input.failFast => outcome[i] = "ok")

\* Until the answer, the nodes recorded are those of the waves that are over.
RecordsInv ==
  /\ phase # "returned" =>
       {records[a] : a \in DOMAIN records} = Placed(layers, wave - 1)
  /\ RecordsTopological
  /\ AnswerAccounts

RunInv == RunTypeOK /\ LayersInv /\ PhaseInv /\ WavesInv /\ RecordsInv

-----------------------------------------------------------------------------
(* Lemmas about layers *)

LEMMA PlacedFacts ==
  ASSUME NEW I, NEW ls \in Seq(SUBSET I), NEW k \in Nat, k <= Len(ls)
  PROVE  /\ Placed(ls, k) \subseteq I
         /\ k >= 1 => Placed(ls, k) = Placed(ls, k - 1) \union ls[k]
         /\ \A m \in 1 .. k : ls[m] \subseteq Placed(ls, k)
         /\ \A m \in Nat : m <= k => Placed(ls, m - 1) \subseteq Placed(ls, k)
<1>1. \A l \in 1 .. k : ls[l] \subseteq I
  OBVIOUS
<1>2. Placed(ls, k) \subseteq I
  BY <1>1 DEF Placed
<1>3. ASSUME k >= 1 PROVE Placed(ls, k) = Placed(ls, k - 1) \union ls[k]
  <2>1. 1 .. k = (1 .. k - 1) \union {k}
    BY <1>3
  <2> QED BY <2>1 DEF Placed
<1>4. \A m \in 1 .. k : ls[m] \subseteq Placed(ls, k)
  BY DEF Placed
<1>5. ASSUME NEW m \in Nat, m <= k PROVE Placed(ls, m - 1) \subseteq Placed(ls, k)
  <2>1. 1 .. (m - 1) \subseteq 1 .. k
    BY <1>5
  <2> QED BY <2>1 DEF Placed
<1> QED BY <1>2, <1>3, <1>4, <1>5

LEMMA NothingPlaced == ASSUME NEW ls PROVE Placed(ls, 0) = {} /\ Placed(ls, 0 - 1) = {}
<1>1. 1 .. 0 = {} /\ 1 .. (0 - 1) = {}
  OBVIOUS
<1> QED BY <1>1 DEF Placed

LEMMA PlacedAppend ==
  ASSUME NEW T, NEW ls \in Seq(T), NEW L \in T, NEW n \in Nat, n = Len(ls)
  PROVE  /\ Append(ls, L) \in Seq(T) /\ Len(Append(ls, L)) = n + 1
         /\ Append(ls, L)[n + 1] = L
         /\ \A k \in 1 .. n : Append(ls, L)[k] = ls[k]
         /\ \A k \in Int : k <= n => Placed(Append(ls, L), k) = Placed(ls, k)
         /\ Placed(Append(ls, L), n + 1) = Placed(ls, n) \union L
<1> DEFINE t == Append(ls, L)
<1>1. /\ t \in Seq(T) /\ Len(t) = n + 1 /\ t[n + 1] = L
      /\ \A k \in 1 .. n : t[k] = ls[k]
  BY AppendProperties
<1> HIDE DEF t
<1>2. ASSUME NEW k \in Int, k <= n PROVE Placed(t, k) = Placed(ls, k)
  <2>1. \A l \in 1 .. k : t[l] = ls[l]
    BY <1>1, <1>2
  <2> QED BY <2>1 DEF Placed
<1>3. Placed(t, n + 1) = Placed(t, n) \union L
  <2>1. 1 .. (n + 1) = (1 .. n) \union {n + 1}
    OBVIOUS
  <2> QED BY <1>1, <2>1 DEF Placed
<1> QED BY <1>1, <1>2, <1>3 DEF t

\* A placed node has what it depends on in an earlier layer.
LEMMA PlacedClosed ==
  ASSUME RunTypeOK, LayersInv, NEW k \in Nat, k <= Len(layers),
         NEW i \in Placed(layers, k), NEW j \in Index, Depends(i, j)
  PROVE  j \in Placed(layers, k - 1)
<1>1. PICK l \in 1 .. k : i \in layers[l]
  BY DEF Placed
<1>2. j \in Placed(layers, l - 1)
  BY <1>1 DEF LayersInv
<1>3. 1 .. (l - 1) \subseteq 1 .. (k - 1)
  BY <1>1
<1> QED BY <1>2, <1>3 DEF Placed

\* A node is known by its name.
LEMMA PlacedByName ==
  ASSUME RunTypeOK, LayersInv, WellFormed, NEW j \in Index, Nodes[j].name \in done
  PROVE  j \in Placed(layers, Len(layers))
<1>1. PICK i \in Placed(layers, Len(layers)) : Nodes[i].name = Nodes[j].name
  BY DEF LayersInv
<1>2. i \in Index
  <2>1. /\ Len(layers) \in Nat /\ Len(layers) <= Len(layers)
        /\ layers \in Seq(SUBSET Index)
    BY DEF RunTypeOK
  <2>2. Placed(layers, Len(layers)) \subseteq Index
    BY <2>1, PlacedFacts
  <2> QED BY <2>2
<1> QED BY <1>1, <1>2 DEF WellFormed

LEMMA SameDepends ==
  ASSUME input' = input
  PROVE  Index' = Index /\ \A i, j : Depends(i, j)' <=> Depends(i, j)
<1>1. Nodes' = Nodes /\ \A n : DepSet(n)' = DepSet(n)
  BY SameInput
<1>2. Index' = Index
  BY <1>1 DEF Index
<1>3. ASSUME NEW i, NEW j PROVE Depends(i, j)' <=> Depends(i, j)
  BY <1>1 DEF Depends
<1> QED BY <1>2, <1>3

\* Without a layer to add, every node of an accepted input is placed.
LEMMA AllPlaced ==
  ASSUME DagInv, RunTypeOK, LayersInv, WellFormed, verdict = "accepted",
         Cardinality(done) = Len(Nodes) \/ NextLayer = {}
  PROVE  Placed(layers, Len(layers)) = Index
<1>1. /\ Len(layers) \in Nat /\ Len(layers) <= Len(layers)
      /\ layers \in Seq(SUBSET Index) /\ Len(Nodes) \in Nat
  BY DagAssumption DEF RunTypeOK, DagInv, DagTypeOK, DagAssumption, Nodes
<1>2. Placed(layers, Len(layers)) \subseteq Index
  BY <1>1, PlacedFacts
<1>3. done \subseteq NamesUsed
  BY <1>2 DEF LayersInv, NamesUsed
<1>4. NamesUsed \subseteq done
  <2>1. CASE Cardinality(done) = Len(Nodes)
    <3> DEFINE f == [i \in Index |-> Nodes[i].name]
    <3>1. IsFiniteSet(Index) /\ Cardinality(Index) = Len(Nodes)
      <4>1. \A m \in Nat : IsFiniteSet(1 .. m) /\ Cardinality(1 .. m) = m
        BY FS_Interval
      <4> QED BY <1>1, <4>1 DEF Index
    <3>2. f \in Surjection(Index, NamesUsed)
      BY DEF Surjection, NamesUsed
    <3>3. IsFiniteSet(NamesUsed) /\ Cardinality(NamesUsed) <= Len(Nodes)
      BY <3>1, <3>2, FS_Surjection
    <3>4. /\ Cardinality(done) <= Cardinality(NamesUsed)
          /\ Cardinality(done) = Cardinality(NamesUsed) => done = NamesUsed
      BY <1>3, <3>3, FS_Subset
    <3>5. Cardinality(NamesUsed) \in Nat
      BY <3>3, FS_CardinalityType
    <3> QED BY <1>1, <2>1, <3>3, <3>4, <3>5
  <2>2. CASE NextLayer = {}
    <3> DEFINE S == NamesUsed \ done
    <3> SUFFICES ASSUME S # {} PROVE FALSE
      OBVIOUS
    <3>1. ASSUME NEW n \in S PROVE DepSet(n) \intersect S # {}
      <4>1. PICK i \in Index : Nodes[i].name = n
        BY DEF NamesUsed
      <4>2. ~ (DepSet(n) \subseteq done)
        BY <2>2, <4>1 DEF NextLayer
      <4>3. DepSet(n) \subseteq NamesUsed
        BY DepsFacts DEF DagInv
      <4> QED BY <4>2, <4>3
    <3>2. Deadlocked(S)
      BY <3>1 DEF Deadlocked
    <3> QED BY <3>2 DEF DagInv, AcceptedIsAcyclic
  <2> QED BY <2>1, <2>2
<1>5. ASSUME NEW j \in Index PROVE j \in Placed(layers, Len(layers))
  <2>1. Nodes[j].name \in done
    BY <1>4 DEF NamesUsed
  <2> QED BY <2>1, PlacedByName
<1> QED BY <1>2, <1>5

-----------------------------------------------------------------------------
(* The steps *)

\* Whatever leaves the layers alone keeps what is said of them.
LEMMA SameLayers ==
  ASSUME LayersInv, UNCHANGED <<input, layers, done>>
  PROVE  LayersInv'
<1>1. Index' = Index /\ \A i, j : Depends(i, j)' <=> Depends(i, j)
  BY SameDepends
<1>2. Nodes' = Nodes
  BY SameInput
<1> QED BY <1>1, <1>2 DEF LayersInv, Placed

LEMMA SameRecords ==
  ASSUME RunTypeOK, RecordsTopological, UNCHANGED <<input, records>>
  PROVE  RecordsTopological'
BY SameDepends DEF RecordsTopological

\* The steps of validate() leave the run alone.
LEMMA ValidateKeeps ==
  ASSUME DagInv, RunInv, Validate
  PROVE  RunInv'
<1>1. input' = input /\ runVars' = runVars /\ phase = "validate" /\ DagNext
  BY DEF Validate, DagNext, Screen, StartFrom, AllSearched, Finalise, Descend
<1>2. UNCHANGED <<phase, layers, done, wave, started, outcome, records, result>>
  BY <1>1 DEF runVars
<1>3. Index' = Index /\ Nodes' = Nodes /\ (WellFormed' <=> WellFormed)
  BY <1>1, SameInput, SameDepends
<1>4. RunTypeOK'
  BY <1>2, <1>3 DEF RunInv, RunTypeOK, Outcomes
<1>5. LayersInv'
  BY <1>1, <1>2, SameLayers DEF RunInv
<1>6. PhaseInv'
  <2>1. verdict' = "accepted" => WellFormed
    BY <1>1 DEF DagNext, Screen, StartFrom, AllSearched, Finalise, Descend, Visit,
       RunInv, PhaseInv, DagInv, SearchInv, Searching
  <2> QED BY <1>1, <1>2, <1>3, <2>1 DEF RunInv, PhaseInv
<1>7. WavesInv'
  BY <1>1, <1>2 DEF RunInv, WavesInv, Placed
<1>8. RecordsInv'
  <2>1. RecordsTopological'
    BY <1>1, <1>2, SameRecords DEF RunInv, RecordsInv
  <2>2. result = "none" /\ phase # "returned"
    BY <1>1 DEF RunInv, PhaseInv
  <2> QED BY <1>2, <2>1, <2>2 DEF RunInv, RecordsInv, AnswerAccounts, Placed
<1> QED BY <1>4, <1>5, <1>6, <1>7, <1>8 DEF RunInv

LEMMA ValidatedKeeps ==
  ASSUME DagInv, RunInv, Validated
  PROVE  RunInv'
<1>1. /\ UNCHANGED <<input, verdict, layers, done, wave, started, outcome, records>>
      /\ phase = "validate"
      /\ \/ phase' = "layers" /\ verdict = "accepted" /\ result' = result
         \/ phase' = "returned" /\ result' = "InvalidInput"
  BY DEF Validated, dagVars
<1>2. Index' = Index /\ Nodes' = Nodes /\ (WellFormed' <=> WellFormed)
  BY <1>1, SameInput, SameDepends
<1>3. RunTypeOK'
  BY <1>1, <1>2 DEF RunInv, RunTypeOK, Outcomes
<1>4. LayersInv'
  BY <1>1, SameLayers DEF RunInv
<1>5. PhaseInv'
  BY <1>1, <1>2 DEF RunInv, PhaseInv
<1>6. WavesInv'
  BY <1>1 DEF RunInv, WavesInv, Placed
<1>7. RecordsInv'
  BY <1>1, <1>2, SameRecords DEF RunInv, RecordsInv, AnswerAccounts, Placed, PhaseInv
<1> QED BY <1>3, <1>4, <1>5, <1>6, <1>7 DEF RunInv

LEMMA AddLayerKeeps ==
  ASSUME DagInv, RunInv, AddLayer
  PROVE  RunInv'
<1> DEFINE n == Len(layers)
<1>1. /\ UNCHANGED <<input, verdict, phase, wave, started, outcome, records, result>>
      /\ phase = "layers" /\ verdict = "accepted" /\ WellFormed
      /\ wave = 0 /\ records = <<>> /\ result = "none"
      /\ layers' = Append(layers, NextLayer)
      /\ done' = done \union {Nodes[i].name : i \in NextLayer}
  BY DEF AddLayer, dagVars, RunInv, PhaseInv
<1>2. Index' = Index /\ Nodes' = Nodes /\ (WellFormed' <=> WellFormed)
  BY <1>1, SameInput, SameDepends
<1>3. n \in Nat /\ layers \in Seq(SUBSET Index) /\ NextLayer \in SUBSET Index
  BY DEF RunInv, RunTypeOK, NextLayer
<1>4. /\ layers' \in Seq(SUBSET Index) /\ Len(layers') = n + 1
      /\ layers'[n + 1] = NextLayer
      /\ \A k \in 1 .. n : layers'[k] = layers[k]
      /\ \A k \in Int : k <= n => Placed(layers', k) = Placed(layers, k)
      /\ Placed(layers', n + 1) = Placed(layers, n) \union NextLayer
  <2> DEFINE L == NextLayer
             T == SUBSET Index
  <2>1. n \in Nat /\ n = Len(layers) /\ L \in T /\ layers \in Seq(T)
    BY <1>3
  <2>2. layers' = Append(layers, L)
    BY <1>1
  <2> HIDE DEF L, T, n
  <2>3. /\ Append(layers, L) \in Seq(T) /\ Len(Append(layers, L)) = n + 1
        /\ Append(layers, L)[n + 1] = L
        /\ \A k \in 1 .. n : Append(layers, L)[k] = layers[k]
        /\ \A k \in Int : k <= n => Placed(Append(layers, L), k) = Placed(layers, k)
        /\ Placed(Append(layers, L), n + 1) = Placed(layers, n) \union L
    BY <2>1, PlacedAppend
  <2> QED BY <2>2, <2>3 DEF L, T
<1>5. RunTypeOK'
  BY <1>1, <1>2, <1>3, <1>4 DEF RunInv, RunTypeOK, Outcomes
<1>6. LayersInv'
  <2>1. done' = {Nodes[i].name : i \in Placed(layers, n) \union NextLayer}
    BY <1>1 DEF RunInv, LayersInv
  <2>2. ASSUME NEW k \in 1 .. n, NEW i \in layers[k]
        PROVE  /\ i \notin Placed(layers', k - 1)
               /\ \A j \in Index : Depends(i, j) => j \in Placed(layers', k - 1)
    <3>1. Placed(layers', k - 1) = Placed(layers, k - 1)
      BY <1>3, <1>4
    <3> QED BY <2>2, <3>1 DEF RunInv, LayersInv
  <2>3. ASSUME NEW i \in NextLayer
        PROVE  /\ i \notin Placed(layers', n)
               /\ \A j \in Index : Depends(i, j) => j \in Placed(layers', n)
    <3>1. Placed(layers', n) = Placed(layers, n)
      BY <1>3, <1>4
    <3>2. i \notin Placed(layers, n)
      BY DEF NextLayer, RunInv, LayersInv
    <3>3. ASSUME NEW j \in Index, Depends(i, j) PROVE j \in Placed(layers, n)
      <4>1. Nodes[j].name \in done
        BY <3>3 DEF NextLayer, Depends
      <4> QED BY <1>1, <4>1, PlacedByName DEF RunInv
    <3> QED BY <3>1, <3>2, <3>3
  <2>4. ASSUME NEW k \in 1 .. n + 1, NEW i \in layers'[k]
        PROVE  /\ i \notin Placed(layers', k - 1)
               /\ \A j \in Index : Depends(i, j) => j \in Placed(layers', k - 1)
    <3>1. CASE k = n + 1
      <4>1. k - 1 = n /\ i \in NextLayer
        BY <1>3, <1>4, <3>1
      <4> QED BY <2>3, <4>1
    <3>2. CASE k # n + 1
      <4>1. k \in 1 .. n /\ i \in layers[k]
        BY <1>3, <1>4, <3>2
      <4> QED BY <2>2, <4>1
    <3> QED BY <3>1, <3>2
  <2>5. \A i, j : Depends(i, j)' <=> Depends(i, j)
    BY <1>1, SameDepends
  <2>6. done' = {Nodes'[i].name : i \in Placed(layers', Len(layers'))}
    BY <1>2, <1>4, <2>1
  <2> HIDE DEF n
  <2>7. \A k \in 1 .. Len(layers') : \A i \in layers'[k] :
           /\ i \notin Placed(layers', k - 1)
           /\ \A j \in Index' : Depends(i, j)' => j \in Placed(layers', k - 1)
    BY <1>2, <1>4, <2>4, <2>5
  <2> QED BY <2>6, <2>7 DEF LayersInv, Placed
<1>7. PhaseInv'
  BY <1>1, <1>2 DEF PhaseInv
<1>8. wave' = wave /\ Placed(layers', 0) = {} /\ Placed(layers', 0 - 1) = {}
      /\ Placed(layers, 0) = {} /\ Placed(layers, 0 - 1) = {}
  BY <1>1, NothingPlaced
<1>9. WavesInv'
  BY <1>1, <1>8 DEF RunInv, WavesInv, Placed
<1>10. RecordsInv'
  BY <1>1, <1>2, <1>8, SameRecords DEF RunInv, RecordsInv, AnswerAccounts, Placed
<1> QED BY <1>5, <1>6, <1>7, <1>9, <1>10 DEF RunInv

\* Before the first wave every node is placed, and there is a layer.
LEMMA LayersDoneKeeps ==
  ASSUME DagInv, RunInv, LayersDone
  PROVE  RunInv'
<1>1. /\ UNCHANGED <<input, verdict, layers, done, outcome, records>>
      /\ phase = "layers" /\ verdict = "accepted" /\ WellFormed /\ EnterWave(1)
      /\ wave = 0 /\ records = <<>> /\ result = "none"
  BY DEF LayersDone, dagVars, RunInv, PhaseInv
<1>2. Index' = Index /\ Nodes' = Nodes /\ (WellFormed' <=> WellFormed)
  BY <1>1, SameInput, SameDepends
<1>3. Placed(layers, Len(layers)) = Index
  BY <1>1, AllPlaced DEF LayersDone, RunInv
<1>4. Len(layers) \in Nat /\ Len(layers) >= 1 /\ layers \in Seq(SUBSET Index)
  <2>1. Len(layers) \in Nat /\ layers \in Seq(SUBSET Index)
    BY DEF RunInv, RunTypeOK
  <2>2. 1 \in Index
    <3>1. Nodes \in Seq(NodeType) /\ Nodes # <<>>
      BY <1>1, DagAssumption DEF DagAssumption, DagInv, DagTypeOK, Nodes, WellFormed
    <3> QED BY <3>1 DEF Index
  <2>3. Len(layers) # 0
    BY <1>3, <2>2, NothingPlaced
  <2> QED BY <2>1, <2>3
<1>5. phase' = "wave" /\ wave' = 1 /\ started' = started \union layers[1] /\ result' = result
  BY <1>1, <1>4 DEF EnterWave
<1>6. RunTypeOK'
  BY <1>1, <1>2, <1>4, <1>5 DEF RunInv, RunTypeOK, Outcomes
<1>7. LayersInv'
  BY <1>1, SameLayers DEF RunInv
<1>8. PhaseInv'
  BY <1>1, <1>2, <1>3, <1>5 DEF PhaseInv, Placed
<1>9. Placed(layers, 0) = {} /\ Placed(layers, 1) = layers[1]
  <2>1. Placed(layers, 1) = Placed(layers, 1 - 1) \union layers[1]
    <3>1. 1 \in Nat /\ 1 <= Len(layers) /\ 1 >= 1
      BY <1>4
    <3> QED BY <1>4, <3>1, PlacedFacts
  <2> QED BY <2>1, NothingPlaced
<1>10. WavesInv'
  <2>1. started = {} /\ 1 - 1 = 0
    BY <1>1, NothingPlaced DEF RunInv, WavesInv
  <2>2. started' = Placed(layers, 1)
    BY <1>5, <1>9, <2>1
  <2> QED BY <1>1, <1>5, <1>9, <2>1, <2>2 DEF WavesInv, Placed
<1>11. RecordsInv'
  <2>1. RecordsTopological'
    BY <1>1, SameRecords DEF RunInv, RecordsInv
  <2>2. {records[a] : a \in DOMAIN records} = {} /\ 1 - 1 = 0
    BY <1>1
  <2> QED BY <1>1, <1>5, <1>9, <2>1, <2>2 DEF RecordsInv, AnswerAccounts, Placed
<1> QED BY <1>6, <1>7, <1>8, <1>10, <1>11 DEF RunInv

LEMMA AnswerKeeps ==
  ASSUME DagInv, RunInv, NEW i \in Index, Answer(i)
  PROVE  RunInv'
<1>1. /\ UNCHANGED <<input, verdict, phase, layers, done, wave, started, records, result>>
      /\ phase = "wave" /\ i \in layers[wave] /\ wave >= 1 /\ result = "none"
      /\ \E o \in Outcomes : outcome' = [outcome EXCEPT ![i] = o]
  BY DEF Answer, dagVars, RunInv, PhaseInv
<1>2. Index' = Index /\ Nodes' = Nodes /\ (WellFormed' <=> WellFormed)
  BY <1>1, SameInput, SameDepends
<1>3. RunTypeOK'
  <2>1. outcome' \in [Index -> Outcomes \union {"none"}]
    BY <1>1 DEF RunInv, RunTypeOK
  <2> QED BY <1>1, <1>2, <2>1 DEF RunInv, RunTypeOK
<1>4. LayersInv'
  BY <1>1, SameLayers DEF RunInv
<1>5. PhaseInv'
  BY <1>1, <1>2 DEF RunInv, PhaseInv, Placed
<1>6. WavesInv'
  <2>1. wave \in 1 .. Len(layers) /\ outcome \in [Index -> Outcomes \union {"none"}]
    BY <1>1 DEF RunInv, RunTypeOK
  <2>2. i \notin Placed(layers, wave - 1)
    BY <1>1, <2>1 DEF RunInv, LayersInv
  <2>3. \A j \in Placed(layers, wave - 1) : outcome'[j] = outcome[j]
    <3> SUFFICES ASSUME NEW j \in Placed(layers, wave - 1) PROVE outcome'[j] = outcome[j]
      OBVIOUS
    <3>1. j # i
      BY <2>2
    <3> QED BY <1>1, <2>1, <3>1
  <2> QED BY <1>1, <2>3 DEF RunInv, WavesInv, Placed
<1>7. RecordsInv'
  <2>1. RecordsTopological'
    BY <1>1, SameRecords DEF RunInv, RecordsInv
  <2>2. {records'[a] : a \in DOMAIN records'} = Placed(layers', wave' - 1)
    BY <1>1 DEF RunInv, RecordsInv, PhaseInv, Placed
  <2>3. result' = "none"
    BY <1>1
  <2> QED BY <2>1, <2>2, <2>3 DEF RecordsInv, AnswerAccounts, Placed
<1> QED BY <1>3, <1>4, <1>5, <1>6, <1>7 DEF RunInv

\* What is recorded of a wave that ends the run: its first failure comes last,
\* after nodes that did not fail.
LEMMA StopsAtFirst ==
  ASSUME NEW n \in Nat, NEW W \in SUBSET (1 .. n), NEW stoppers \in SUBSET W,
         stoppers # {},
         NEW R \in SUBSET W, \A i \in W : i \in R <=> \A q \in stoppers : i <= q
  PROVE  /\ Len(InOrder(R)) >= 1
         /\ InOrder(R)[Len(InOrder(R))] \in stoppers
         /\ \A a \in 1 .. Len(InOrder(R)) - 1 : InOrder(R)[a] \in W \ stoppers
<1> DEFINE s == InOrder(R)
           c == Len(s)
<1>1. R \in SUBSET (1 .. n) /\ \A x \in R : x \in W /\ \A y \in stoppers : x <= y
  OBVIOUS
<1>2. /\ s \in Seq(R) /\ c \in Nat /\ Increasing(s)
      /\ \A a \in 1 .. c : s[a] \in R
      /\ \A x \in R : \E a \in 1 .. c : s[a] = x
  <2>1. R \in SUBSET (1 .. n)
    BY <1>1
  <2>2. /\ s \in Seq(R) /\ Increasing(s)
        /\ \A a \in 1 .. c : s[a] \in R
        /\ \A x \in R : \E a \in 1 .. c : s[a] = x
    BY <2>1, InOrderFacts
  <2> QED BY <2>2
<1> HIDE DEF s
<1>3. PICK m \in stoppers : \A y \in stoppers : m <= y
  BY LeastExists
<1>4. m \in R
  BY <1>3
<1>5. PICK a \in 1 .. c : s[a] = m
  BY <1>2, <1>4
<1>6. \A b \in 1 .. c : s[b] \in W /\ s[b] <= m /\ s[b] \in 1 .. n
  BY <1>1, <1>2, <1>3
<1>7. DOMAIN s = 1 .. c /\ c \in Nat
  BY <1>2
<1> HIDE DEF c
<1>8. a = c
  <2> SUFFICES ASSUME a # c PROVE FALSE
    OBVIOUS
  <2>1. c \in 1 .. c /\ a < c
    BY <1>7
  <2>2. s[a] < s[c]
    BY <1>5, <1>7, <2>1, <1>2 DEF Increasing
  <2>3. s[c] <= m /\ s[c] \in 1 .. n /\ m \in 1 .. n
    BY <1>6, <2>1
  <2> QED BY <1>5, <2>2, <2>3
<1>9. ASSUME NEW b \in 1 .. c - 1 PROVE s[b] \in W \ stoppers
  <2>1. b \in 1 .. c /\ b < c /\ c \in 1 .. c
    BY <1>7
  <2>2. s[b] < s[c] /\ s[c] = m
    BY <1>2, <1>5, <1>7, <1>8, <2>1 DEF Increasing
  <2>3. s[b] \in 1 .. n /\ m \in 1 .. n /\ s[b] \in W
    BY <1>6, <2>1
  <2>4. s[b] \notin stoppers
    <3> SUFFICES ASSUME s[b] \in stoppers PROVE FALSE
      OBVIOUS
    <3>1. m <= s[b]
      BY <1>3
    <3> QED BY <2>2, <2>3, <3>1
  <2> QED BY <2>3, <2>4
<1> QED BY <1>2, <1>5, <1>7, <1>8, <1>9 DEF c, s

\* Recording part of a wave after the waves before it: dependencies come
\* first, because none lies in the wave itself.
LEMMA AppendKeepsOrder ==
  ASSUME RunInv, phase = "wave", input' = input, NEW R \in SUBSET layers[wave],
         records' = records \o InOrder(R)
  PROVE  /\ RecordsTopological' /\ records' \in Seq(Index)
         /\ Len(records') = Len(records) + Len(InOrder(R))
         /\ Len(records) \in Nat /\ Len(InOrder(R)) \in Nat
         /\ \A a \in 1 .. Len(records) :
              records'[a] = records[a] /\ records[a] \in Placed(layers, wave - 1)
         /\ \A x \in Placed(layers, wave - 1) : \E a \in 1 .. Len(records) : records[a] = x
         /\ \A b \in 1 .. Len(InOrder(R)) : records'[Len(records) + b] = InOrder(R)[b]
<1> DEFINE s == InOrder(R)
           c == Len(s)
           m == Len(records)
           P == Placed(layers, wave - 1)
<1>1. /\ wave \in Nat /\ wave \in 1 .. Len(layers) /\ wave <= Len(layers)
      /\ layers[wave] \in SUBSET Index /\ layers \in Seq(SUBSET Index)
      /\ records \in Seq(Index) /\ m \in Nat
  BY DEF RunInv, RunTypeOK, PhaseInv
<1>2. /\ s \in Seq(R) /\ Increasing(s) /\ c \in Nat
      /\ \A a \in 1 .. c : s[a] \in R
      /\ \A a, b \in 1 .. c : s[a] = s[b] => a = b
  <2>1. R \in SUBSET (1 .. Len(Nodes)) /\ Len(Nodes) \in Nat
    <3>1. Len(Nodes) \in Nat
      <4>1. wave \in 1 .. Len(layers) /\ R \in SUBSET Index
        BY <1>1
      <4> QED BY <4>1 DEF Index
    <3> QED BY <1>1, <3>1 DEF Index
  <2>2. /\ s \in Seq(R) /\ Increasing(s)
        /\ \A a \in 1 .. c : s[a] \in R
        /\ \A a, b \in 1 .. c : s[a] = s[b] => a = b
    BY <2>1, InOrderFacts
  <2> QED BY <2>2
<1> HIDE DEF s
<1>3. s \in Seq(Index)
  BY <1>1, <1>2
<1>4. /\ records' \in Seq(Index) /\ Len(records') = m + c
      /\ \A a \in 1 .. m + c : records'[a] = IF a <= m THEN records[a] ELSE s[a - m]
  BY <1>1, <1>3, ConcatProperties DEF s
<1>5. /\ \A a \in 1 .. m : records[a] \in P
      /\ \A x \in P : \E a \in 1 .. m : records[a] = x
  <2>1. {records[a] : a \in 1 .. m} = P
    BY <1>1 DEF RunInv, RecordsInv
  <2> HIDE DEF P, m
  <2> QED BY <2>1
<1>6. P \subseteq Index /\ Placed(layers, (wave - 1) - 1) \subseteq P
  <2> DEFINE w == wave - 1
  <2>1. w \in Nat /\ w <= Len(layers) /\ w <= w
    BY <1>1
  <2> HIDE DEF w
  <2>2. Placed(layers, w) \subseteq Index /\ Placed(layers, w - 1) \subseteq Placed(layers, w)
    BY <1>1, <2>1, PlacedFacts
  <2> QED BY <2>2 DEF w
<1>7. ASSUME NEW i \in P, NEW j \in Index, Depends(i, j) PROVE j \in P
  <2>1. wave - 1 \in Nat /\ wave - 1 <= Len(layers) /\ RunTypeOK /\ LayersInv
    BY <1>1 DEF RunInv
  <2>2. j \in Placed(layers, (wave - 1) - 1)
    BY <1>7, <2>1, PlacedClosed
  <2> QED BY <1>6, <2>2
<1>8. ASSUME NEW i \in R
      PROVE  i \notin P /\ \A j \in Index : Depends(i, j) => j \in P
  BY <1>1 DEF RunInv, LayersInv
<1>9. P \subseteq Index /\ R \subseteq Index
  BY <1>1, <1>6
<1> HIDE DEF P
<1>10. ASSUME NEW a \in 1 .. m + c, NEW b \in 1 .. m + c
      PROVE  /\ records'[a] = records'[b] => a = b
             /\ Depends(records'[a], records'[b]) => b < a
  <2>1. CASE a <= m /\ b <= m
    <3>1. /\ a \in DOMAIN records /\ b \in DOMAIN records
          /\ records'[a] = records[a] /\ records'[b] = records[b]
      BY <1>1, <1>4, <2>1
    <3> QED BY <3>1 DEF RunInv, RecordsInv, RecordsTopological
  <2>2. CASE a <= m /\ ~ (b <= m)
    <3>1. a \in 1 .. m /\ b - m \in 1 .. c
      BY <1>1, <1>2, <2>2
    <3>2. records'[a] \in P /\ records'[b] \in R
      BY <1>2, <1>4, <1>5, <2>2, <3>1
    <3> QED BY <1>7, <1>8, <1>9, <3>2
  <2>3. CASE ~ (a <= m) /\ b <= m
    <3>1. b \in 1 .. m /\ a - m \in 1 .. c /\ b < a
      BY <1>1, <1>2, <2>3
    <3>2. records'[b] \in P /\ records'[a] \in R
      BY <1>2, <1>4, <1>5, <2>3, <3>1
    <3> QED BY <1>8, <3>1, <3>2
  <2>4. CASE ~ (a <= m) /\ ~ (b <= m)
    <3>1. b - m \in 1 .. c /\ a - m \in 1 .. c
      BY <1>1, <1>2, <2>4
    <3>2. records'[b] = s[b - m] /\ records'[a] = s[a - m]
      BY <1>4, <2>4
    <3>3. records'[b] \in R /\ records'[a] \in R
      BY <1>2, <3>1, <3>2
    <3>4. records'[a] = records'[b] => a = b
      <4>1. s[a - m] = s[b - m] => a - m = b - m
        BY <1>2, <3>1
      <4> QED BY <1>1, <3>2, <4>1
    <3> QED BY <1>8, <1>9, <3>3, <3>4
  <2> QED BY <2>1, <2>2, <2>3, <2>4
<1>11. RecordsTopological'
  <2>1. DOMAIN records' = 1 .. m + c
    BY <1>1, <1>2, <1>4
  <2>2. \A i, j : Depends(i, j)' <=> Depends(i, j)
    BY SameDepends
  <2> HIDE DEF m, c
  <2> QED BY <1>10, <2>1, <2>2 DEF RecordsTopological
<1>12. \A b \in 1 .. c : records'[m + b] = s[b]
  <2> SUFFICES ASSUME NEW b \in 1 .. c PROVE records'[m + b] = s[b]
    OBVIOUS
  <2>1. m + b \in 1 .. m + c /\ ~ (m + b <= m) /\ (m + b) - m = b
    BY <1>1, <1>2
  <2> QED BY <1>4, <2>1
<1>13. \A a \in 1 .. m : records'[a] = records[a]
  <2> SUFFICES ASSUME NEW a \in 1 .. m PROVE records'[a] = records[a]
    OBVIOUS
  <2>1. a \in 1 .. m + c /\ a <= m
    BY <1>1, <1>2
  <2> QED BY <1>4, <2>1
<1> QED BY <1>1, <1>2, <1>4, <1>5, <1>11, <1>12, <1>13 DEF s, P

\* A wave with a failure that ends the run: the answer names it.
LEMMA StopKeeps ==
  ASSUME DagInv, RunInv, Collect, Stoppers(layers[wave]) # {}
  PROVE  RunInv'
<1> DEFINE W == layers[wave]
           F == Stoppers(W)
           R == {i \in W : \A q \in F : i <= q}
           m == Len(records)
           c == Len(InOrder(R))
<1>1. /\ UNCHANGED <<input, verdict, layers, done, outcome, wave, started>>
      /\ phase = "wave" /\ phase' = "returned" /\ result' = "PatternStopped"
      /\ records' = records \o InOrder(R)
  BY DEF Collect, dagVars
<1>2. Index' = Index /\ Nodes' = Nodes /\ (WellFormed' <=> WellFormed)
  BY <1>1, SameInput, SameDepends
<1>3. /\ RecordsTopological' /\ records' \in Seq(Index)
      /\ Len(records') = m + c /\ m \in Nat /\ c \in Nat
      /\ \A a \in 1 .. m : records'[a] = records[a] /\ records[a] \in Placed(layers, wave - 1)
      /\ \A b \in 1 .. c : records'[m + b] = InOrder(R)[b]
  <2>1. R \in SUBSET layers[wave]
    OBVIOUS
  <2> HIDE DEF R
  <2> QED BY <1>1, <2>1, AppendKeepsOrder
<1>4. input.failFast /\ \A i \in W : i \in F <=> outcome[i] # "ok"
  BY DEF Stoppers
<1>5. /\ c >= 1 /\ InOrder(R)[c] \in F
      /\ \A a \in 1 .. c - 1 : InOrder(R)[a] \in W \ F
  <2>1. W \in SUBSET (1 .. Len(Nodes)) /\ Len(Nodes) \in Nat
    <3>1. wave \in 1 .. Len(layers) /\ layers \in Seq(SUBSET Index)
      BY <1>1 DEF RunInv, RunTypeOK, PhaseInv
    <3>2. Len(Nodes) \in Nat
      BY DagAssumption DEF DagInv, DagTypeOK, DagAssumption, Nodes
    <3> QED BY <3>1, <3>2 DEF Index
  <2>2. F \in SUBSET W /\ F # {}
    BY DEF Stoppers
  <2>3. R \in SUBSET W /\ \A i \in W : i \in R <=> \A q \in F : i <= q
    OBVIOUS
  <2> DEFINE n == Len(Nodes)
  <2>4. n \in Nat /\ W \in SUBSET (1 .. n)
    BY <2>1
  <2> HIDE DEF R, F, W, n
  <2> QED BY <2>2, <2>3, <2>4, StopsAtFirst, Zenon
<1> HIDE DEF R, F
<1>6. AnswerAccounts'
  <2>1. outcome'[records'[Len(records')]] # "ok"
    <3>1. records'[m + c] = InOrder(R)[c] /\ InOrder(R)[c] \in F /\ F \subseteq W
      BY <1>3, <1>5 DEF F, Stoppers
    <3> QED BY <1>1, <1>3, <1>4, <3>1
  <2>2. ASSUME NEW a \in 1 .. (Len(records') - 1)
        PROVE  outcome'[records'[a]] = "ok"
    <3>1. CASE a <= m
      <4>1. a \in 1 .. m
        BY <1>3, <3>1
      <4>2. records'[a] \in Placed(layers, wave - 1)
        BY <1>3, <4>1
      <4>3. outcome[records'[a]] = "ok"
        BY <1>4, <4>2 DEF RunInv, WavesInv
      <4> QED BY <1>1, <4>3
    <3>2. CASE ~ (a <= m)
      <4>1. a - m \in 1 .. c - 1 /\ a - m \in 1 .. c /\ m + (a - m) = a
        BY <1>3, <3>2
      <4>2. records'[a] = InOrder(R)[a - m]
        BY <1>3, <4>1
      <4> QED BY <1>1, <1>4, <1>5, <4>1, <4>2
    <3> QED BY <3>1, <3>2
  <2> QED BY <1>1, <2>1, <2>2 DEF AnswerAccounts
<1>7. RunTypeOK'
  BY <1>1, <1>2, <1>3 DEF RunInv, RunTypeOK, Outcomes
<1>8. LayersInv'
  BY <1>1, SameLayers DEF RunInv
<1>9. PhaseInv'
  BY <1>1, <1>2 DEF RunInv, PhaseInv
<1>10. WavesInv'
  BY <1>1 DEF RunInv, WavesInv, Placed
<1>11. RecordsInv'
  BY <1>1, <1>3, <1>6 DEF RecordsInv
<1> QED BY <1>7, <1>8, <1>9, <1>10, <1>11 DEF RunInv

\* A wave that does not end the run: all of it is recorded, and the next one
\* starts, or it was the last.
LEMMA GoOnKeeps ==
  ASSUME DagInv, RunInv, Collect, Stoppers(layers[wave]) = {}
  PROVE  RunInv'
<1> DEFINE W == layers[wave]
           P == Placed(layers, wave - 1)
           m == Len(records)
           c == Len(InOrder(W))
<1>1. /\ UNCHANGED <<input, verdict, layers, done, outcome>>
      /\ phase = "wave" /\ EnterWave(wave + 1)
      /\ \A i \in W : outcome[i] # "none"
      /\ records' = records \o InOrder(W)
  <2>1. {i \in W : \A q \in Stoppers(W) : i <= q} = W
    OBVIOUS
  <2> QED BY <2>1 DEF Collect, dagVars
<1>2. Index' = Index /\ Nodes' = Nodes /\ (WellFormed' <=> WellFormed)
  BY <1>1, SameInput, SameDepends
<1>3. /\ wave \in Nat /\ wave >= 1 /\ wave <= Len(layers) /\ Len(layers) \in Nat
      /\ layers \in Seq(SUBSET Index) /\ result = "none" /\ verdict = "accepted"
      /\ Placed(layers, Len(layers)) = Index /\ W \subseteq Index
  BY <1>1 DEF RunInv, RunTypeOK, PhaseInv
<1>4. Placed(layers, wave) = P \union W
  BY <1>3, PlacedFacts
<1>5. \A i \in Placed(layers, wave) :
         outcome[i] # "none" /\ (input.failFast => outcome[i] = "ok")
  <2>1. \A i \in W : input.failFast => outcome[i] = "ok"
    BY DEF Stoppers
  <2> QED BY <1>1, <1>4, <2>1 DEF RunInv, WavesInv
<1>6. /\ RecordsTopological' /\ records' \in Seq(Index)
      /\ Len(records') = m + c /\ m \in Nat /\ c \in Nat
      /\ \A a \in 1 .. m : records'[a] = records[a] /\ records[a] \in P
      /\ \A x \in P : \E a \in 1 .. m : records[a] = x
      /\ \A b \in 1 .. c : records'[m + b] = InOrder(W)[b]
  <2>1. W \in SUBSET layers[wave]
    OBVIOUS
  <2>2. input' = input
    BY <1>1
  <2> HIDE DEF W
  <2> QED BY <1>1, <2>1, <2>2, AppendKeepsOrder
<1>7. /\ \A a \in 1 .. c : InOrder(W)[a] \in W
      /\ \A x \in W : \E a \in 1 .. c : InOrder(W)[a] = x
  <2>1. W \in SUBSET (1 .. Len(Nodes)) /\ Len(Nodes) \in Nat
    <3>1. Len(Nodes) \in Nat
      BY DagAssumption DEF DagInv, DagTypeOK, DagAssumption, Nodes
    <3> QED BY <1>3, <3>1 DEF Index
  <2> DEFINE n == Len(Nodes)
  <2>2. n \in Nat /\ W \in SUBSET (1 .. n)
    BY <2>1
  <2> HIDE DEF W, n
  <2> QED BY <2>2, InOrderFacts, ZenonT(60)
<1>8. {records'[a] : a \in DOMAIN records'} = Placed(layers, wave)
  <2> HIDE DEF m, c, P, W
  <2>1. DOMAIN records' = 1 .. m + c
    BY <1>6
  <2>2. ASSUME NEW a \in 1 .. m + c PROVE records'[a] \in P \union W
    <3>1. CASE a <= m
      BY <1>6, <3>1
    <3>2. CASE ~ (a <= m)
      <4>1. a - m \in 1 .. c /\ m + (a - m) = a
        BY <1>6, <3>2
      <4>2. records'[m + (a - m)] = InOrder(W)[a - m] /\ InOrder(W)[a - m] \in W
        BY <1>6, <1>7, <4>1
      <4> QED BY <4>1, <4>2
    <3> QED BY <3>1, <3>2
  <2>3. ASSUME NEW x \in P PROVE \E a \in 1 .. m + c : records'[a] = x
    <3>1. PICK a \in 1 .. m : records[a] = x
      BY <1>6
    <3>2. a \in 1 .. m + c
      BY <1>6
    <3> QED BY <1>6, <3>1, <3>2
  <2>4. ASSUME NEW x \in W PROVE \E a \in 1 .. m + c : records'[a] = x
    <3>1. PICK b \in 1 .. c : InOrder(W)[b] = x
      BY <1>7
    <3>2. m + b \in 1 .. m + c
      BY <1>6
    <3> QED BY <1>6, <3>1, <3>2
  <2> QED BY <1>4, <2>1, <2>2, <2>3, <2>4
<1>9. LayersInv'
  BY <1>1, SameLayers DEF RunInv
<1>10. CASE wave + 1 <= Len(layers)
  <2>1. phase' = "wave" /\ wave' = wave + 1 /\ result' = result
        /\ started' = started \union layers[wave + 1]
    BY <1>1, <1>10 DEF EnterWave
  <2>2. Placed(layers, wave + 1) = Placed(layers, wave) \union layers[wave + 1]
    <3> DEFINE w == wave + 1
    <3>1. w \in Nat /\ w <= Len(layers) /\ w >= 1 /\ w - 1 = wave
      BY <1>3, <1>10
    <3> HIDE DEF w
    <3>2. Placed(layers, w) = Placed(layers, w - 1) \union layers[w]
      BY <1>3, <3>1, PlacedFacts
    <3> QED BY <3>1, <3>2 DEF w
  <2>3. wave' - 1 = wave
    BY <1>3, <2>1
  <2>4. RunTypeOK'
    BY <1>1, <1>2, <1>3, <1>6, <1>10, <2>1 DEF RunInv, RunTypeOK, Outcomes
  <2>5. PhaseInv'
    BY <1>1, <1>2, <1>3, <2>1 DEF RunInv, PhaseInv, Placed
  <2>6. WavesInv'
    <3>1. started' = Placed(layers, wave + 1)
      BY <2>1, <2>2 DEF RunInv, WavesInv
    <3> QED BY <1>1, <1>5, <2>1, <2>3, <3>1 DEF WavesInv, Placed
  <2>7. RecordsInv'
    <3>1. AnswerAccounts'
      BY <1>3, <2>1 DEF AnswerAccounts
    <3>2. {records'[a] : a \in DOMAIN records'} = Placed(layers', wave' - 1)
      BY <1>1, <1>8, <2>3 DEF Placed
    <3>3. RecordsTopological'
      BY <1>6
    <3> QED BY <3>1, <3>2, <3>3 DEF RecordsInv, Placed
  <2> QED BY <1>9, <2>4, <2>5, <2>6, <2>7 DEF RunInv
<1>11. CASE ~ (wave + 1 <= Len(layers))
  <2>1. phase' = "returned" /\ result' = "Ok" /\ wave' = wave /\ started' = started
    BY <1>1, <1>11 DEF EnterWave
  <2>2. Placed(layers, wave) = Index
    <3>1. wave = Len(layers)
      BY <1>3, <1>11
    <3> QED BY <1>3, <3>1
  <2>3. RunTypeOK'
    BY <1>1, <1>2, <1>3, <1>6, <2>1 DEF RunInv, RunTypeOK, Outcomes
  <2>4. PhaseInv'
    BY <1>1, <1>2, <2>1 DEF RunInv, PhaseInv
  <2>5. WavesInv'
    BY <1>1, <2>1 DEF RunInv, WavesInv, Placed
  <2>6. AnswerAccounts'
    BY <1>1, <1>2, <1>5, <1>8, <2>1, <2>2 DEF AnswerAccounts
  <2>7. RecordsInv'
    BY <1>6, <2>1, <2>6 DEF RecordsInv
  <2> QED BY <1>9, <2>3, <2>4, <2>5, <2>7 DEF RunInv
<1> QED BY <1>10, <1>11

-----------------------------------------------------------------------------
(* The theorems *)

LEMMA RunInitInv == Init => RunInv
<1> SUFFICES ASSUME Init PROVE RunInv
  OBVIOUS
<1>1. RunTypeOK
  BY DEF Init, RunTypeOK, Outcomes
<1>2. Len(layers) = 0 /\ Placed(layers, 0) = {} /\ Placed(layers, 0 - 1) = {}
  BY NothingPlaced DEF Init
<1>3. LayersInv
  BY <1>2 DEF Init, LayersInv
<1>4. PhaseInv
  BY DEF Init, PhaseInv, DagInit
<1>5. WavesInv
  BY <1>2 DEF Init, WavesInv
<1>6. RecordsInv
  BY <1>2 DEF Init, RecordsInv, RecordsTopological, AnswerAccounts
<1> QED BY <1>1, <1>3, <1>4, <1>5, <1>6 DEF RunInv

LEMMA RunStepInv == DagInv /\ RunInv /\ [Next]_vars => RunInv'
<1> SUFFICES ASSUME DagInv, RunInv, [Next]_vars PROVE RunInv'
  OBVIOUS
<1>1. CASE Validate
  BY <1>1, ValidateKeeps
<1>2. CASE Validated
  BY <1>2, ValidatedKeeps
<1>3. CASE AddLayer
  BY <1>3, AddLayerKeeps
<1>4. CASE LayersDone
  BY <1>4, LayersDoneKeeps
<1>5. ASSUME NEW i \in Index, Answer(i) PROVE RunInv'
  BY <1>5, AnswerKeeps
<1>6. CASE Collect
  BY <1>6, StopKeeps, GoOnKeeps
<1>7. CASE UNCHANGED vars
  <2>1. /\ UNCHANGED <<input, verdict, phase, layers, done, wave, started, outcome>>
        /\ UNCHANGED <<records, result>>
    BY <1>7 DEF vars, dagVars, runVars
  <2>2. Index' = Index /\ Nodes' = Nodes /\ (WellFormed' <=> WellFormed)
    BY <2>1, SameInput, SameDepends
  <2>3. LayersInv'
    BY <2>1, SameLayers DEF RunInv
  <2>4. RecordsTopological'
    BY <2>1, SameRecords DEF RunInv, RecordsInv
  <2>5. RunTypeOK' /\ PhaseInv'
    BY <2>1, <2>2 DEF RunInv, RunTypeOK, PhaseInv, Placed
  <2>6. WavesInv'
    BY <2>1 DEF RunInv, WavesInv, Placed
  <2>7. RecordsInv'
    <3>1. AnswerAccounts'
      BY <2>1, <2>2 DEF RunInv, RecordsInv, AnswerAccounts
    <3>2. phase' # "returned" =>
            {records'[a] : a \in DOMAIN records'} = Placed(layers', wave' - 1)
      BY <2>1 DEF RunInv, RecordsInv, Placed
    <3> QED BY <2>4, <3>1, <3>2 DEF RecordsInv, Placed
  <2> QED BY <2>3, <2>5, <2>6, <2>7 DEF RunInv
<1> QED BY <1>1, <1>2, <1>3, <1>4, <1>5, <1>6, <1>7 DEF Next

\* RunInv holds in every state of a run.
THEOREM RunInvariance == Spec => [](DagInv /\ RunInv)
<1>1. Init => RunInv
  BY RunInitInv
<1>2. DagInv /\ RunInv /\ [Next]_vars => RunInv'
  BY RunStepInv
<1> QED BY <1>1, <1>2, Invariance, PTL DEF Spec

\* run_dag starts a node only when every node it depends on has answered, and
\* with fail_fast only when they succeeded.
THEOREM DependenciesAnswerFirst == Spec => []DependenciesFirst
<1>1. RunInv => DependenciesFirst
  <2> SUFFICES ASSUME RunInv, NEW i \in started, NEW j \in Index, Depends(i, j)
               PROVE  outcome[j] # "none" /\ (input.failFast => outcome[j] = "ok")
    BY DEF DependenciesFirst
  <2>1. /\ RunTypeOK /\ LayersInv /\ wave \in Nat /\ wave <= Len(layers)
        /\ i \in Placed(layers, wave)
    BY DEF RunInv, RunTypeOK, WavesInv
  <2>2. j \in Placed(layers, wave - 1)
    BY <2>1, PlacedClosed
  <2> QED BY <2>2 DEF RunInv, WavesInv
<1> QED BY <1>1, RunInvariance, PTL

\* node_results lists no node twice and every node after those it depends on.
THEOREM RecordsAreTopological == Spec => []RecordsTopological
<1>1. RunInv => RecordsTopological
  BY DEF RunInv, RecordsInv
<1> QED BY <1>1, RunInvariance, PTL

\* An Ok answer of run_dag accounts for every node, a PatternStopped answer
\* for every node up to the first failure.
THEOREM AnswersAccount == Spec => []AnswerAccounts
<1>1. RunInv => AnswerAccounts
  BY DEF RunInv, RecordsInv
<1> QED BY <1>1, RunInvariance, PTL

=============================================================================
