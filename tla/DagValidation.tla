--------------------------- MODULE DagValidation ---------------------------
(***************************************************************************)
(* altair_wf::dag: DAGInput::validate with detect_cycles and its iterative *)
(* depth-first search, one iteration of its loop per step.                 *)
(*                                                                         *)
(* A node is a record [name, deps, valid]: its name, its dependencies in   *)
(* the order given, and whether its input's own validate() succeeds.       *)
(***************************************************************************)
EXTENDS Naturals, Sequences, FiniteSets

CONSTANTS
  Names,      \* names that nodes and dependencies use
  EmptyName,  \* the empty string
  Inputs      \* the DAG inputs considered

NodeType == [name : Names \union {EmptyName}, deps : Seq(Names), valid : BOOLEAN]

ASSUME DagAssumption ==
  /\ EmptyName \notin Names
  /\ \A inp \in Inputs : /\ inp.nodes \in Seq(NodeType)
                         /\ inp.failFast \in BOOLEAN

Unvisited == 0
Visiting  == 1
Visited   == 2

VARIABLES
  input,    \* the DAGInput
  verdict,  \* pending, accepted, or why it was rejected
  screened, \* the checks before detect_cycles have passed
  next,     \* nodes detect_cycles' loop has passed
  state,    \* colour of each name
  stack     \* frames <<name, index of next dependency to visit>>

dagVars == <<input, verdict, screened, next, state, stack>>

Nodes == input.nodes
Index == 1 .. Len(Nodes)
NamesUsed == {Nodes[i].name : i \in Index}

\* adj: the dependency list of a name.
DepsOf(name) == Nodes[CHOOSE i \in Index : Nodes[i].name = name].deps
DepSet(name) == {DepsOf(name)[k] : k \in 1 .. Len(DepsOf(name))}

-----------------------------------------------------------------------------
(* validate() up to the cycle check *)

WellFormed ==
  /\ Nodes # <<>>
  /\ \A i \in Index : Nodes[i].name # EmptyName
  /\ \A i, j \in Index : Nodes[i].name = Nodes[j].name => i = j
  /\ \A i \in Index : \A k \in 1 .. Len(Nodes[i].deps) : Nodes[i].deps[k] \in NamesUsed
  /\ \A i \in Index : Nodes[i].valid

Screen ==
  /\ verdict = "pending"
  /\ ~screened
  /\ IF WellFormed
     THEN screened' = TRUE /\ UNCHANGED verdict
     ELSE verdict' = "InvalidInput" /\ UNCHANGED screened
  /\ UNCHANGED <<input, next, state, stack>>

-----------------------------------------------------------------------------
(* detect_cycles and dfs_iterative *)

Searching == verdict = "pending" /\ screened

\* A new frame, its cursor on the first dependency.
Push(name) ==
  /\ state' = [state EXCEPT ![name] = Visiting]
  /\ stack' = Append(stack, <<name, 1>>)

\* for node in nodes: start a search from each node not reached so far.
StartFrom ==
  /\ Searching /\ stack = <<>> /\ next < Len(Nodes)
  /\ next' = next + 1
  /\ IF state[Nodes[next + 1].name] = Unvisited
     THEN Push(Nodes[next + 1].name)
     ELSE UNCHANGED <<state, stack>>
  /\ UNCHANGED <<input, verdict, screened>>

AllSearched ==
  /\ Searching /\ stack = <<>> /\ next = Len(Nodes)
  /\ verdict' = "accepted"
  /\ UNCHANGED <<input, screened, next, state, stack>>

Top == stack[Len(stack)]

\* Mutant of Bump: the cursor does not move.
Stay == stack

\* *cursor += 1
Bump == [stack EXCEPT ![Len(stack)] = <<Top[1], Top[2] + 1>>]

\* Mutant of Finalise: the node is popped but stays "visiting".
PopOnly ==
  /\ Searching /\ stack # <<>>
  /\ Top[2] > Len(DepsOf(Top[1]))
  /\ stack' = SubSeq(stack, 1, Len(stack) - 1)
  /\ UNCHANGED <<input, verdict, screened, next, state>>

\* The cursor is past the last dependency: finalise the node and pop.
Finalise ==
  /\ Searching /\ stack # <<>>
  /\ Top[2] > Len(DepsOf(Top[1]))
  /\ state' = [state EXCEPT ![Top[1]] = Visited]
  /\ stack' = SubSeq(stack, 1, Len(stack) - 1)
  /\ UNCHANGED <<input, verdict, screened, next>>

\* Mutant of Visit: two colours, "visiting" taken for "visited".
VisitTwoColours(dep) ==
  /\ IF state[dep] = Unvisited
     THEN /\ state' = [state EXCEPT ![dep] = Visiting]
          /\ stack' = Append(Bump, <<dep, 1>>)
     ELSE stack' = Bump /\ UNCHANGED state
  /\ UNCHANGED verdict

\* What the search does with a dependency, by its colour.
Visit(dep) ==
  \/ /\ state[dep] = Visiting
     /\ verdict' = "Circular"
     /\ stack' = Bump
     /\ UNCHANGED state
  \/ /\ state[dep] = Unvisited
     /\ state' = [state EXCEPT ![dep] = Visiting]
     /\ stack' = Append(Bump, <<dep, 1>>)
     /\ UNCHANGED verdict
  \/ /\ state[dep] = Visited
     /\ stack' = Bump
     /\ UNCHANGED <<state, verdict>>

\* Take the next dependency of the node on top of the stack.
Descend ==
  /\ Searching /\ stack # <<>>
  /\ Top[2] <= Len(DepsOf(Top[1]))
  /\ Visit(DepsOf(Top[1])[Top[2]])
  /\ UNCHANGED <<input, screened, next>>

-----------------------------------------------------------------------------

DagInit ==
  /\ input \in Inputs
  /\ verdict = "pending"
  /\ screened = FALSE
  /\ next = 0
  /\ state = [n \in Names |-> Unvisited]
  /\ stack = <<>>

DagNext == Screen \/ StartFrom \/ AllSearched \/ Finalise \/ Descend

DagSpec == DagInit /\ [][DagNext]_dagVars

-----------------------------------------------------------------------------
(* Properties *)

\* Every variable of the validation keeps its type.
DagTypeOK ==
  /\ input \in Inputs
  /\ verdict \in {"pending", "accepted", "InvalidInput", "Circular"}
  /\ screened \in BOOLEAN
  /\ next \in 0 .. Len(Nodes)
  /\ state \in [Names -> {Unvisited, Visiting, Visited}]
  /\ stack \in Seq(Names \X (Nat \ {0}))

\* A set of nodes each of which waits for another node of the set.
Deadlocked(S) == S # {} /\ \A n \in S : DepSet(n) \intersect S # {}

\* An accepted input has no such set: every node can run at some point.
AcceptedIsAcyclic ==
  verdict = "accepted" => \A S \in SUBSET NamesUsed : ~Deadlocked(S)

\* An input is only rejected as circular when it has one.
CircularIsCyclic ==
  verdict = "Circular" => \E S \in SUBSET NamesUsed : Deadlocked(S)
=============================================================================
