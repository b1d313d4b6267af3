------------------------------- MODULE DagRun -------------------------------
(***************************************************************************)
(* altair_wf::run_dag: once the input is accepted, topological_layers      *)
(* splits the nodes into waves; the nodes of a wave run concurrently, and  *)
(* when all of them have answered their outcomes are recorded in node      *)
(* order.  With fail_fast the first recorded failure ends the run.         *)
(***************************************************************************)
EXTENDS DagValidation

\* How execute_one(node) ends: Ok and is_success(), Ok without it, or Err.
Outcomes == {"ok", "failed", "error"}

VARIABLES
  phase,    \* validate, layers, wave, returned
  layers,   \* waves, each a set of node indices
  done,     \* topological_layers: names placed in a wave
  wave,     \* the wave being run
  started,  \* node indices handed to execute_one
  outcome,  \* how each node that has answered ended
  records,  \* node_results: node indices in the order recorded
  result    \* none, Ok, InvalidInput, or PatternStopped

runVars == <<phase, layers, done, wave, started, outcome, records, result>>
vars == <<dagVars, runVars>>

-----------------------------------------------------------------------------
(* validate()? and topological_layers() *)

Validate ==
  /\ phase = "validate"
  /\ DagNext
  /\ UNCHANGED runVars

Validated ==
  /\ phase = "validate" /\ verdict # "pending"
  /\ IF verdict = "accepted"
     THEN phase' = "layers" /\ UNCHANGED result
     ELSE phase' = "returned" /\ result' = "InvalidInput"
  /\ UNCHANGED <<dagVars, layers, done, wave, started, outcome, records>>

\* Mutants of NextLayer: one placed dependency is enough; placed nodes are
\* not skipped.
AnyDepPlaced ==
  {i \in Index : /\ Nodes[i].name \notin done
                 /\ Nodes[i].deps = <<>> \/ DepSet(Nodes[i].name) \intersect done # {}}
PlacedAgain == {i \in Index : DepSet(Nodes[i].name) \subseteq done}

\* One turn of the while loop: the nodes whose dependencies are all placed.
NextLayer ==
  {i \in Index : /\ Nodes[i].name \notin done
                 /\ DepSet(Nodes[i].name) \subseteq done}

AddLayer ==
  /\ phase = "layers"
  /\ Cardinality(done) < Len(Nodes) /\ NextLayer # {}
  /\ layers' = Append(layers, NextLayer)
  /\ done' = done \union {Nodes[i].name : i \in NextLayer}
  /\ UNCHANGED <<dagVars, phase, wave, started, outcome, records, result>>

\* Enter wave w, or answer when there is none: every future is created at
\* once by join_all.
EnterWave(w) ==
  IF w <= Len(layers)
  THEN /\ phase' = "wave"
       /\ wave' = w
       /\ started' = started \union layers[w]
       /\ UNCHANGED result
  ELSE /\ phase' = "returned"
       /\ result' = "Ok"
       /\ UNCHANGED <<wave, started>>

\* The loop ends when all nodes are placed, or on an empty layer.
LayersDone ==
  /\ phase = "layers"
  /\ Cardinality(done) = Len(Nodes) \/ NextLayer = {}
  /\ EnterWave(1)
  /\ UNCHANGED <<dagVars, layers, done, outcome, records>>

-----------------------------------------------------------------------------
(* The waves *)

\* execute_one answers for one node of the wave, in any order.
Answer(i) ==
  /\ phase = "wave"
  /\ i \in layers[wave] /\ outcome[i] = "none"
  /\ \E o \in Outcomes : outcome' = [outcome EXCEPT ![i] = o]
  /\ UNCHANGED <<dagVars, phase, layers, done, wave, started, records, result>>

\* The indices of a wave in node order.
InOrder(S) ==
  CHOOSE s \in [1 .. Cardinality(S) -> S] :
    \A a, b \in DOMAIN s : a < b => s[a] < s[b]

\* Mutant of Stoppers: only an Err ends the run.
ErrorsOnly(S) == {i \in S : input.failFast /\ outcome[i] = "error"}

\* The failures that end the run: with fail_fast, any of them.
Stoppers(S) == {i \in S : input.failFast /\ outcome[i] # "ok"}

\* join_all has every answer: record them in node order; a stopper is
\* recorded, and nothing after it.
Collect ==
  /\ phase = "wave"
  /\ \A i \in layers[wave] : outcome[i] # "none"
  /\ LET stoppers == Stoppers(layers[wave])
         recorded == {i \in layers[wave] : \A s \in stoppers : i <= s}
     IN  /\ records' = records \o InOrder(recorded)
         /\ IF stoppers # {}
            THEN /\ phase' = "returned"
                 /\ result' = "PatternStopped"
                 /\ UNCHANGED <<wave, started>>
            ELSE EnterWave(wave + 1)
  /\ UNCHANGED <<dagVars, layers, done, outcome>>

-----------------------------------------------------------------------------

Init ==
  /\ DagInit
  /\ phase = "validate"
  /\ layers = <<>>
  /\ done = {}
  /\ wave = 0
  /\ started = {}
  /\ outcome = [i \in Index |-> "none"]
  /\ records = <<>>
  /\ result = "none"

Next ==
  \/ Validate \/ Validated
  \/ AddLayer \/ LayersDone
  \/ \E i \in Index : Answer(i)
  \/ Collect

Spec == Init /\ [][Next]_vars

\* The workflow is driven, and every activity answers in the end.
FairSpec == Spec /\ WF_vars(Next)

-----------------------------------------------------------------------------
(* Properties *)

Depends(i, j) == Nodes[j].name \in DepSet(Nodes[i].name)

\* A node is only started when the nodes it depends on have answered, and
\* with fail_fast only when they succeeded.
DependenciesFirst ==
  \A i \in started, j \in Index :
    Depends(i, j) =>
      /\ outcome[j] # "none"
      /\ input.failFast => outcome[j] = "ok"

\* node_results is in execution order: no node is recorded twice, and the
\* dependencies of a recorded node are recorded before it.
RecordsTopological ==
  \A a, b \in DOMAIN records :
    /\ records[a] = records[b] => a = b
    /\ Depends(records[a], records[b]) => b < a

\* An Ok answer accounts for every node; a PatternStopped answer names a
\* node that failed, and every node recorded before it succeeded.
AnswerAccounts ==
  /\ result = "Ok" =>
       /\ {records[a] : a \in DOMAIN records} = Index
       /\ input.failFast => \A i \in Index : outcome[i] = "ok"
  /\ result = "PatternStopped" =>
       /\ outcome[records[Len(records)]] # "ok"
       /\ \A a \in 1 .. (Len(records) - 1) : outcome[records[a]] = "ok"

\* Every run comes to an answer: an accepted DAG never waits for itself.
RunReturns == <>(phase = "returned")
=============================================================================
