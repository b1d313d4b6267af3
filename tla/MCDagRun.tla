------------------------------ MODULE MCDagRun ------------------------------
\* Every graph of up to two well-formed nodes whose dependency lists hold up
\* to two names, self-loops and repetitions included; every such graph of
\* three nodes where only the first may depend on itself; four-node shapes;
\* and an input for each check that comes before the cycle search.
EXTENDS DagRun

MCNames == 1 .. 4
MCEmpty == 0

Lists(S) == {<<>>} \union {<<a>> : a \in S} \union {<<a, b>> : a, b \in S}

N(name, deps, valid) == [name |-> name, deps |-> deps, valid |-> valid]
Graph(deps) == [i \in DOMAIN deps |-> N(i, deps[i], TRUE)]

Small == UNION {{Graph(d) : d \in [1 .. n -> Lists(1 .. n)]} : n \in 1 .. 2}
Three == {Graph(<<a, b, c>>) : a \in Lists({1, 2, 3}), b \in Lists({3, 1}),
                               c \in Lists({1, 2})}

\* The graphs of the examples: build, test and lint, deploy; a, b, c, d.
HelloDag == Graph(<< <<>>, <<1>>, <<1>>, <<2, 3>> >>)
ScheduledDagDiamond == Graph(<< <<>>, <<1>>, <<1>>, <<2, 3>> >>)
ScheduledDagLinear == Graph(<< <<>>, <<1>>, <<2>>, <<3>> >>)

Four == {
  HelloDag, ScheduledDagDiamond, ScheduledDagLinear,
  Graph(<< <<4>>, <<1>>, <<>>, <<3>> >>),          \* chain, out of order
  Graph(<< <<2>>, <<3>>, <<4>>, <<1>> >>),         \* ring
  Graph(<< <<>>, <<>>, <<>>, <<>> >>),             \* independent
  Graph(<< <<2, 3>>, <<4>>, <<4>>, <<3>> >>),      \* cycle behind a fork
  Graph(<< <<2>>, <<>>, <<1, 4>>, <<2>> >>) }
Malformed == {
  <<>>,
  <<N(MCEmpty, <<>>, TRUE)>>,
  <<N(1, <<>>, TRUE), N(1, <<>>, TRUE)>>,
  <<N(1, <<2>>, TRUE)>>,
  <<N(1, <<>>, FALSE)>> }

MCInputs ==
  {[nodes |-> g, failFast |-> f] :
     g \in Small \union Three \union Four \union Malformed, f \in BOOLEAN}
=============================================================================
