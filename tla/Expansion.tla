----------------------------- MODULE Expansion -----------------------------
(***************************************************************************)
(* How a parameterized_loop makes its tasks: altair_wf::helpers'           *)
(* generate_parameter_combinations, and a substitutor that fills the       *)
(* template with substitute_template.  The workflow dispatches the tasks   *)
(* in this order, and when its worker is gone another process replays it   *)
(* and has to dispatch the same ones: every HashMap is then a new map with *)
(* an iteration order of its own.                                          *)
(*                                                                         *)
(* A text is a sequence of pieces: a placeholder, or a literal.  A value   *)
(* brings whole placeholders or none.                                      *)
(***************************************************************************)
EXTENDS Integers, FiniteSets, SequencesExt, TLC

Piece  == ({"item", "index", "lit"} \X STRING) \union ({"dot", "bare"} \X Nat)
Item   == <<"item", "">>      \* {{item}}
Index  == <<"index", "">>     \* {{index}}
Dot(k)  == <<"dot", k>>        \* {{.k}}
Bare(k) == <<"bare", k>>       \* {{k}}
Lit(s)  == <<"lit", s>>

VARIABLES
  params,      \* key -> the values to choose from, each a text
  template,
  turn,        \* execute, replay, end
  keyOrder,    \* the iteration order of params in this process
  dispatched,  \* the tasks of the execution
  replayed     \* the tasks of the replay

expansionVars == <<params, template, turn, keyOrder, dispatched, replayed>>

Orders(map) == SetToSeqs(DOMAIN map)

-----------------------------------------------------------------------------
(* helpers *)

\* str::replace
Replace(s, piece, by) ==
  FlattenSeq([k \in DOMAIN s |-> IF s[k] = piece THEN by ELSE <<s[k]>>])

\* The map is walked in whatever order it has.
SubstituteTemplate(s, item, index, values, order) ==
  LET fixedPart == Replace(Replace(s, Item, item), Index, <<Lit(ToString(index))>>)
      Fill(acc, k) == Replace(Replace(acc, Dot(k), values[k]), Bare(k), values[k])
  IN  FoldLeft(Fill, fixedPart, order)

\* Mutant of SortedKeys: the keys as the map gives them.
KeysAsMapped(map) == keyOrder

\* keys.sort(): their names are "a", "b", ... by position here.
SortedKeys(map) ==
  CHOOSE order \in Orders(map) : \A i, j \in DOMAIN order : i < j => order[i] < order[j]

\* HashMap::insert
Insert(f, k, v) == [x \in DOMAIN f \union {k} |-> IF x = k THEN v ELSE f[x]]

\* One combination for each choice, the last key changing fastest; fill()
\* inserts every key before it pushes a copy.
Combinations(map) ==
  LET Deeper(acc, k) ==
        FlattenSeq([c \in DOMAIN acc |->
          [v \in DOMAIN map[k] |-> Insert(acc[c], k, map[k][v])]])
  IN  IF map = <<>> THEN <<>> ELSE FoldLeft(Deeper, << <<>> >>, SortedKeys(map))

-----------------------------------------------------------------------------

\* The loop's next input: item is "", index counts from 0.
Task(n, order) ==
  SubstituteTemplate(template, <<>>, n - 1, Combinations(params)[n], order)

Dispatch ==
  /\ turn = "execute"
  /\ Len(dispatched) < Len(Combinations(params))
  /\ \E order \in Orders(params) :
       dispatched' = Append(dispatched, Task(Len(dispatched) + 1, order))
  /\ UNCHANGED <<params, template, turn, keyOrder, replayed>>

\* The worker is lost anywhere on the way.
Relocate ==
  /\ turn = "execute"
  /\ turn' = "replay"
  /\ keyOrder' \in Orders(params)
  /\ UNCHANGED <<params, template, dispatched, replayed>>

Replay ==
  /\ turn = "replay"
  /\ Len(replayed) < Len(Combinations(params))
  /\ \E order \in Orders(params) :
       replayed' = Append(replayed, Task(Len(replayed) + 1, order))
  /\ UNCHANGED <<params, template, turn, keyOrder, dispatched>>

ExpansionStart(map, text_) ==
  /\ params = map
  /\ template = text_
  /\ turn = "execute"
  /\ keyOrder = SetToSeq(DOMAIN params)
  /\ dispatched = <<>>
  /\ replayed = <<>>

ExpansionNext == Dispatch \/ Relocate \/ Replay

-----------------------------------------------------------------------------
(* Properties *)

\* Unless a value holds a placeholder, the replay dispatches what the
\* execution did, task for task, whatever the orders of the maps; and the
\* combinations are every choice of values, once each if no key has a value
\* twice.
ReplayAgrees ==
  LET plain == \A k \in DOMAIN params : \A v \in DOMAIN params[k] :
                 \A i \in DOMAIN params[k][v] : params[k][v][i][1] = "lit"
      distinct == \A k \in DOMAIN params : IsInjective(params[k])
      choices == {f \in [DOMAIN params -> UNION {ToSet(params[k]) : k \in DOMAIN params}] :
                    \A k \in DOMAIN params : f[k] \in ToSet(params[k])}
      common == IF Len(replayed) < Len(dispatched) THEN Len(replayed) ELSE Len(dispatched)
  IN  /\ plain => \A n \in 1 .. common : replayed[n] = dispatched[n]
      /\ params # <<>> =>
           /\ ToSet(Combinations(params)) = choices
           /\ distinct => Len(Combinations(params)) = Cardinality(choices)
=============================================================================
