----------------------------- MODULE MCToolkit -----------------------------
(***************************************************************************)
(* The inputs on which TLC runs the parts of Toolkit.                      *)
(***************************************************************************)
EXTENDS Toolkit

\* No partition, one, and two.
Batches == {<<>>, <<"good">>, <<"bad">>, <<"good", "bad">>, <<"bad", "good">>}
UpToTwo == {<<>>} \union {<<a>> : a \in Batches} \union {<<a, b>> : a, b \in Batches}

\* The last one has more blocks than a word can count.
SmallTrees == {[a |-> 1, b |-> 2, d |-> Dir], [a |-> 2, b |-> 1, s |-> Special], [a |-> 3],
               [a |-> 3, b |-> 2]}

FourSymbols == <<"0", "1", "2", "3">>
OneMore == <<"*">>

X == <<Lit("x")>>
Y == <<Lit("y")>>
SmallMaps == {<<<<X, Y>>, <<Y>>>>, <<<<X, Y>>, <<X, Y>>>>, <<<<X>>, <<>>>>, <<<<X, Y>>>>,
              <<<<X>>, <<Y>>, <<X, Y>>>>, <<<<X, <<Bare(2)>>>>, <<Y>>>>,
              <<<<X, X>>, <<Y>>>>}
SmallTemplates ==
  {<<Bare(1), Dot(2)>>, <<Item, Index, Dot(1)>>, <<Dot(1), Lit("z"), Bare(3)>>}

Sets(port, host, pool) ==
  [k \in ConfigKeys |-> CASE k = Port -> port [] k = Host -> host [] OTHER -> pool]
FileOf(where, optional, broken, values) ==
  [where |-> where, optional |-> optional, broken |-> broken, table |-> values]
BaseFiles ==
  {FileOf("here", FALSE, FALSE, Sets("v1", "v1", "v1")),
   FileOf("parent", FALSE, FALSE, Sets("v1", "v2", Unset)),
   FileOf("nowhere", FALSE, FALSE, Sets("v1", "v1", "v1"))}
LocalFiles ==
  {FileOf(where, TRUE, broken, values) :
     where \in {"here", "parent", "nowhere"}, broken \in BOOLEAN,
     values \in {Sets("v2", Unset, "v2"), Sets("bad", "v2", Unset)}}
FromReader == FileOf("inline", FALSE, FALSE, Sets("v1", "v2", "bad"))
TwoLayers == {<<base, local>> : base \in BaseFiles, local \in LocalFiles} \union {<<FromReader>>}
SmallEnvironments ==
  {Sets(a, b, c) : a \in {Unset, "v2"}, b \in {Unset, "bad"}, c \in {Unset, "v2"}}
=============================================================================
