----------------------------- MODULE MCPlayTree -----------------------------
EXTENDS PlayTree, TLC

CONSTANTS a, b, c, d, x, y, empty, pls, top, g, h, new, unset

MCFiles == {a, b, c, d, x, y, empty, pls}
MCGroups == {top, g, h, new}

MCSources == [f \in MCFiles |-> IF f = b THEN 3 ELSE 1]

Tree(kid, loop, par, rnd) ==
  [kids |-> kid @@ [n \in MCFiles \cup MCGroups |-> <<>>],
   loops |-> loop @@ [n \in MCFiles \cup MCGroups |-> 0],
   params |-> par @@ [n \in MCFiles \cup MCGroups |-> unset],
   shuffled |-> rnd]

MCTrees == {
  \* a group in the middle of a list that plays twice, to step back through
  Tree(top :> <<a, g, d>> @@ g :> <<b, c>>, top :> 2, top :> 1 @@ g :> 2, {}),
  \* a group in a group, each at the beginning of its list or in the middle
  Tree(top :> <<a, h, d>> @@ h :> <<g, c>> @@ g :> <<b>>, <<>>, h :> 1 @@ b :> 2, {}),
  \* two loops, parameters on three levels
  Tree(top :> <<a, g, d>> @@ g :> <<b, c>>, top :> 2 @@ g :> 2,
       top :> 1 @@ g :> 2 @@ c :> 1, {}),
  \* groups in groups, an empty one first
  Tree(top :> <<h, g, d>> @@ g :> <<a, new, c>> @@ new :> <<b>>,
       top :> 2 @@ g :> 1, new :> 1 @@ a :> 2, {}),
  \* an endless loop, and a playlist in it
  Tree(top :> <<a, pls>>, top :> -1, pls :> 1, {}),
  \* the only file of a group is an empty playlist
  Tree(top :> <<g, a>> @@ g :> <<empty>>, top :> 2, g :> 1, {}),
  \* the only file is an empty playlist, alone in a group, for ever
  Tree(top :> <<g>> @@ g :> <<empty>>, top :> -1, g :> 1, {}),
  \* the same beside a file, in a group that plays three times
  Tree(top :> <<g, a>> @@ g :> <<h>> @@ h :> <<empty>>, g :> 3, <<>>, {}),
  \* an empty playlist alone in a group, to be shuffled
  Tree(top :> <<g, a>> @@ g :> <<empty>>, top :> 1, <<>>, {top}),
  \* the only file is an empty playlist
  Tree(top :> <<empty>>, top :> 2, <<>>, {}),
  \* shuffled, twice
  Tree(top :> <<a, b, c>>, top :> 1, top :> 2, {top}),
  \* an empty playlist to be shuffled
  Tree(top :> <<empty, a>>, top :> 2, <<>>, {top}),
  \* shuffled for ever
  Tree(top :> <<a, c>>, top :> -1, a :> 1, {top}),
  \* a shuffled group in a list
  Tree(top :> <<a, g>> @@ g :> <<b, c>>, top :> 1, g :> 1, {g}),
  \* shuffled groups in groups, which a load gives up inside
  Tree(top :> <<h>> @@ h :> <<g>> @@ g :> <<a, b>>, <<>>, g :> 2, {h, g}),
  \* nothing at all
  Tree(top :> <<h>>, top :> 2, <<>>, {}) }

MCLoads == {[top |-> x, list |-> <<>>], [top |-> h, list |-> <<x, y>>]}

MCContents == empty :> NoEntry @@ pls :> [top |-> g, list |-> <<b, c>>]
=============================================================================
