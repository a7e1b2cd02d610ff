--------------------------- MODULE PlayTree_proofs ---------------------------
(***************************************************************************)
(* What TLAPS proves of the play tree for every tree, every number of      *)
(* commands and every load and playlist: its state is typed, so that no    *)
(* step reads a source, a parent or a saved option that is not there, and  *)
(* the levels of options are those of the groups the iterator is in.       *)
(***************************************************************************)
EXTENDS PlayTree, TLAPS, WellFoundedInduction

-----------------------------------------------------------------------------
(* Induction over the numbers, as a fact about a set of them.               *)
LEMMA Induct ==
  ASSUME NEW T \in SUBSET Nat, 0 \in T, \A n \in T : n + 1 \in T
  PROVE  T = Nat
<1> DEFINE Out == Nat \ T
           R == OpToRel(<, Nat)
<1>1. IsWellFoundedOn(R, Nat)
  BY NatLessThanWellFounded
<1>2. ASSUME NEW x \in Nat, NEW y \in Nat, y < x PROVE <<y, x>> \in R
  BY <1>2 DEF OpToRel
<1> HIDE DEF R
<1>3. ASSUME Out # {} PROVE FALSE
  <2>1. PICK x \in Out : \A y \in Out : ~ (<<y, x>> \in R)
    <3>1. Out \subseteq Nat
      BY DEF Out
    <3> HIDE DEF Out
    <3> QED
      BY <1>3, <3>1, <1>1, WFMin
  <2>2. x - 1 \in Nat /\ x - 1 < x
    BY <2>1
  <2>3. x - 1 \notin Out
    BY <2>1, <2>2, <1>2
  <2> QED
    BY <2>1, <2>2, <2>3
<1> QED
  BY <1>3

(* Kept is what its recursive definition says: there is such a function.    *)
LEMMA KeptUnfolds ==
  ASSUME NEW A, NEW list \in Seq(A), NEW S
  PROVE  \E kept : /\ Kept(list, S) = kept[Len(list)]
                   /\ \A i \in 0..Len(list) :
                        kept[i] = IF i = 0 THEN <<>>
                                  ELSE IF list[i] \in S THEN Append(kept[i - 1], list[i])
                                  ELSE kept[i - 1]
<1> DEFINE N == Len(list)
           step(g, i) == IF i = 0 THEN <<>>
                         ELSE IF list[i] \in S THEN Append(g[i - 1], list[i]) ELSE g[i - 1]
           Fits(g, n) == g = [i \in 0..n |-> step(g, i)]
           T == {n \in Nat : n <= N => \E g : Fits(g, n)}
<1>1. 0 \in T
  <2>1. Fits([i \in 0..0 |-> <<>>], 0)
    OBVIOUS
  <2> QED
    BY <2>1
<1>2. ASSUME NEW n \in T PROVE n + 1 \in T
  <2>1. n \in Nat /\ n + 1 \in Nat /\ (n + 1 <= N => n <= N)
    <3> HIDE DEF Fits
    <3> QED
      BY <1>2
  <2>2. ASSUME n + 1 <= N PROVE \E h : Fits(h, n + 1)
    <3>1. PICK g : Fits(g, n)
      <4> HIDE DEF Fits
      <4> QED
        BY <1>2, <2>1, <2>2
    <3> DEFINE h == [i \in 0..(n + 1) |-> IF i = n + 1 THEN step(g, n + 1) ELSE g[i]]
    <3>2. ASSUME NEW i \in 0..(n + 1) PROVE h[i] = step(h, i)
      <4>1. CASE i = n + 1
        BY <4>1, <2>1
      <4>2. CASE i \in 0..n
        <5>1. h[i] = g[i] /\ (i # 0 => h[i - 1] = g[i - 1])
          BY <4>2, <2>1
        <5>2. g[i] = step(g, i)
          BY <3>1, <4>2
        <5> QED
          BY <5>1, <5>2
      <4> QED
        BY <4>1, <4>2, <2>1
    <3>3. Fits(h, n + 1)
      BY <3>2
    <3> HIDE DEF h, Fits
    <3> QED
      BY <3>3
  <2> HIDE DEF Fits
  <2> QED
    BY <2>1, <2>2
<1>3. N \in T
  <2> HIDE DEF Fits
  <2>1. T \in SUBSET Nat
    OBVIOUS
  <2>2. N \in Nat
    OBVIOUS
  <2> HIDE DEF T, N
  <2>3. T = Nat
    BY <1>1, <1>2, <2>1, Induct
  <2> QED
    BY <2>2, <2>3
<1> DEFINE kept == CHOOSE g : Fits(g, N)
<1>4. Fits(kept, N)
  <2> HIDE DEF Fits
  <2> QED
    BY <1>3
<1>5. Kept(list, S) = kept[N]
  BY DEF Kept
<1> HIDE DEF kept
<1>6. \A i \in 0..N : kept[i] = step(kept, i)
  BY <1>4
<1> QED
  BY <1>5, <1>6

(* What is kept of a list is a list of its members.                         *)
LEMMA KeptIn ==
  ASSUME NEW A, NEW list \in Seq(A), NEW S
  PROVE  Kept(list, S) \in Seq(A)
<1> DEFINE N == Len(list)
           step(g, i) == IF i = 0 THEN <<>>
                         ELSE IF list[i] \in S THEN Append(g[i - 1], list[i]) ELSE g[i - 1]
<1>1. PICK kept : Kept(list, S) = kept[N] /\ \A i \in 0..N : kept[i] = step(kept, i)
  BY KeptUnfolds
<1> DEFINE U == {n \in Nat : n <= N => kept[n] \in Seq(A)}
<1>2. \A n \in U : n + 1 \in U
  <2> SUFFICES ASSUME NEW n \in U, n + 1 <= N PROVE kept[n + 1] \in Seq(A)
    OBVIOUS
  <2>1. n + 1 \in 0..N /\ n + 1 # 0 /\ (n + 1) - 1 = n /\ kept[n] \in Seq(A)
    OBVIOUS
  <2>2. kept[n + 1] = step(kept, n + 1)
    BY <1>1, <2>1
  <2>3. list[n + 1] \in A
    BY <2>1
  <2> QED
    BY <2>1, <2>2, <2>3
<1>3. 0 \in U
  <2>1. 0 \in 0..N
    OBVIOUS
  <2>2. kept[0] = <<>>
    BY <1>1, <2>1
  <2>3. <<>> \in Seq(A)
    OBVIOUS
  <2> QED
    BY <2>2, <2>3
<1>4. U = Nat
  BY <1>2, <1>3, Induct
<1> QED
  BY <1>1, <1>4

LEMMA KeptMembers ==
  ASSUME NEW A, NEW list \in Seq(A), NEW S, NEW j \in DOMAIN Kept(list, S)
  PROVE  \E i \in DOMAIN list : Kept(list, S)[j] = list[i]
<1> DEFINE B == {list[i] : i \in DOMAIN list}
<1>1. list \in Seq(B)
  OBVIOUS
<1>2. Kept(list, S) \in Seq(B)
  BY <1>1, KeptIn
<1>3. Kept(list, S)[j] \in B
  BY <1>2
<1> QED
  BY <1>3

(* Valid is what its recursive definition says: there is such a set, the    *)
(* complement of the largest set of groups that only have each other.       *)
ValidIn(k) ==
  LET valid[n \in Nodes] == n \in Files \/ \E i \in DOMAIN k[n] : valid[k[n][i]]
  IN {n \in Nodes : valid[n]}

LEMMA ValidInUnfolds ==
  ASSUME NEW k, k \in [Nodes -> Seq(Nodes)], NEW n \in Nodes
  PROVE  n \in ValidIn(k) <=> n \in Files \/ \E i \in DOMAIN k[n] : k[n][i] \in ValidIn(k)
<1> DEFINE step(v) == [m \in Nodes |-> m \in Files \/ \E i \in DOMAIN k[m] : v[k[m][i]]]
           Fits(v) == v = step(v)
           Closed(S) == \A m \in S : \A i \in DOMAIN k[m] : k[m][i] \in S
           Void == UNION {S \in SUBSET Groups : Closed(S)}
           v0 == [m \in Nodes |-> m \notin Void]
<1>1. Void \subseteq Groups /\ Closed(Void)
  OBVIOUS
<1>2. ASSUME NEW m \in Groups, \A i \in DOMAIN k[m] : k[m][i] \in Void PROVE m \in Void
  <2> DEFINE W == Void \cup {m}
  <2>1. W \in SUBSET Groups /\ Closed(W)
    <3> HIDE DEF Void
    <3> QED
      BY <1>1, <1>2
  <2> HIDE DEF W, Closed
  <2>2. W \subseteq Void
    BY <2>1
  <2> QED
    BY <2>2 DEF W
<1> HIDE DEF Void
<1>3. ASSUME NEW m \in Nodes
      PROVE  m \notin Void <=> m \in Files \/ \E i \in DOMAIN k[m] : k[m][i] \notin Void
  BY <1>1, <1>2, NodesAssumption DEF Nodes
<1>4. Fits(v0)
  <2>1. \A m \in Nodes : \A i \in DOMAIN k[m] : k[m][i] \in Nodes
    OBVIOUS
  <2>2. ASSUME NEW m \in Nodes PROVE v0[m] = step(v0)[m]
    BY <2>1, <1>3, Zenon
  <2> QED
    BY <2>2, Zenon
<1> DEFINE valid == CHOOSE v : Fits(v)
<1>5. Fits(valid)
  <2> HIDE DEF Fits
  <2> QED
    BY <1>4
<1>6. ValidIn(k) = {m \in Nodes : valid[m]}
  BY Zenon DEF ValidIn
<1> HIDE DEF valid
<1>7. valid[n] = (n \in Files \/ \E i \in DOMAIN k[n] : valid[k[n][i]])
  BY <1>5, Zenon
<1>8. \A i \in DOMAIN k[n] : k[n][i] \in Nodes
  OBVIOUS
<1> QED
  BY <1>6, <1>7, <1>8, Zenon

LEMMA ValidUnfolds ==
  ASSUME kids \in [Nodes -> Seq(Nodes)], NEW n \in Nodes
  PROVE  n \in Valid <=> n \in Files \/ \E i \in DOMAIN kids[n] : kids[n][i] \in Valid
<1>1. Valid = ValidIn(kids)
  BY Zenon DEF Valid, ValidIn
<1> QED
  BY <1>1, ValidInUnfolds

-----------------------------------------------------------------------------
(* Parents and siblings.                                                    *)
ParentIn(k, n) == IF \E p \in Groups : Contains(k[p], n)
                  THEN CHOOSE p \in Groups : Contains(k[p], n) ELSE NoNode

LEMMA ParentInHasIt ==
  ASSUME NEW k, k \in [Nodes -> Seq(Nodes)], NEW n, ParentIn(k, n) # NoNode
  PROVE  /\ ParentIn(k, n) \in Groups
         /\ \E i \in DOMAIN k[ParentIn(k, n)] : k[ParentIn(k, n)][i] = n
<1>1. \E p \in Groups : Contains(k[p], n)
  BY Zenon DEF ParentIn
<1>2. ParentIn(k, n) \in Groups /\ Contains(k[ParentIn(k, n)], n)
  BY <1>1, Zenon DEF ParentIn
<1>3. k[ParentIn(k, n)] \in Seq(Nodes)
  BY <1>2 DEF Nodes
<1> QED
  BY <1>2, <1>3 DEF Contains

LEMMA ParentHasIt ==
  ASSUME kids \in [Nodes -> Seq(Nodes)], NEW n, ParentOf(n) # NoNode
  PROVE  /\ ParentOf(n) \in Groups
         /\ \E i \in DOMAIN kids[ParentOf(n)] : kids[ParentOf(n)][i] = n
<1>1. ParentOf(n) = ParentIn(kids, n)
  BY Zenon DEF ParentOf, ParentIn
<1> QED
  BY <1>1, ParentInHasIt

LEMMA SiblingsTyped ==
  ASSUME kids \in [Nodes -> Seq(Nodes)], NEW n \in Nodes
  PROVE  /\ Siblings(n) \in Seq(Nodes) /\ Siblings(n) # <<>>
         /\ Place(n) \in DOMAIN Siblings(n) /\ Siblings(n)[Place(n)] = n
<1>1. Siblings(n) \in Seq(Nodes) /\ \E i \in DOMAIN Siblings(n) : Siblings(n)[i] = n
  <2>1. CASE ParentOf(n) = NoNode
    BY <2>1 DEF Siblings
  <2>2. CASE ParentOf(n) # NoNode
    BY <2>2, ParentHasIt DEF Siblings, Nodes
  <2> QED
    BY <2>1, <2>2
<1>2. Place(n) \in DOMAIN Siblings(n) /\ Siblings(n)[Place(n)] = n
  BY <1>1, Zenon DEF Place
<1> QED
  BY <1>1, <1>2

(* Where a walk ends, and what it leaves to do.                             *)
LEMMA WalkTyped ==
  ASSUME NEW list \in Seq(Nodes), NEW i \in DOMAIN list, NEW d \in Int
  PROVE  /\ Walk(list, i, d).left \in Int
         /\ Walk(list, i, d).to = NoNode \/ Walk(list, i, d).to \in ToSet(list)
         /\ d = 0 => Walk(list, i, d) = [to |-> list[i], left |-> 0]
<1>1. i \in Int /\ Len(list) \in Int
  OBVIOUS
<1>2. CASE d = 0
  <2>1. Walk(list, i, d) = [to |-> list[i], left |-> 0]
    BY <1>1, <1>2 DEF Walk
  <2> QED
    BY <2>1 DEF ToSet
<1>3. CASE d # 0
  BY <1>1, <1>3 DEF Walk, ToSet
<1> QED
  BY <1>2, <1>3
(* Where a step of the iterator may go: to a sibling, or to none.           *)
LEMMA TargetsNear ==
  ASSUME kids \in [Nodes -> Seq(Nodes)], iter.node \in Nodes, dir \in Int, NEW t \in Targets
  PROVE  /\ t.left \in Int
         /\ t.to = NoNode \/ t.to \in ToSet(Siblings(iter.node))
<1>1. CASE Left.random
  <2>1. PICK n \in (IF Unplayed = {} THEN {NoNode} ELSE Unplayed) : t = [to |-> n, left |-> dir]
    BY <1>1 DEF Targets
  <2> QED
    BY <2>1 DEF Unplayed
<1>2. CASE ~Left.random
  <2>1. t = Walk(Siblings(iter.node), Place(iter.node), dir)
    BY <1>2 DEF Targets
  <2> QED
    BY <2>1, SiblingsTyped, WalkTyped
<1> QED
  BY <1>1, <1>2

-----------------------------------------------------------------------------
(* The inductive invariant.                                                 *)

(* d is how far a node is below the root.                                   *)
Graded(k, d) ==
  d[Root] = 0 /\ \A p \in Groups : \A i \in DOMAIN k[p] : d[k[p][i]] = d[p] + 1

(* The iterator has a loop count for each list around its node.             *)
Deep(d, it) == it.node \in Nodes => d[it.node] <= Len(it.stack)

Levels ==
  \E d \in [Nodes -> Nat] : Graded(kids, d) /\ Deep(d, iter) /\ Deep(d, saved)

(* Under the levels of the groups is at least the one that main began with. *)
Balanced == base >= 1 /\ conf.slots # <<>> /\ LevelsPaired

(* What is known where a call is made, and where it has returned: above all,*)
(* that a file is only taken from the iterator where it has an entry.       *)
Calls ==
  /\ pc # "rest" => ret = "none" /\ job \notin {"none", "boot", "files", "playlist"}
  /\ pc = "down" => iter.node \in Groups /\ kids[iter.node] # <<>>
  /\ job = "boot" => iter = NoIter
  /\ job \notin {"none", "boot"} => iter.live
  /\ ret = "entry" => iter.node \in Files
  /\ job \in {"files", "playlist"} \/ (job = "none" /\ iter.live) => iter.node \in Files
  /\ job = "playlist" => iter.node \in DOMAIN Contents
  /\ IF job = "peek" THEN saved.live /\ saved.node \in Files ELSE saved = NoIter

(* The search for the first entry of a load that replaced all others.  Its  *)
(* caller takes it without a look at the result.                            *)
Ahead ==
  /\ pc \in {"step", "down"} /\ dir = 0 /\ ~withNodes
  /\ played = {} /\ shuffled \subseteq {Root}
  /\ \E e \in Loads : /\ kids = OnlyEntry(e)
                      /\ iter.node \in {Root, e.top} \cup ToSet(e.list)

HeadAhead == job = "head" => IF pc = "rest" THEN ret = "entry" ELSE Ahead

IInv == TypeOK /\ Levels /\ Balanced /\ Calls /\ HeadAhead

-----------------------------------------------------------------------------
LEMMA SiblingLevel ==
  ASSUME kids \in [Nodes -> Seq(Nodes)], NEW d \in [Nodes -> Nat], Graded(kids, d),
         NEW n \in Nodes, NEW m \in ToSet(Siblings(n))
  PROVE  m \in Nodes /\ d[m] = d[n]
<1>1. CASE ParentOf(n) = NoNode
  BY <1>1 DEF Siblings, ToSet
<1>2. CASE ParentOf(n) # NoNode
  BY <1>2, ParentHasIt DEF Siblings, ToSet, Graded, Nodes
<1> QED
  BY <1>1, <1>2

LEMMA ParentLevel ==
  ASSUME kids \in [Nodes -> Seq(Nodes)], NEW d \in [Nodes -> Nat], Graded(kids, d),
         NEW n \in Nodes, ParentOf(n) # NoNode
  PROVE  ParentOf(n) \in Groups /\ d[n] = d[ParentOf(n)] + 1
BY ParentHasIt DEF Graded

(* The levels of options.                                                   *)
Config == [slots : Seq(Values), value : Values]

LEMMA PushTyped ==
  ASSUME NEW c \in Config, c.slots # <<>>
  PROVE  Push(c) \in Config /\ Len(Push(c).slots) = Len(c.slots) + 1
<1> DEFINE s == [c.slots EXCEPT ![Len(c.slots)] = c.value]
<1>1. s \in Seq(Values) /\ Len(s) = Len(c.slots) /\ c.value \in Values
  BY DEF Config
<1>2. Push(c) = [slots |-> Append(s, c.value), value |-> c.value]
  BY DEF Push, Config
<1> QED
  BY <1>1, <1>2 DEF Config

LEMMA PushParamsTyped ==
  ASSUME NEW c \in Config, c.slots # <<>>, params \in [Nodes -> Values \cup {Unset}],
         NEW n \in Nodes
  PROVE  PushParams(c, n) \in Config /\ Len(PushParams(c, n).slots) = Len(c.slots) + 1
<1>1. CASE params[n] = Unset
  BY <1>1, PushTyped DEF PushParams
<1>2. CASE params[n] # Unset
  <2>1. params[n] \in Values
    BY <1>2
  <2>2. PushParams(c, n) = [slots |-> [Push(c).slots EXCEPT ![Len(Push(c).slots)] = params[n]],
                            value |-> params[n]]
    BY <1>2 DEF PushParams
  <2>3. Push(c).slots \in Seq(Values) /\ Len(Push(c).slots) = Len(c.slots) + 1
    BY PushTyped DEF Config
  <2> QED
    BY <2>1, <2>2, <2>3 DEF Config
<1> QED
  BY <1>1, <1>2

LEMMA PopTyped ==
  ASSUME NEW c \in Config, Len(c.slots) >= 2
  PROVE  Pop(c) \in Config /\ Len(Pop(c).slots) = Len(c.slots) - 1
<1> DEFINE s == Front(c.slots)
<1>1. s \in Seq(Values) /\ Len(s) = Len(c.slots) - 1 /\ s[Len(s)] \in Values
  BY DEF Config, Front
<1> QED
  BY <1>1 DEF Pop, Config, Last
-----------------------------------------------------------------------------
(* An iterator is its fields, and one with other values in some of them is  *)
(* again of the right type.                                                 *)
LEMMA Fields ==
  ASSUME NEW it \in Iterators
  PROVE  /\ it = [live |-> it.live, node |-> it.node, loop |-> it.loop, file |-> it.file,
                  pushed |-> it.pushed, random |-> it.random, stack |-> it.stack]
         /\ it.live \in BOOLEAN /\ it.pushed \in BOOLEAN /\ it.random \in BOOLEAN
         /\ it.node \in Nodes \cup {NoNode} /\ it.loop \in Int /\ it.file \in Int
         /\ it.stack \in Seq(Int) /\ -1 \in Int
BY DEF Iterators

NodeIs(new, it, n) == new = [it EXCEPT !.node = n]

LEMMA NodeTyped ==
  ASSUME NEW it \in Iterators, NEW n \in Nodes, NEW new,
         NodeIs(new, it, n)
  PROVE  /\ new \in Iterators /\ new.live = it.live /\ new.node = n
         /\ new.stack = it.stack /\ new.pushed = it.pushed
<1>0. it = [live |-> it.live, node |-> it.node, loop |-> it.loop, file |-> it.file,
            pushed |-> it.pushed, random |-> it.random, stack |-> it.stack]
  BY Fields
<1>1. new = [live |-> it.live, node |-> n, loop |-> it.loop, file |-> it.file,
             pushed |-> it.pushed, random |-> it.random, stack |-> it.stack]
  BY <1>0 DEF NodeIs
<1>2. n \in Nodes \cup {NoNode}
  BY Fields
<1>3. new \in Iterators
  BY <1>1, <1>2, Fields, Zenon DEF Iterators
<1>4. /\ new.live = it.live /\ new.node = n
      /\ new.stack = it.stack /\ new.pushed = it.pushed
  BY <1>1, Zenon
<1> QED
  BY <1>3, <1>4, Zenon

FileIs(new, it, f) == new = [it EXCEPT !.file = f]

LEMMA FileTyped ==
  ASSUME NEW it \in Iterators, NEW f \in Int, NEW new,
         FileIs(new, it, f)
  PROVE  /\ new \in Iterators /\ new.live = it.live /\ new.node = it.node
         /\ new.stack = it.stack /\ new.pushed = it.pushed
<1>0. it = [live |-> it.live, node |-> it.node, loop |-> it.loop, file |-> it.file,
            pushed |-> it.pushed, random |-> it.random, stack |-> it.stack]
  BY Fields
<1>1. new = [live |-> it.live, node |-> it.node, loop |-> it.loop, file |-> f,
             pushed |-> it.pushed, random |-> it.random, stack |-> it.stack]
  BY <1>0 DEF FileIs
<1>2. it.node \in Nodes \cup {NoNode}
  BY Fields
<1>3. new \in Iterators
  BY <1>1, <1>2, Fields, Zenon DEF Iterators
<1>4. /\ new.live = it.live /\ new.node = it.node
      /\ new.stack = it.stack /\ new.pushed = it.pushed
  BY <1>1, Zenon
<1> QED
  BY <1>3, <1>4, Zenon

RewoundIs(new, it, n, l) == new = [it EXCEPT !.node = n, !.loop = l]

LEMMA RewoundTyped ==
  ASSUME NEW it \in Iterators, NEW n \in Nodes, NEW l \in Int, NEW new,
         RewoundIs(new, it, n, l)
  PROVE  /\ new \in Iterators /\ new.live = it.live /\ new.node = n
         /\ new.stack = it.stack /\ new.pushed = it.pushed
<1>0. it = [live |-> it.live, node |-> it.node, loop |-> it.loop, file |-> it.file,
            pushed |-> it.pushed, random |-> it.random, stack |-> it.stack]
  BY Fields
<1>1. new = [live |-> it.live, node |-> n, loop |-> l, file |-> it.file,
             pushed |-> it.pushed, random |-> it.random, stack |-> it.stack]
  BY <1>0 DEF RewoundIs
<1>2. n \in Nodes \cup {NoNode}
  BY Fields
<1>3. new \in Iterators
  BY <1>1, <1>2, Fields, Zenon DEF Iterators
<1>4. /\ new.live = it.live /\ new.node = n
      /\ new.stack = it.stack /\ new.pushed = it.pushed
  BY <1>1, Zenon
<1> QED
  BY <1>3, <1>4, Zenon

EnteredIs(new, it, n) == new = [it EXCEPT !.node = n, !.pushed = @ \/ WithConfig]

LEMMA EnteredTyped ==
  ASSUME NEW it \in Iterators, NEW n \in Nodes, NEW new, EnteredIs(new, it, n)
  PROVE  /\ new \in Iterators /\ new.live = it.live /\ new.node = n
         /\ new.stack = it.stack /\ new.pushed = (it.pushed \/ WithConfig)
<1>0. it = [live |-> it.live, node |-> it.node, loop |-> it.loop, file |-> it.file,
            pushed |-> it.pushed, random |-> it.random, stack |-> it.stack]
  BY Fields
<1>1. new = [live |-> it.live, node |-> n, loop |-> it.loop, file |-> it.file,
             pushed |-> (it.pushed \/ WithConfig), random |-> it.random, stack |-> it.stack]
  BY <1>0 DEF EnteredIs
<1>2. n \in Nodes \cup {NoNode} /\ (it.pushed \/ WithConfig) \in BOOLEAN
  OBVIOUS
<1>3. new \in Iterators
  BY <1>1, <1>2, Fields, Zenon DEF Iterators
<1>4. /\ new.live = it.live /\ new.node = n
      /\ new.stack = it.stack /\ new.pushed = (it.pushed \/ WithConfig)
  BY <1>1, Zenon
<1> QED
  BY <1>3, <1>4, Zenon

MovedIs(new, it, n, l, q) == new = [it EXCEPT !.file = -1, !.node = n, !.loop = l, !.stack = q]

LEMMA MovedTyped ==
  ASSUME NEW it \in Iterators, NEW n \in Nodes, NEW l \in Int, NEW q \in Seq(Int), NEW new,
         MovedIs(new, it, n, l, q)
  PROVE  /\ new \in Iterators /\ new.live = it.live /\ new.node = n
         /\ new.stack = q /\ new.pushed = it.pushed
<1>0. it = [live |-> it.live, node |-> it.node, loop |-> it.loop, file |-> it.file,
            pushed |-> it.pushed, random |-> it.random, stack |-> it.stack]
  BY Fields
<1>1. new = [live |-> it.live, node |-> n, loop |-> l, file |-> -1,
             pushed |-> it.pushed, random |-> it.random, stack |-> q]
  BY <1>0 DEF MovedIs
<1>2. n \in Nodes \cup {NoNode}
  BY Fields
<1>3. new \in Iterators
  BY <1>1, <1>2, Fields, Zenon DEF Iterators
<1>4. /\ new.live = it.live /\ new.node = n
      /\ new.stack = q /\ new.pushed = it.pushed
  BY <1>1, Zenon
<1> QED
  BY <1>3, <1>4, Zenon

(* A step of the iterator begins by leaving the level of the entry.         *)
LEMMA LeftTyped ==
  ASSUME IInv, pc = "step"
  PROVE  /\ Left \in Iterators /\ Left.live /\ Left.node = iter.node /\ Left.stack = iter.stack
         /\ Left.pushed = (iter.pushed /\ ~WithConfig)
         /\ LeftConf \in Config /\ LeftConf.slots # <<>>
         /\ job = "peek" => LeftConf = conf
         /\ job # "peek" => Len(LeftConf.slots) = base + Len(iter.stack) /\ ~Left.pushed
<1>1. iter \in Iterators /\ iter.live /\ conf \in Config /\ base \in Nat /\ base >= 1
      /\ conf.slots # <<>>
  BY DEF IInv, TypeOK, Calls, Balanced, Config
<1>2. /\ Left \in Iterators /\ Left.live /\ Left.node = iter.node /\ Left.stack = iter.stack
      /\ Left.pushed = (iter.pushed /\ ~WithConfig)
  <2>1. \E p \in BOOLEAN, r \in BOOLEAN :
          /\ Left = [iter EXCEPT !.pushed = p, !.file = -1, !.random = r]
          /\ p = (iter.pushed /\ ~WithConfig)
    <3> DEFINE p == iter.pushed /\ ~WithConfig
               r == ParentOf(iter.node) \in shuffled
    <3>1. p \in BOOLEAN /\ r \in BOOLEAN
      OBVIOUS
    <3>2. Left = [iter EXCEPT !.pushed = p, !.file = -1, !.random = r]
      BY Zenon DEF Left
    <3> QED
      BY <3>1, <3>2, Zenon
  <2>2. PICK p \in BOOLEAN, r \in BOOLEAN :
          /\ Left = [iter EXCEPT !.pushed = p, !.file = -1, !.random = r]
          /\ p = (iter.pushed /\ ~WithConfig)
    BY <2>1, Zenon
  <2>3. iter \in Iterators
    BY <1>1
  <2>4. /\ Left \in Iterators /\ Left.live = iter.live /\ Left.node = iter.node
        /\ Left.stack = iter.stack /\ Left.pushed = p
    <3>1. iter = [live |-> iter.live, node |-> iter.node, loop |-> iter.loop,
                  file |-> iter.file, pushed |-> iter.pushed, random |-> iter.random,
                  stack |-> iter.stack]
      BY <2>3, Fields
    <3>2. Left = [live |-> iter.live, node |-> iter.node, loop |-> iter.loop, file |-> -1,
                  pushed |-> p, random |-> r, stack |-> iter.stack]
      BY <2>2, <3>1
    <3>3. p \in BOOLEAN /\ r \in BOOLEAN
      BY <2>2
    <3>4. Left \in Iterators
      BY <2>3, <3>2, <3>3, Fields, Zenon DEF Iterators
    <3> QED
      BY <3>2, <3>4, Zenon
  <2> QED
    BY <1>1, <2>2, <2>4, Zenon
<1>3. CASE job = "peek"
  BY <1>1, <1>2, <1>3 DEF LeftConf, WithConfig
<1>4. CASE job # "peek"
  <2>1. Len(conf.slots) = base + Len(iter.stack) + (IF iter.pushed THEN 1 ELSE 0)
    BY <1>1, <1>4 DEF IInv, Balanced, LevelsPaired, Held
  <2>2. iter.stack \in Seq(Int)
    BY <1>1 DEF Iterators
  <2>3. WithConfig /\ ~Left.pushed
    BY <1>2, <1>4 DEF WithConfig
  <2>4. CASE iter.pushed
    <3>1. LeftConf = Pop(conf) /\ Len(conf.slots) = base + Len(iter.stack) + 1
      BY <2>1, <2>3, <2>4 DEF LeftConf
    <3>2. Len(conf.slots) >= 2
      BY <1>1, <2>2, <3>1
    <3>3. Pop(conf) \in Config /\ Len(Pop(conf).slots) = Len(conf.slots) - 1
      BY <1>1, <3>2, PopTyped
    <3>4. Len(Pop(conf).slots) = base + Len(iter.stack) /\ Pop(conf).slots # <<>>
      BY <1>1, <2>2, <3>1, <3>3 DEF Config
    <3> QED
      BY <1>2, <1>4, <2>3, <3>1, <3>3, <3>4
  <2>5. CASE ~iter.pushed
    <3>1. LeftConf = conf /\ Len(conf.slots) = base + Len(iter.stack)
      BY <1>1, <2>1, <2>2, <2>5 DEF LeftConf
    <3> QED
      BY <1>1, <1>2, <1>4, <2>3, <3>1
  <2> QED
    BY <2>4, <2>5
<1> QED
  BY <1>3, <1>4
Results == {"none", "entry", "node", "end", "error", "crash"}

(* What a step of a call has to show.                                       *)
LEMMA IterateKeeps ==
  ASSUME IInv, pc # "rest",
         UNCHANGED <<kids, params, shuffled, job, eof, hold, base, lost, how, from, promised, cmds>>,
         loops' \in [Nodes -> Int], played' \subseteq Nodes, count' \in [Files -> Nat],
         conf' \in Config, conf'.slots # <<>>,
         job = "peek" => conf' = conf,
         job # "peek" =>
           Len(conf'.slots) = base + Len(iter'.stack) + (IF iter'.pushed THEN 1 ELSE 0),
         iter' \in Iterators, iter'.live,
         \A d \in [Nodes -> Nat] : Graded(kids, d) /\ Deep(d, iter) => Deep(d, iter'),
         pc' \in {"rest", "step", "up", "down"}, dir' \in Int, withNodes' = withNodes,
         ret' \in Results, pc' # "rest" => ret' = "none",
         pc' = "down" => iter'.node \in Groups /\ kids[iter'.node] # <<>>,
         ret' = "entry" => iter'.node \in Files,
         HeadAhead'
  PROVE  IInv'
<1>1. TypeOK'
  <2>1. /\ kids' = kids /\ params' = params /\ shuffled' = shuffled /\ job' = job /\ eof' = eof
        /\ saved' = saved /\ wanted' = wanted /\ victim' = victim /\ base' = base /\ lost' = lost /\ how' = how
        /\ from' = from /\ promised' = promised /\ cmds' = cmds
    BY DEF hold
  <2>2. loops' \in [Nodes -> Int] /\ conf' \in [slots : Seq(Values), value : Values]
    BY DEF Config
  <2>3. TypeOK
    BY DEF IInv
  <2>4. withNodes' \in BOOLEAN
    BY <2>3, Zenon DEF TypeOK
  <2>5. ret' \in {"none", "entry", "node", "end", "error", "crash"}
    BY DEF Results
  <2>6. /\ kids' \in [Nodes -> Seq(Nodes)] /\ params' \in [Nodes -> Values \cup {Unset}]
        /\ shuffled' \subseteq Groups /\ saved' \in Iterators /\ from' \in Iterators
        /\ job' \in {"none", "boot", "start", "next", "files", "filestep", "peek", "stop",
                     "replace", "head", "playlist", "added", "unlooped"}
    BY <2>1, <2>3, Zenon DEF TypeOK
  <2>7. /\ eof' \in {-1, 1} /\ wanted' \in [at : {"step", "up"}, d : Int]
        /\ victim' \in Files \cup {NoNode}
        /\ base' \in Nat /\ lost' \in Nat /\ how' \in {"none", "natural", "back", "jump"}
        /\ promised' \in BOOLEAN /\ cmds' \in 0..MaxCommands
    BY <2>1, <2>3, Zenon DEF TypeOK
  <2> QED
    BY <2>2, <2>4, <2>5, <2>6, <2>7, Zenon DEF TypeOK
<1>2. Levels'
  BY DEF IInv, Levels, hold, Deep
<1>3. Balanced'
  <2>1. base' >= 1
    BY DEF IInv, Balanced
  <2>2. LevelsPaired'
    <3>1. CASE job = "peek"
      BY <3>1, Zenon DEF IInv, Balanced, LevelsPaired, Held, hold
    <3>2. CASE job # "peek"
      BY <3>2, Zenon DEF LevelsPaired, Held
    <3> QED
      BY <3>1, <3>2
  <2> QED
    BY <2>1, <2>2 DEF Balanced
<1>4. Calls'
  BY DEF IInv, Calls, hold
<1> QED
  BY <1>1, <1>2, <1>3, <1>4, Zenon DEF IInv

-----------------------------------------------------------------------------
(* What a load brings, and a tree that has nothing else in it.              *)
LEMMA LoadTyped ==
  ASSUME NEW e \in Loads
  PROVE  /\ e.top \in Nodes /\ e.top # Root /\ e.list \in Seq(Files)
         /\ e.top \in Files <=> e.list = <<>>
<1>1. e \in [top : Nodes \ {Root}, list : Seq(Files)]
  BY NodesAssumption
<1> QED
  BY <1>1, NodesAssumption

LEMMA OnlyTyped ==
  ASSUME NEW e \in Loads
  PROVE  /\ OnlyEntry(e) \in [Nodes -> Seq(Nodes)]
         /\ OnlyEntry(e)[Root] = <<e.top>> /\ OnlyEntry(e)[e.top] = e.list
         /\ \A n \in Nodes \ {Root, e.top} : OnlyEntry(e)[n] = <<>>
<1>1. Root \in Nodes /\ <<e.top>> \in Seq(Nodes) /\ e.list \in Seq(Nodes)
  BY LoadTyped, NodesAssumption DEF Nodes
<1> QED
  BY <1>1, LoadTyped DEF OnlyEntry

LEMMA OnlySiblings ==
  ASSUME NEW e \in Loads, kids = OnlyEntry(e),
         NEW n \in {Root, e.top} \cup ToSet(e.list), NEW m \in ToSet(Siblings(n))
  PROVE  m \in {Root, e.top} \cup ToSet(e.list)
<1>1. kids \in [Nodes -> Seq(Nodes)] /\ kids[Root] = <<e.top>> /\ kids[e.top] = e.list
      /\ \A p \in Nodes \ {Root, e.top} : kids[p] = <<>>
  BY OnlyTyped
<1>2. CASE ParentOf(n) = NoNode
  BY <1>2 DEF Siblings, ToSet
<1>3. CASE ParentOf(n) # NoNode
  <2>1. ParentOf(n) \in Nodes /\ kids[ParentOf(n)] # <<>>
    BY <1>1, <1>3, ParentHasIt DEF Nodes
  <2>2. ParentOf(n) \in {Root, e.top} /\ Siblings(n) = kids[ParentOf(n)]
    BY <1>1, <1>3, <2>1 DEF Siblings
  <2>3. CASE ParentOf(n) = Root
    BY <1>1, <2>2, <2>3 DEF ToSet
  <2>4. CASE ParentOf(n) = e.top
    BY <1>1, <2>2, <2>4
  <2> QED
    BY <2>2, <2>3, <2>4
<1> QED
  BY <1>2, <1>3

LEMMA OnlyValid ==
  ASSUME NEW e \in Loads, kids = OnlyEntry(e),
         NEW n \in {Root, e.top} \cup ToSet(e.list)
  PROVE  n \in Nodes /\ n \in Valid /\ (n \in Groups => n \in Enterable)
<1>1. kids \in [Nodes -> Seq(Nodes)] /\ kids[Root] = <<e.top>> /\ kids[e.top] = e.list
  BY OnlyTyped
<1>2. /\ e.top \in Nodes /\ e.top # Root /\ e.list \in Seq(Files)
      /\ e.top \in Files <=> e.list = <<>>
  BY LoadTyped
<1>3. ASSUME NEW f \in Files PROVE f \in Nodes /\ f \in Valid /\ f \notin Groups
  BY <1>1, ValidUnfolds, NodesAssumption DEF Nodes
<1>4. e.top \in Valid /\ (e.top \in Groups => e.top \in Enterable)
  <2>1. CASE e.top \in Files
    BY <1>3, <2>1
  <2>2. CASE e.top \notin Files
    <3>1. e.list # <<>> /\ 1 \in DOMAIN e.list /\ Head(e.list) \in Files /\ e.list[1] \in Files
      BY <1>2, <2>2
    <3>2. e.top \in Valid
      BY <1>1, <1>2, <1>3, <3>1, ValidUnfolds
    <3> QED
      BY <1>1, <1>3, <3>1, <3>2 DEF Enterable
  <2> QED
    BY <2>1, <2>2
<1>5. Root \in Nodes /\ Root \in Valid /\ Root \in Enterable
  <2>1. Root \in Nodes /\ Root \in Groups
    BY NodesAssumption DEF Nodes
  <2>2. 1 \in DOMAIN kids[Root] /\ kids[Root][1] = e.top /\ Head(kids[Root]) = e.top
        /\ kids[Root] # <<>>
    BY <1>1
  <2>3. Root \in Valid
    BY <1>1, <1>4, <2>1, <2>2, ValidUnfolds
  <2> QED
    BY <1>4, <2>1, <2>2, <2>3 DEF Enterable
<1>6. CASE n \in ToSet(e.list)
  BY <1>2, <1>3, <1>6 DEF ToSet
<1> QED
  BY <1>2, <1>4, <1>5, <1>6

(* The first step on a load stays in it, where everything is valid.         *)
LEMMA AheadTargets ==
  ASSUME IInv, pc = "step", job = "head"
  PROVE  /\ iter.node \in Nodes /\ (Left.random => Unplayed # {})
         /\ dir = 0 /\ ~withNodes /\ played = {} /\ shuffled \subseteq {Root}
         /\ \E e \in Loads :
              /\ kids = OnlyEntry(e)
              /\ \A t \in Targets : /\ t.left = 0 /\ t.to \in Nodes /\ t.to \in Valid
                                    /\ t.to \in Groups => t.to \in Enterable
                                    /\ t.to \in {Root, e.top} \cup ToSet(e.list)
<1>1. Ahead
  BY DEF IInv, HeadAhead
<1>2. PICK e \in Loads : kids = OnlyEntry(e) /\ iter.node \in {Root, e.top} \cup ToSet(e.list)
  BY <1>1, Zenon DEF Ahead
<1>3. dir = 0 /\ ~withNodes /\ played = {} /\ shuffled \subseteq {Root}
  BY <1>1, Zenon DEF Ahead
<1>4. iter.node \in Nodes /\ kids \in [Nodes -> Seq(Nodes)]
  BY <1>2, OnlyValid, OnlyTyped
<1>5. iter.node \in ToSet(Siblings(iter.node))
  BY <1>4, SiblingsTyped DEF ToSet
<1>6. Unplayed # {} /\ Unplayed \subseteq ToSet(Siblings(iter.node))
  BY <1>3, <1>5 DEF Unplayed
<1>7. ASSUME NEW t \in Targets PROVE t.left = 0 /\ t.to \in ToSet(Siblings(iter.node))
  <2>1. CASE Left.random
    <3>1. PICK n \in Unplayed : t = [to |-> n, left |-> dir]
      BY <1>6, <2>1 DEF Targets
    <3> QED
      BY <1>3, <1>6, <3>1
  <2>2. CASE ~Left.random
    <3>1. t = Walk(Siblings(iter.node), Place(iter.node), 0)
      BY <1>3, <2>2 DEF Targets
    <3>2. t = [to |-> iter.node, left |-> 0]
      BY <1>4, <3>1, SiblingsTyped, WalkTyped
    <3> QED
      BY <1>5, <3>2
  <2> QED
    BY <2>1, <2>2
<1>8. ASSUME NEW t \in Targets
      PROVE  /\ t.left = 0 /\ t.to \in Nodes /\ t.to \in Valid
             /\ t.to \in Groups => t.to \in Enterable
             /\ t.to \in {Root, e.top} \cup ToSet(e.list)
  <2>1. t.to \in {Root, e.top} \cup ToSet(e.list)
    BY <1>2, <1>7, OnlySiblings
  <2> QED
    BY <1>2, <1>7, <2>1, OnlyValid
<1> QED
  BY <1>2, <1>3, <1>4, <1>6, <1>8, Zenon

-----------------------------------------------------------------------------
(* Each step of a call keeps the invariant.                                 *)
LEMMA FirstStepKeeps ==
  ASSUME IInv, FirstStep
  PROVE  IInv'
<1>1. /\ pc = "step" /\ iter.node = NoNode /\ iter' = [iter EXCEPT !.node = Root]
      /\ UNCHANGED <<kids, params, shuffled, job, eof, hold, base, lost, how, from, promised, cmds>>
      /\ loops' = loops /\ played' = played /\ conf' = conf /\ count' = count
      /\ pc' = "step" /\ dir' = 0 /\ withNodes' = withNodes /\ ret' = ret
  BY DEF FirstStep, Stepping, Goto
<1>2. /\ loops' \in [Nodes -> Int] /\ played' \subseteq Nodes /\ count' \in [Files -> Nat]
      /\ conf' \in Config /\ conf'.slots # <<>>
  BY <1>1 DEF IInv, TypeOK, Balanced, Config
<1>3. Root \in Nodes /\ Root \in Nodes \cup {NoNode} /\ iter \in Iterators /\ iter.live
  BY <1>1, NodesAssumption DEF Nodes, IInv, TypeOK, Calls
<1>4. /\ iter' \in Iterators /\ iter'.live = iter.live /\ iter'.node = Root
      /\ iter'.stack = iter.stack /\ iter'.pushed = iter.pushed
  <2>1. NodeIs(iter', iter, Root)
    BY <1>1, Zenon DEF NodeIs
  <2> QED
    BY <1>3, <2>1, NodeTyped
<1>5. job # "peek" =>
        Len(conf'.slots) = base + Len(iter'.stack) + (IF iter'.pushed THEN 1 ELSE 0)
  BY <1>1, <1>3, <1>4, Zenon DEF IInv, Balanced, LevelsPaired, Held
<1>6. \A d \in [Nodes -> Nat] : Graded(kids, d) /\ Deep(d, iter) => Deep(d, iter')
  <2>1. Len(iter.stack) \in Nat
    BY <1>3 DEF Iterators
  <2> QED
    BY <1>4, <2>1 DEF Deep, Graded
<1>7. job # "head"
  <2>1. NoNode \notin Nodes
    BY NodesAssumption
  <2> QED
    BY <1>1, <2>1, AheadTargets
<1>8. HeadAhead'
  BY <1>1, <1>7 DEF HeadAhead
<1>9. ret' = "none" /\ ret' \in Results /\ (ret' = "entry" => iter'.node \in Files)
  BY <1>1 DEF IInv, Calls, Results
<1>10. /\ pc # "rest" /\ (job = "peek" => conf' = conf) /\ iter'.live
       /\ pc' \in {"rest", "step", "up", "down"} /\ dir' \in Int /\ pc' # "down"
  BY <1>1, <1>3, <1>4
<1> QED
  BY <1>1, <1>2, <1>3, <1>4, <1>5, <1>6, <1>8, <1>9,
     <1>10, IterateKeeps, Zenon

LEMMA SiblingDeep ==
  ASSUME kids \in [Nodes -> Seq(Nodes)], iter.node \in Nodes,
         iter'.node \in ToSet(Siblings(iter.node)), iter'.stack = iter.stack
  PROVE  \A d \in [Nodes -> Nat] : Graded(kids, d) /\ Deep(d, iter) => Deep(d, iter')
<1> SUFFICES ASSUME NEW d \in [Nodes -> Nat], Graded(kids, d), Deep(d, iter)
             PROVE  Deep(d, iter')
  OBVIOUS
<1>1. d[iter'.node] = d[iter.node]
  BY SiblingLevel
<1> QED
  BY <1>1 DEF Deep

(* Where the iterator goes on from its place, or from that of a sibling.    *)
LEMMA StepKeeps ==
  ASSUME IInv, Stepping, iter.node \in Nodes, conf' = LeftConf,
         iter' \in Iterators, iter'.live, iter'.stack = iter.stack,
         iter'.pushed = Left.pushed, iter'.node \in ToSet(Siblings(iter.node)),
         loops' \in [Nodes -> Int], played' \subseteq Nodes, count' = count,
         pc' \in {"rest", "step", "up", "down"}, dir' \in Int, withNodes' = withNodes,
         ret' \in Results \ {"entry"}, pc' # "rest" => ret' = "none",
         pc' = "down" => iter'.node \in Groups /\ kids[iter'.node] # <<>>,
         job = "head" => Ahead'
  PROVE  IInv'
<1>1. /\ pc = "step"
      /\ UNCHANGED <<kids, params, shuffled, job, eof, hold, base, lost, how, from, promised, cmds>>
  BY DEF Stepping
<1>2. count' \in [Files -> Nat]
  BY DEF IInv, TypeOK
<1>3. conf' \in Config /\ conf'.slots # <<>> /\ (job = "peek" => conf' = conf)
  BY <1>1, LeftTyped
<1>4. job # "peek" =>
        Len(conf'.slots) = base + Len(iter'.stack) + (IF iter'.pushed THEN 1 ELSE 0)
  <2>1. job # "peek" => Len(LeftConf.slots) = base + Len(iter.stack) /\ ~Left.pushed
    BY <1>1, LeftTyped
  <2>2. base + Len(iter.stack) \in Int
    BY DEF IInv, TypeOK, Iterators
  <2>3. base + Len(iter.stack) + 0 = base + Len(iter.stack)
    BY <2>2
  <2> QED
    BY <2>1, <2>3, Zenon
<1>5. \A d \in [Nodes -> Nat] : Graded(kids, d) /\ Deep(d, iter) => Deep(d, iter')
  <2>1. kids \in [Nodes -> Seq(Nodes)]
    BY DEF IInv, TypeOK
  <2> QED
    BY <2>1, SiblingDeep, Zenon
<1>6. HeadAhead'
  <2>1. job' = job
    BY <1>1
  <2>2. CASE job = "head"
    <3>1. Ahead'
      BY <2>2
    <3>2. pc' # "rest"
      BY <3>1 DEF Ahead
    <3> QED
      BY <3>1, <3>2, Zenon DEF HeadAhead
  <2>3. CASE job # "head"
    BY <2>1, <2>3, Zenon DEF HeadAhead
  <2> QED
    BY <2>2, <2>3
<1>7. pc # "rest" /\ ret' \in Results /\ (ret' = "entry" => iter'.node \in Files)
  BY <1>1
<1> QED
  BY <1>1, <1>2, <1>3, <1>4, <1>5, <1>6, <1>7, IterateKeeps, Zenon

LEMMA InPlace ==
  ASSUME IInv, iter.node # NoNode
  PROVE  /\ kids \in [Nodes -> Seq(Nodes)] /\ iter.node \in Nodes
         /\ iter.node \in ToSet(Siblings(iter.node))
         /\ Siblings(iter.node) \in Seq(Nodes) /\ Siblings(iter.node) # <<>>
<1>1. kids \in [Nodes -> Seq(Nodes)] /\ iter.node \in Nodes
  BY DEF IInv, TypeOK, Iterators
<1> QED
  BY <1>1, SiblingsTyped DEF ToSet

LEMMA PassEndsKeeps ==
  ASSUME IInv, PassEnds
  PROVE  IInv'
<1>1. /\ Stepping /\ pc = "step" /\ iter.node # NoNode /\ Left.random /\ Unplayed = {}
      /\ iter' = Left /\ conf' = LeftConf /\ count' = count /\ withNodes' = withNodes
      /\ \/ /\ pc' = "rest" /\ ret' = "end" /\ dir' = dir
            /\ loops' = loops /\ played' = played
         \/ /\ pc' = "step" /\ dir' = 0 /\ ret' = ret /\ played' = {}
            /\ loops' = [loops EXCEPT ![Root] = IF @ > 0 THEN @ - 1 ELSE @]
  BY DEF PassEnds, Stepping, Return, Goto
<1>2. /\ iter' \in Iterators /\ iter'.live /\ iter'.stack = iter.stack
      /\ iter'.pushed = Left.pushed /\ iter'.node = iter.node
  BY <1>1, LeftTyped
<1>3. iter.node \in Nodes /\ iter'.node \in ToSet(Siblings(iter.node))
  BY <1>1, <1>2, InPlace
<1>4. loops \in [Nodes -> Int] /\ played \subseteq Nodes /\ dir \in Int /\ ret = "none"
  BY <1>1 DEF IInv, TypeOK, Calls
<1>5. loops' \in [Nodes -> Int] /\ played' \subseteq Nodes
  BY <1>1, <1>4
<1>6. /\ pc' \in {"rest", "step", "up", "down"} /\ dir' \in Int /\ pc' # "down"
      /\ ret' \in Results \ {"entry"} /\ (pc' # "rest" => ret' = "none")
  BY <1>1, <1>4 DEF Results
<1>7. job # "head"
  BY <1>1, AheadTargets
<1> QED
  BY <1>1, <1>2, <1>3, <1>5, <1>6, <1>7, StepKeeps, Zenon

(* A list that is begun again.                                              *)
LEMMA RewindTyped ==
  ASSUME IInv, pc = "step", iter.node # NoNode, NEW d \in Int
  PROVE  /\ Rewind(d) \in Iterators /\ Rewind(d).live /\ Rewind(d).stack = iter.stack
         /\ Rewind(d).pushed = Left.pushed /\ Rewind(d).node \in ToSet(Siblings(iter.node))
<1>1. /\ kids \in [Nodes -> Seq(Nodes)] /\ iter.node \in Nodes
      /\ Siblings(iter.node) \in Seq(Nodes) /\ Siblings(iter.node) # <<>>
  BY InPlace
<1>2. /\ Left \in Iterators /\ Left.live /\ Left.stack = iter.stack
  BY LeftTyped
<1>3. /\ Head(Siblings(iter.node)) \in Nodes /\ Last(Siblings(iter.node)) \in Nodes
      /\ Head(Siblings(iter.node)) \in ToSet(Siblings(iter.node))
      /\ Last(Siblings(iter.node)) \in ToSet(Siblings(iter.node))
  BY <1>1 DEF ToSet, Last
<1>4. Left.loop \in Int
  BY <1>2, Fields
<1>5. \E n \in Nodes, l \in Int :
        n \in ToSet(Siblings(iter.node)) /\ RewoundIs(Rewind(d), Left, n, l)
  <2>1. CASE d > 0
    <3> DEFINE l == IF Left.loop > 0 THEN Left.loop - 1 ELSE Left.loop
    <3>1. l \in Int
      BY <1>4
    <3>2. Rewind(d) = [Left EXCEPT !.node = Head(Siblings(iter.node)),
                                   !.loop = IF Left.loop > 0 THEN Left.loop - 1 ELSE Left.loop]
      BY <2>1, Zenon DEF Rewind
    <3>3. RewoundIs(Rewind(d), Left, Head(Siblings(iter.node)), l)
      BY <3>2, Zenon DEF RewoundIs
    <3> HIDE DEF l
    <3> QED
      BY <1>3, <3>1, <3>3, Zenon
  <2>2. CASE ~ (d > 0)
    <3> DEFINE l == IF Left.loop >= 0 /\ Left.loop < loops[ParentOf(iter.node)]
                    THEN Left.loop + 1 ELSE Left.loop
    <3>1. l \in Int
      BY <1>4
    <3>2. Rewind(d) = [Left EXCEPT !.node = Last(Siblings(iter.node)),
                                   !.loop = IF Left.loop >= 0
                                               /\ Left.loop < loops[ParentOf(iter.node)]
                                            THEN Left.loop + 1 ELSE Left.loop]
      BY <2>2, Zenon DEF Rewind
    <3>3. RewoundIs(Rewind(d), Left, Last(Siblings(iter.node)), l)
      BY <3>2, Zenon DEF RewoundIs
    <3> HIDE DEF l
    <3> QED
      BY <1>3, <3>1, <3>3, Zenon
  <2> QED
    BY <2>1, <2>2
<1>6. PICK n \in Nodes, l \in Int :
        n \in ToSet(Siblings(iter.node)) /\ RewoundIs(Rewind(d), Left, n, l)
  BY <1>5
<1>7. PICK r : r = Rewind(d) /\ RewoundIs(r, Left, n, l)
  BY <1>6
<1>8. /\ r \in Iterators /\ r.live = Left.live /\ r.node = n
      /\ r.stack = Left.stack /\ r.pushed = Left.pushed
  <2>1. RewoundIs(r, Left, n, l) /\ Left \in Iterators
    BY <1>2, <1>7
  <2> QED
    BY <2>1, RewoundTyped
<1> QED
  BY <1>2, <1>6, <1>7, <1>8, Zenon

LEMMA ListEndsKeeps ==
  ASSUME IInv, ListEnds
  PROVE  IInv'
<1>1. PICK t \in Targets :
        /\ t.to = NoNode
        /\ IF Again(t.left)
           THEN iter' = Rewind(t.left) /\ Goto("step", 0)
           ELSE iter' = Left /\ Goto("up", t.left)
  BY Zenon DEF ListEnds
<1>2. /\ Stepping /\ pc = "step" /\ iter.node # NoNode /\ conf' = LeftConf
      /\ loops' = loops /\ played' = played /\ count' = count
  BY DEF ListEnds, Stepping
<1>3. /\ kids \in [Nodes -> Seq(Nodes)] /\ iter.node \in Nodes
      /\ iter.node \in ToSet(Siblings(iter.node))
      /\ Siblings(iter.node) \in Seq(Nodes) /\ Siblings(iter.node) # <<>>
  BY <1>2, InPlace
<1>4. loops \in [Nodes -> Int] /\ played \subseteq Nodes /\ dir \in Int /\ ret = "none"
  BY <1>2 DEF IInv, TypeOK, Calls
<1>5. t.left \in Int
  BY <1>3, <1>4, TargetsNear
<1>6. /\ Left \in Iterators /\ Left.live /\ Left.node = iter.node /\ Left.stack = iter.stack
  BY <1>2, LeftTyped
<1>7. /\ iter' \in Iterators /\ iter'.live /\ iter'.stack = iter.stack
      /\ iter'.pushed = Left.pushed /\ iter'.node \in ToSet(Siblings(iter.node))
  <2>1. CASE iter' = Left
    BY <1>3, <1>6, <2>1, Zenon
  <2>2. CASE iter' = Rewind(t.left)
    BY <1>2, <1>5, <2>2, RewindTyped
  <2> QED
    BY <1>1, <2>1, <2>2, Zenon
<1>8. /\ pc' \in {"rest", "step", "up", "down"} /\ dir' \in Int /\ pc' # "down"
      /\ ret' \in Results \ {"entry"} /\ (pc' # "rest" => ret' = "none")
      /\ withNodes' = withNodes
  BY <1>1, <1>4, <1>5 DEF Results, Goto
<1>9. job # "head"
  <2>1. NoNode \notin Nodes
    BY NodesAssumption
  <2> QED
    BY <1>1, <1>2, <2>1, AheadTargets
<1>10. loops' \in [Nodes -> Int] /\ played' \subseteq Nodes
  BY <1>2, <1>4
<1> QED
  BY <1>2, <1>3, <1>7, <1>8, <1>9, <1>10, StepKeeps, Zenon

LEMMA GroupKeeps ==
  ASSUME IInv, Group
  PROVE  IInv'
<1>1. PICK t \in Targets :
        /\ t.to \in Enterable
        /\ iter' = [Left EXCEPT !.node = t.to]
        /\ IF withNodes THEN Return("node") ELSE Goto("down", t.left)
  BY Zenon DEF Group
<1>2. /\ Stepping /\ pc = "step" /\ iter.node # NoNode /\ conf' = LeftConf
      /\ loops' = loops /\ played' = played /\ count' = count
      /\ kids' = kids /\ shuffled' = shuffled
  BY DEF Group, Stepping
<1>3. kids \in [Nodes -> Seq(Nodes)] /\ iter.node \in Nodes
  BY <1>2, InPlace
<1>4. loops \in [Nodes -> Int] /\ played \subseteq Nodes /\ dir \in Int /\ ret = "none"
  BY <1>2 DEF IInv, TypeOK, Calls
<1>5. t.to \in Groups /\ kids[t.to] # <<>> /\ t.to \in Nodes
  BY <1>1, Zenon DEF Enterable, Nodes
<1>6. t.left \in Int /\ t.to \in ToSet(Siblings(iter.node))
  BY <1>3, <1>4, <1>5, TargetsNear, NodesAssumption
<1>7. /\ Left \in Iterators /\ Left.live /\ Left.stack = iter.stack
  BY <1>2, LeftTyped
<1>8. /\ iter' \in Iterators /\ iter'.live = Left.live /\ iter'.node = t.to
      /\ iter'.stack = Left.stack /\ iter'.pushed = Left.pushed
  <2>1. NodeIs(iter', Left, t.to)
    BY <1>1, Zenon DEF NodeIs
  <2>2. PICK it \in Iterators, n \in Nodes : it = Left /\ n = t.to /\ NodeIs(iter', it, n)
    BY <1>5, <1>7, <2>1
  <2>3. /\ iter' \in Iterators /\ iter'.live = it.live /\ iter'.node = n
        /\ iter'.stack = it.stack /\ iter'.pushed = it.pushed
    BY <2>2, NodeTyped
  <2> QED
    BY <2>2, <2>3, Zenon
<1>9. /\ pc' \in {"rest", "step", "up", "down"} /\ dir' \in Int
      /\ ret' \in Results \ {"entry"} /\ (pc' # "rest" => ret' = "none")
      /\ withNodes' = withNodes
  BY <1>1, <1>4, <1>6 DEF Results, Goto, Return
<1>10. ASSUME job = "head" PROVE Ahead'
  <2>1. /\ dir = 0 /\ ~withNodes /\ played = {} /\ shuffled \subseteq {Root}
        /\ \E e \in Loads : kids = OnlyEntry(e) /\ t.left = 0
                            /\ t.to \in {Root, e.top} \cup ToSet(e.list)
    BY <1>2, <1>10, AheadTargets
  <2>2. pc' = "down" /\ dir' = 0 /\ withNodes' = withNodes
    BY <1>1, <2>1 DEF Goto
  <2>3. pc' \in {"step", "down"} /\ dir' = 0 /\ ~withNodes' /\ played' = {}
        /\ shuffled' \subseteq {Root}
    BY <1>2, <2>1, <2>2
  <2>4. \E e \in Loads : /\ kids' = OnlyEntry(e)
                         /\ iter'.node \in {Root, e.top} \cup ToSet(e.list)
    BY <1>2, <1>8, <2>1, Zenon
  <2> QED
    BY <2>3, <2>4, Zenon DEF Ahead
<1>11. /\ loops' \in [Nodes -> Int] /\ played' \subseteq Nodes
       /\ iter'.node \in ToSet(Siblings(iter.node)) /\ iter'.live /\ iter'.stack = iter.stack
       /\ iter'.node \in Groups /\ kids[iter'.node] # <<>>
  BY <1>2, <1>4, <1>5, <1>6, <1>7, <1>8, Zenon
<1> QED
  BY <1>2, <1>3, <1>8, <1>9, <1>10, <1>11, StepKeeps, Zenon

LEMMA InvalidKeeps ==
  ASSUME IInv, Invalid
  PROVE  IInv'
<1>1. PICK t \in Targets :
        /\ t.to \in Nodes \ Valid
        /\ iter' = Left
        /\ IF t.left = 0 THEN Return("error") ELSE Goto("step", t.left)
  BY Zenon DEF Invalid
<1>2. /\ Stepping /\ pc = "step" /\ iter.node # NoNode /\ conf' = LeftConf
      /\ loops' = loops /\ played' = played /\ count' = count
  BY DEF Invalid, Stepping
<1>3. kids \in [Nodes -> Seq(Nodes)] /\ iter.node \in Nodes
      /\ iter.node \in ToSet(Siblings(iter.node))
  BY <1>2, InPlace
<1>4. loops \in [Nodes -> Int] /\ played \subseteq Nodes /\ dir \in Int /\ ret = "none"
  BY <1>2 DEF IInv, TypeOK, Calls
<1>5. t.left \in Int
  BY <1>3, <1>4, TargetsNear
<1>6. /\ iter' \in Iterators /\ iter'.live /\ iter'.stack = iter.stack
      /\ iter'.pushed = Left.pushed /\ iter'.node = iter.node
  BY <1>1, <1>2, LeftTyped
<1>7. /\ pc' \in {"rest", "step", "up", "down"} /\ dir' \in Int /\ pc' # "down"
      /\ ret' \in Results \ {"entry"} /\ (pc' # "rest" => ret' = "none")
      /\ withNodes' = withNodes
  BY <1>1, <1>4, <1>5 DEF Results, Goto, Return
<1>8. job # "head"
  BY <1>1, <1>2, AheadTargets
<1>9. /\ loops' \in [Nodes -> Int] /\ played' \subseteq Nodes
      /\ iter'.node \in ToSet(Siblings(iter.node))
  BY <1>2, <1>3, <1>4, <1>6
<1> QED
  BY <1>2, <1>3, <1>6, <1>7, <1>8, <1>9, StepKeeps, Zenon

LEMMA CountedTyped ==
  ASSUME kids \in [Nodes -> Seq(Nodes)], count \in [Files -> Nat], NEW n \in Nodes
  PROVE  Counted(n) \in [Files -> Nat]
<1> DEFINE more == [count EXCEPT ![n] = @ + 1]
<1>1. more \in [Files -> Nat]
  <2>1. more = [f \in Files |-> IF f = n THEN count[f] + 1 ELSE count[f]]
    OBVIOUS
  <2> HIDE DEF more
  <2> QED
    BY <2>1
<1> HIDE DEF more
<1>2. CASE \A m \in ToSet(Siblings(n)) \cap Files : more[m] > 0
  <2>1. ASSUME NEW m \in Files
        PROVE  (IF Contains(Siblings(n), m) THEN more[m] - 1 ELSE 0) \in Nat
    <3>1. ASSUME Contains(Siblings(n), m) PROVE m \in ToSet(Siblings(n)) \cap Files
      <4>1. Siblings(n) \in Seq(Nodes)
        BY SiblingsTyped
      <4>2. \E i \in DOMAIN Siblings(n) : Siblings(n)[i] = m
        BY <3>1, <4>1 DEF Contains
      <4> QED
        BY <4>1, <4>2 DEF ToSet
    <3> QED
      BY <1>1, <1>2, <3>1
  <2>2. Counted(n) = [m \in Files |-> IF Contains(Siblings(n), m) THEN more[m] - 1 ELSE 0]
    BY <1>2, Zenon DEF Counted, more
  <2> QED
    BY <2>1, <2>2
<1>3. CASE ~ \A m \in ToSet(Siblings(n)) \cap Files : more[m] > 0
  <2>1. Counted(n) = more
    BY <1>3, Zenon DEF Counted, more
  <2> QED
    BY <1>1, <2>1
<1> QED
  BY <1>2, <1>3

LEMMA EntryKeeps ==
  ASSUME IInv, Entry
  PROVE  IInv'
<1>1. PICK t \in Targets :
        /\ t.to \in Valid \ Enterable
        /\ iter' = [Left EXCEPT !.node = t.to, !.pushed = @ \/ WithConfig]
        /\ conf' = (IF WithConfig THEN PushParams(LeftConf, t.to) ELSE LeftConf)
        /\ played' = (IF WithConfig /\ Left.random THEN played \cup {t.to} ELSE played)
        /\ count' = (IF WithConfig /\ Left.random THEN Counted(t.to) ELSE count)
        /\ Return(IF t.to \in Files THEN "entry" ELSE "crash")
  BY Zenon DEF Entry
<1>2. /\ pc = "step" /\ iter.node # NoNode /\ loops' = loops
      /\ UNCHANGED <<kids, params, shuffled, job, eof, hold, base, lost, how, from, promised, cmds>>
  BY DEF Entry, Stepping
<1>3. kids \in [Nodes -> Seq(Nodes)] /\ iter.node \in Nodes
  BY <1>2, InPlace
<1>4. loops \in [Nodes -> Int] /\ played \subseteq Nodes /\ dir \in Int /\ ret = "none"
      /\ count \in [Files -> Nat] /\ params \in [Nodes -> Values \cup {Unset}] /\ base \in Nat
      /\ iter \in Iterators
  BY <1>2 DEF IInv, TypeOK, Calls
<1>5. t.to \in Nodes
  BY <1>1 DEF Valid
<1>6. t.to \in ToSet(Siblings(iter.node))
  BY <1>3, <1>4, <1>5, TargetsNear, NodesAssumption
<1>7. /\ Left \in Iterators /\ Left.live /\ Left.stack = iter.stack
      /\ LeftConf \in Config /\ LeftConf.slots # <<>> /\ (job = "peek" => LeftConf = conf)
      /\ job # "peek" => Len(LeftConf.slots) = base + Len(iter.stack)
  BY <1>2, LeftTyped
<1>8. /\ iter' \in Iterators /\ iter'.live = Left.live /\ iter'.node = t.to
      /\ iter'.stack = Left.stack /\ iter'.pushed = (Left.pushed \/ WithConfig)
  <2>1. EnteredIs(iter', Left, t.to)
    BY <1>1, Zenon DEF EnteredIs
  <2>2. PICK it \in Iterators, n \in Nodes : it = Left /\ n = t.to /\ EnteredIs(iter', it, n)
    BY <1>5, <1>7, <2>1
  <2>3. /\ iter' \in Iterators /\ iter'.live = it.live /\ iter'.node = n
        /\ iter'.stack = it.stack /\ iter'.pushed = (it.pushed \/ WithConfig)
    BY <2>2, EnteredTyped
  <2> QED
    BY <2>2, <2>3, Zenon
<1>9. /\ loops' \in [Nodes -> Int] /\ played' \subseteq Nodes /\ count' \in [Files -> Nat]
  <2>1. Counted(t.to) \in [Files -> Nat]
    BY <1>3, <1>4, <1>5, CountedTyped
  <2>2. count' \in [Files -> Nat]
    BY <1>1, <1>4, <2>1, Zenon
  <2>3. played' = played \cup {t.to} \/ played' = played
    BY <1>1, Zenon
  <2>4. played' \subseteq Nodes
    BY <1>4, <1>5, <2>3, Zenon
  <2> QED
    BY <1>2, <1>4, <2>2, <2>4
<1>10. /\ conf' \in Config /\ conf'.slots # <<>> /\ (job = "peek" => conf' = conf)
       /\ job # "peek" =>
            Len(conf'.slots) = base + Len(iter'.stack) + (IF iter'.pushed THEN 1 ELSE 0)
  <2>1. CASE job = "peek"
    <3>1. conf' = LeftConf
      BY <1>1, <2>1, Zenon DEF WithConfig
    <3> QED
      BY <1>7, <2>1, <3>1
  <2>2. CASE job # "peek"
    <3>1. conf' = PushParams(LeftConf, t.to) /\ iter'.pushed
      BY <1>1, <1>8, <2>2, Zenon DEF WithConfig
    <3>2. conf' \in Config /\ Len(conf'.slots) = Len(LeftConf.slots) + 1
      BY <1>4, <1>5, <1>7, <3>1, PushParamsTyped
    <3>3. Len(LeftConf.slots) \in Nat
      BY <1>7 DEF Config
    <3>4. conf'.slots # <<>>
      BY <3>2, <3>3
    <3>5. Len(conf'.slots) = base + Len(iter'.stack) + 1
      BY <1>7, <1>8, <2>2, <3>2
    <3> QED
      BY <2>2, <3>1, <3>2, <3>4, <3>5, Zenon
  <2> QED
    BY <2>1, <2>2, Zenon
<1>11. \A d \in [Nodes -> Nat] : Graded(kids, d) /\ Deep(d, iter) => Deep(d, iter')
  BY <1>3, <1>6, <1>7, <1>8, SiblingDeep, Zenon
<1>12. /\ pc' = "rest" /\ dir' \in Int /\ withNodes' = withNodes
       /\ ret' = (IF t.to \in Files THEN "entry" ELSE "crash")
  BY <1>1, <1>4 DEF Return
<1>13. /\ ret' \in Results /\ (ret' = "entry" => iter'.node \in Files)
       /\ pc' \in {"rest", "step", "up", "down"} /\ pc' # "down"
  BY <1>8, <1>12 DEF Results
<1>14. HeadAhead'
  <2>1. ASSUME job = "head" PROVE ret' = "entry"
    <3>1. t.to \notin Groups
      BY <1>1, <1>2, <2>1, AheadTargets
    <3> QED
      BY <1>5, <1>12, <3>1 DEF Nodes
  <2> QED
    BY <1>2, <1>12, <2>1, Zenon DEF HeadAhead
<1> QED
  BY <1>2, <1>7, <1>8, <1>9, <1>10, <1>11, <1>12, <1>13, <1>14, IterateKeeps, Zenon

(* The step up goes to the parent, and takes the last count of the stack.   *)
LEMMA UpMoves ==
  ASSUME IInv, Up, ParentOf(iter.node) # NoNode
  PROVE  /\ iter.node \in Nodes /\ ParentOf(iter.node) \in Nodes
         /\ Len(iter.stack) >= 1 /\ Len(Front(iter.stack)) = Len(iter.stack) - 1
         /\ iter' \in Iterators /\ iter'.live = iter.live /\ iter'.node = ParentOf(iter.node)
         /\ iter'.stack = Front(iter.stack) /\ iter'.pushed = iter.pushed
<1>1. iter' = [iter EXCEPT !.file = -1, !.node = ParentOf(iter.node),
                           !.loop = Last(iter.stack), !.stack = Front(@)]
  BY Zenon DEF Up
<1>2. iter \in Iterators /\ kids \in [Nodes -> Seq(Nodes)]
  BY DEF IInv, TypeOK
<1>3. iter.stack \in Seq(Int)
  BY <1>2, Fields
<1>4. iter.node \in Nodes
  BY <1>2, ParentHasIt DEF Nodes
<1>5. ParentOf(iter.node) \in Nodes
  BY <1>2, ParentHasIt DEF Nodes
<1>6. Len(iter.stack) >= 1
  <2>1. PICK d \in [Nodes -> Nat] : Graded(kids, d) /\ Deep(d, iter)
    BY Zenon DEF IInv, Levels
  <2>2. d[iter.node] = d[ParentOf(iter.node)] + 1 /\ d[ParentOf(iter.node)] \in Nat
    BY <1>2, <1>4, <1>5, <2>1, ParentLevel
  <2>3. d[iter.node] <= Len(iter.stack)
    BY <1>4, <2>1, Zenon DEF Deep
  <2> QED
    BY <1>3, <2>2, <2>3
<1>7. Last(iter.stack) \in Int /\ Front(iter.stack) \in Seq(Int)
      /\ Len(Front(iter.stack)) = Len(iter.stack) - 1
  BY <1>3, <1>6 DEF Last, Front
<1>8. MovedIs(iter', iter, ParentOf(iter.node), Last(iter.stack), Front(iter.stack))
  BY <1>1, Zenon DEF MovedIs
<1>9. PICK n \in Nodes, l \in Int, q \in Seq(Int) :
        /\ MovedIs(iter', iter, n, l, q)
        /\ n = ParentOf(iter.node) /\ q = Front(iter.stack)
  BY <1>5, <1>7, <1>8, Zenon
<1>10. /\ iter' \in Iterators /\ iter'.live = iter.live /\ iter'.node = n
       /\ iter'.stack = q /\ iter'.pushed = iter.pushed
  <2>1. MovedIs(iter', iter, n, l, q) /\ iter \in Iterators
    BY <1>2, <1>9
  <2> QED
    BY <2>1, MovedTyped, SMTT(30)
<1> QED
  BY <1>4, <1>5, <1>6, <1>7, <1>9, <1>10, Zenon

LEMMA UpKeeps ==
  ASSUME IInv, Up
  PROVE  IInv'
<1>1. /\ pc = "up" /\ pc # "rest" /\ loops' = loops /\ count' = count
      /\ UNCHANGED <<kids, params, shuffled, job, eof, hold, base, lost, how, from, promised, cmds>>
  BY DEF Up, history
<1>2. /\ iter \in Iterators /\ iter.live /\ base \in Nat /\ base >= 1
      /\ conf \in Config /\ conf.slots # <<>> /\ kids \in [Nodes -> Seq(Nodes)]
      /\ loops \in [Nodes -> Int] /\ played \subseteq Nodes /\ dir \in Int /\ ret = "none"
      /\ count \in [Files -> Nat]
  BY <1>1 DEF IInv, TypeOK, Calls, Balanced, Config
<1>3. iter.stack \in Seq(Int)
  BY <1>2, Fields
<1>4. job # "peek" => Len(conf.slots) = base + Len(iter.stack) + (IF iter.pushed THEN 1 ELSE 0)
  BY <1>2, Zenon DEF IInv, Balanced, LevelsPaired, Held
<1>5. job # "head"
  BY <1>1 DEF IInv, HeadAhead, Ahead
<1>6. HeadAhead'
  BY <1>1, <1>5 DEF HeadAhead
<1>7. loops' \in [Nodes -> Int] /\ count' \in [Files -> Nat]
  BY <1>1, <1>2
<1>8. CASE ParentOf(iter.node) = NoNode
  <2>1. /\ iter' = [iter EXCEPT !.file = -1] /\ conf' = conf /\ played' = played
        /\ pc' = "rest" /\ ret' = "end" /\ dir' = dir /\ withNodes' = withNodes
    BY <1>8, Zenon DEF Up, Return
  <2>2. /\ iter' \in Iterators /\ iter'.live = iter.live /\ iter'.node = iter.node
        /\ iter'.stack = iter.stack /\ iter'.pushed = iter.pushed
    <3>1. FileIs(iter', iter, -1) /\ -1 \in Int
      BY <2>1, Zenon, Fields, <1>2 DEF FileIs
    <3> QED
      BY <1>2, <3>1, FileTyped
  <2>3. job # "peek" =>
          Len(conf'.slots) = base + Len(iter'.stack) + (IF iter'.pushed THEN 1 ELSE 0)
    BY <1>4, <2>1, <2>2, Zenon
  <2>4. \A d \in [Nodes -> Nat] : Graded(kids, d) /\ Deep(d, iter) => Deep(d, iter')
    BY <2>2, Zenon DEF Deep
  <2>5. /\ pc' \in {"rest", "step", "up", "down"} /\ pc' # "down" /\ dir' \in Int
        /\ ret' \in Results /\ ret' # "entry" /\ (pc' # "rest" => ret' = "none")
        /\ played' \subseteq Nodes /\ (job = "peek" => conf' = conf)
    BY <1>2, <2>1 DEF Results
  <2>6. conf' \in Config /\ conf'.slots # <<>> /\ iter'.live
    BY <1>2, <2>1, <2>2, Zenon
  <2> QED
    BY <1>1, <1>6, <1>7, <2>1, <2>2, <2>3, <2>4, <2>5, <2>6, IterateKeeps, Zenon
<1>9. CASE ParentOf(iter.node) # NoNode
  <2>1. /\ iter' = [iter EXCEPT !.file = -1, !.node = ParentOf(iter.node),
                                !.loop = Last(iter.stack), !.stack = Front(@)]
        /\ conf' = (IF WithConfig THEN Pop(conf) ELSE conf)
        /\ \/ played' = played \cup {ParentOf(iter.node)}
           \/ played' = played
        /\ pc' = "step" /\ dir' = dir /\ withNodes' = withNodes /\ ret' = ret
    BY <1>9, Zenon DEF Up, Goto
  <2>2. /\ iter.node \in Nodes /\ ParentOf(iter.node) \in Nodes
        /\ Len(iter.stack) >= 1 /\ Len(Front(iter.stack)) = Len(iter.stack) - 1
        /\ iter' \in Iterators /\ iter'.live = iter.live /\ iter'.node = ParentOf(iter.node)
        /\ iter'.stack = Front(iter.stack) /\ iter'.pushed = iter.pushed
    BY <1>9, UpMoves
  <2>7. /\ conf' \in Config /\ conf'.slots # <<>> /\ (job = "peek" => conf' = conf)
        /\ job # "peek" =>
             Len(conf'.slots) = base + Len(iter'.stack) + (IF iter'.pushed THEN 1 ELSE 0)
    <3>1. CASE job = "peek"
      <4>1. conf' = conf
        BY <2>1, <3>1, Zenon DEF WithConfig
      <4> QED
        BY <1>2, <3>1, <4>1
    <3>2. CASE job # "peek"
      <4>1. conf' = Pop(conf)
        BY <2>1, <3>2, Zenon DEF WithConfig
      <4> DEFINE one == IF iter.pushed THEN 1 ELSE 0
      <4>2. one \in 0..1 /\ Len(conf.slots) = base + Len(iter.stack) + one
        BY <1>4, <3>2
      <4>3. iter'.stack = Front(iter.stack) /\ one = (IF iter'.pushed THEN 1 ELSE 0)
        BY <2>2, Zenon
      <4> HIDE DEF one
      <4>4. Len(conf.slots) >= 2
        BY <1>2, <1>3, <2>2, <4>2
      <4>5. conf' \in Config /\ Len(conf'.slots) = Len(conf.slots) - 1
        BY <1>2, <4>1, <4>4, PopTyped
      <4>6. Len(conf'.slots) = base + Len(Front(iter.stack)) + one
        BY <1>2, <1>3, <2>2, <4>2, <4>5
      <4>7. conf'.slots # <<>>
        BY <4>4, <4>5, <1>2 DEF Config
      <4>8. Len(conf'.slots) = base + Len(iter'.stack) + (IF iter'.pushed THEN 1 ELSE 0)
        BY <4>3, <4>6, Zenon
      <4> QED
        BY <3>2, <4>5, <4>7, <4>8, Zenon
    <3> QED
      BY <3>1, <3>2, Zenon
  <2>8. \A d \in [Nodes -> Nat] : Graded(kids, d) /\ Deep(d, iter) => Deep(d, iter')
    <3> SUFFICES ASSUME NEW d \in [Nodes -> Nat], Graded(kids, d), Deep(d, iter)
                 PROVE  Deep(d, iter')
      BY Zenon
    <3>1. d[iter.node] = d[ParentOf(iter.node)] + 1 /\ d[ParentOf(iter.node)] \in Nat
      BY <1>2, <1>9, <2>2, ParentLevel
    <3>2. d[iter.node] <= Len(iter.stack)
      BY <2>2, Zenon DEF Deep
    <3>3. d[ParentOf(iter.node)] <= Len(Front(iter.stack))
      BY <1>3, <2>2, <3>1, <3>2
    <3> QED
      BY <2>2, <3>3, Zenon DEF Deep
  <2>9. /\ pc' \in {"rest", "step", "up", "down"} /\ pc' # "down" /\ dir' \in Int
        /\ ret' \in Results /\ ret' # "entry" /\ (pc' # "rest" => ret' = "none")
    BY <1>2, <2>1 DEF Results
  <2>10. played' \subseteq Nodes
    BY <1>2, <2>1, <2>2, Zenon
  <2>11. iter'.live
    BY <1>2, <2>2, Zenon
  <2> QED
    BY <1>1, <1>6, <1>7, <2>1, <2>2, <2>7, <2>8, <2>9, <2>10, <2>11, IterateKeeps, Zenon
<1> QED
  BY <1>8, <1>9

(* The step down goes to one end of the group's list.                       *)
LEMMA DownMoves ==
  ASSUME IInv, Down
  PROVE  /\ iter.node \in Groups /\ kids[iter.node] # <<>>
         /\ iter' \in Iterators /\ iter'.live = iter.live
         /\ iter'.node = IF dir >= 0 THEN Head(kids[iter.node]) ELSE Last(kids[iter.node])
         /\ iter'.stack = Append(iter.stack, iter.loop) /\ iter'.pushed = iter.pushed
<1>1. /\ iter \in Iterators /\ kids \in [Nodes -> Seq(Nodes)] /\ loops \in [Nodes -> Int]
      /\ iter.node \in Groups /\ kids[iter.node] # <<>> /\ dir \in Int
  BY DEF IInv, TypeOK, Calls, Down
<1>2. iter.stack \in Seq(Int) /\ iter.loop \in Int /\ iter.node \in Nodes
  BY <1>1, Fields DEF Nodes
<1> DEFINE list == kids[iter.node]
           n == IF dir >= 0 THEN Head(list) ELSE Last(list)
           q == Append(iter.stack, iter.loop)
<1>3. n \in Nodes
  <2>1. list \in Seq(Nodes) /\ list # <<>>
    BY <1>1, <1>2
  <2> HIDE DEF list
  <2> QED
    BY <2>1 DEF Last
<1>4. q \in Seq(Int) /\ loops[iter.node] - 1 \in Int
  BY <1>1, <1>2
<1>5. iter' = [iter EXCEPT !.file = -1, !.stack = Append(iter.stack, iter.loop),
                           !.loop = loops[iter.node] - 1,
                           !.node = IF dir >= 0 THEN Head(kids[iter.node])
                                    ELSE Last(kids[iter.node])]
  BY Zenon DEF Down
<1>6. MovedIs(iter', iter, n, loops[iter.node] - 1, q)
  <2>1. iter = [live |-> iter.live, node |-> iter.node, loop |-> iter.loop,
                file |-> iter.file, pushed |-> iter.pushed, random |-> iter.random,
                stack |-> iter.stack]
    BY <1>1, Fields
  <2>2. [iter EXCEPT !.file = -1, !.stack = q, !.loop = loops[iter.node] - 1, !.node = n]
        = [iter EXCEPT !.file = -1, !.node = n, !.loop = loops[iter.node] - 1, !.stack = q]
    <3> HIDE DEF n, q
    <3> QED
      BY <2>1
  <2> QED
    BY <1>5, <2>2, Zenon DEF MovedIs
<1> HIDE DEF n, q
<1>7. PICK m \in Nodes, l \in Int, r \in Seq(Int) :
        MovedIs(iter', iter, m, l, r) /\ m = n /\ r = q
  BY <1>3, <1>4, <1>6, Zenon
<1>8. /\ iter' \in Iterators /\ iter'.live = iter.live /\ iter'.node = m
      /\ iter'.stack = r /\ iter'.pushed = iter.pushed
  <2>1. MovedIs(iter', iter, m, l, r) /\ iter \in Iterators
    BY <1>1, <1>7
  <2> QED
    BY <2>1, MovedTyped, SMTT(30)
<1> QED
  BY <1>1, <1>7, <1>8, Zenon DEF n, q

LEMMA DownKeeps ==
  ASSUME IInv, Down
  PROVE  IInv'
<1>1. /\ pc = "down" /\ pc # "rest" /\ loops' = loops /\ count' = count /\ played' = played
      /\ UNCHANGED <<kids, params, shuffled, job, eof, hold, base, lost, how, from, promised, cmds>>
      /\ pc' = "step" /\ dir' = 0 /\ withNodes' = withNodes /\ ret' = ret
      /\ conf' = (IF WithConfig THEN PushParams(conf, iter.node) ELSE conf)
  BY Zenon DEF Down, tree, history, Goto
<1>2. /\ iter \in Iterators /\ iter.live /\ base \in Nat
      /\ conf \in Config /\ conf.slots # <<>> /\ kids \in [Nodes -> Seq(Nodes)]
      /\ loops \in [Nodes -> Int] /\ played \subseteq Nodes /\ dir \in Int /\ ret = "none"
      /\ count \in [Files -> Nat] /\ params \in [Nodes -> Values \cup {Unset}]
      /\ iter.node \in Groups /\ kids[iter.node] # <<>>
  BY <1>1 DEF IInv, TypeOK, Calls, Balanced, Config
<1>3. iter.stack \in Seq(Int) /\ iter.loop \in Int /\ iter.node \in Nodes
  BY <1>2, Fields DEF Nodes
<1> DEFINE one == IF iter.pushed THEN 1 ELSE 0
<1>4. one \in 0..1 /\ (job # "peek" => Len(conf.slots) = base + Len(iter.stack) + one)
  <2>1. one \in 0..1
    OBVIOUS
  <2>2. job # "peek" => Len(conf.slots) = base + Len(iter.stack) + one
    BY <1>2, Zenon DEF IInv, Balanced, LevelsPaired, Held
  <2> QED
    BY <2>1, <2>2, Zenon
<1> HIDE DEF one
<1> DEFINE list == kids[iter.node]
           n == IF dir >= 0 THEN Head(list) ELSE Last(list)
           q == Append(iter.stack, iter.loop)
<1>5. n \in Nodes /\ \E i \in DOMAIN list : list[i] = n
  <2>1. list \in Seq(Nodes) /\ list # <<>>
    BY <1>2, <1>3
  <2>2. /\ Head(list) = list[1] /\ 1 \in DOMAIN list /\ list[1] \in Nodes
        /\ Last(list) = list[Len(list)] /\ Len(list) \in DOMAIN list /\ list[Len(list)] \in Nodes
    BY <2>1 DEF Last
  <2> HIDE DEF list
  <2> QED
    BY <2>2
<1>6. q \in Seq(Int) /\ Len(q) = Len(iter.stack) + 1 /\ loops[iter.node] - 1 \in Int
  BY <1>2, <1>3
<1>7. /\ iter' \in Iterators /\ iter'.live = iter.live /\ iter'.node = n
      /\ iter'.stack = q /\ iter'.pushed = iter.pushed
  BY DownMoves, Zenon
<1>8. /\ conf' \in Config /\ conf'.slots # <<>> /\ (job = "peek" => conf' = conf)
      /\ job # "peek" =>
           Len(conf'.slots) = base + Len(iter'.stack) + (IF iter'.pushed THEN 1 ELSE 0)
  <2>1. CASE job = "peek"
    <3>1. conf' = conf
      BY <1>1, <2>1, Zenon DEF WithConfig
    <3> QED
      BY <1>2, <2>1, <3>1
  <2>2. CASE job # "peek"
    <3>1. conf' = PushParams(conf, iter.node)
      BY <1>1, <2>2, Zenon DEF WithConfig
    <3>2. conf' \in Config /\ Len(conf'.slots) = Len(conf.slots) + 1
      BY <1>2, <1>3, <3>1, PushParamsTyped
    <3>3. iter'.stack = q /\ one = (IF iter'.pushed THEN 1 ELSE 0)
      BY <1>7, Zenon DEF one
    <3> HIDE DEF q
    <3>4. Len(conf'.slots) = base + Len(q) + one
      <4>1. Len(iter.stack) \in Nat /\ base \in Nat /\ one \in 0..1
            /\ Len(conf.slots) = base + Len(iter.stack) + one
        BY <1>2, <1>3, <1>4, <2>2
      <4> QED
        BY <4>1, <1>6, <3>2
    <3>5. Len(conf'.slots) = base + Len(iter'.stack) + (IF iter'.pushed THEN 1 ELSE 0)
      BY <3>3, <3>4, Zenon
    <3>6. conf'.slots # <<>>
      BY <1>2, <3>2 DEF Config
    <3> QED
      BY <2>2, <3>2, <3>5, <3>6, Zenon
  <2> QED
    BY <2>1, <2>2, Zenon
<1>9. \A d \in [Nodes -> Nat] : Graded(kids, d) /\ Deep(d, iter) => Deep(d, iter')
  <2> SUFFICES ASSUME NEW d \in [Nodes -> Nat], Graded(kids, d), Deep(d, iter)
               PROVE  Deep(d, iter')
    BY Zenon
  <2> HIDE DEF n, q
  <2>1. d[n] = d[iter.node] + 1 /\ d[iter.node] \in Nat
    BY <1>2, <1>3, <1>5 DEF Graded
  <2>2. d[iter.node] <= Len(iter.stack)
    BY <1>3, Zenon DEF Deep
  <2>3. d[n] <= Len(q)
    BY <1>3, <1>6, <2>1, <2>2
  <2> QED
    BY <1>7, <2>3, Zenon DEF Deep
<1>10. HeadAhead'
  <2>1. CASE job # "head"
    BY <1>1, <2>1 DEF HeadAhead
  <2>2. CASE job = "head"
    <3>1. Ahead
      BY <1>1, <2>2 DEF IInv, HeadAhead
    <3>2. PICK e \in Loads : kids = OnlyEntry(e)
                             /\ iter.node \in {Root, e.top} \cup ToSet(e.list)
      BY <3>1, Zenon DEF Ahead
    <3>3. n = Head(kids[iter.node])
      BY <3>1 DEF Ahead
    <3>4. /\ kids[Root] = <<e.top>> /\ kids[e.top] = e.list
          /\ e.list \in Seq(Files)
      BY <3>2, OnlyTyped, LoadTyped
    <3>5. iter.node \notin Files
      BY <1>2, NodesAssumption
    <3>6. iter.node \in {Root, e.top}
      BY <3>2, <3>4, <3>5 DEF ToSet
    <3>7. n \in {Root, e.top} \cup ToSet(e.list)
      <4>1. CASE iter.node = Root
        BY <3>3, <3>4, <4>1
      <4>2. CASE iter.node = e.top
        <5>1. e.list # <<>> /\ n = Head(e.list)
          BY <1>2, <3>3, <3>4, <4>2
        <5> QED
          BY <3>4, <5>1 DEF ToSet
      <4> QED
        BY <3>6, <4>1, <4>2
    <3> HIDE DEF n
    <3>8. /\ pc' \in {"step", "down"} /\ dir' = 0 /\ ~withNodes' /\ played' = {}
          /\ shuffled' \subseteq {Root}
      BY <1>1, <3>1 DEF Ahead
    <3>9. kids' = OnlyEntry(e) /\ iter'.node \in {Root, e.top} \cup ToSet(e.list)
      BY <1>1, <1>7, <3>2, <3>7, Zenon
    <3>10. Ahead'
      BY <3>8, <3>9, Zenon DEF Ahead
    <3> QED
      BY <1>1, <3>10 DEF HeadAhead
  <2> QED
    BY <2>1, <2>2
<1>11. /\ loops' \in [Nodes -> Int] /\ count' \in [Files -> Nat] /\ played' \subseteq Nodes
       /\ pc' \in {"rest", "step", "up", "down"} /\ pc' # "down" /\ dir' \in Int
       /\ ret' \in Results /\ ret' # "entry" /\ (pc' # "rest" => ret' = "none")
  BY <1>1, <1>2 DEF Results
<1>12. iter'.live
  BY <1>2, <1>7, Zenon
<1> QED
  BY <1>1, <1>7, <1>8, <1>9, <1>10, <1>11, <1>12, IterateKeeps, Zenon

(* The calls as a whole.                                                    *)
LEMMA IterateHolds ==
  ASSUME IInv, Iterate
  PROVE  IInv'
BY FirstStepKeeps, PassEndsKeeps, ListEndsKeeps, GroupKeeps, InvalidKeeps, EntryKeeps,
   UpKeeps, DownKeeps, Zenon DEF Iterate

-----------------------------------------------------------------------------
(* The main loop.                                                           *)
Jobs == {"none", "boot", "start", "next", "files", "filestep", "peek", "stop",
         "replace", "head", "playlist", "added", "unlooped"}

Ways == {"none", "natural", "back", "jump"}

LiveIs(new, it, t) == new = [it EXCEPT !.live = t]

LEMMA NoIterTyped ==
  /\ NoIter \in Iterators /\ ~NoIter.live /\ NoIter.node = NoNode
  /\ NewIter \in Iterators /\ NewIter.live /\ NewIter.node = NoNode
  /\ NewIter.stack = <<>> /\ ~NewIter.pushed
<1>1. /\ FALSE \in BOOLEAN /\ TRUE \in BOOLEAN /\ NoNode \in Nodes \cup {NoNode}
      /\ 0 \in Int /\ <<>> \in Seq(Int)
  OBVIOUS
<1>2. NoIter \in Iterators /\ ~NoIter.live /\ NoIter.node = NoNode
  BY <1>1, Zenon DEF NoIter, Iterators
<1>3. NewIter = [live |-> TRUE, node |-> NoNode, loop |-> 0, file |-> 0,
                 pushed |-> FALSE, random |-> FALSE, stack |-> <<>>]
  <2>1. ASSUME NEW it, NEW t, NEW b, NEW z, NEW q, NEW new, LiveIs(new, it, t),
               it = [live |-> b, node |-> NoNode, loop |-> z, file |-> z,
                     pushed |-> b, random |-> b, stack |-> q]
        PROVE  new = [live |-> t, node |-> NoNode, loop |-> z, file |-> z,
                      pushed |-> b, random |-> b, stack |-> q]
    BY <2>1 DEF LiveIs
  <2>2. NoIter = [live |-> FALSE, node |-> NoNode, loop |-> 0, file |-> 0,
                  pushed |-> FALSE, random |-> FALSE, stack |-> <<>>]
    BY Zenon DEF NoIter
  <2>3. LiveIs(NewIter, NoIter, TRUE)
    BY Zenon DEF LiveIs, NewIter
  <2> QED
    BY <2>1, <2>2, <2>3, Zenon
<1>4. /\ NewIter \in Iterators /\ NewIter.live /\ NewIter.node = NoNode
      /\ NewIter.stack = <<>> /\ ~NewIter.pushed
  BY <1>1, <1>3, Zenon DEF Iterators
<1> QED
  BY <1>2, <1>4, Zenon

(* When nothing is looked ahead, the iterator that is held is none.         *)
LEMMA LevelsStay ==
  ASSUME Levels, kids' = kids,
         iter'.node \in Nodes => iter'.node = iter.node /\ iter'.stack = iter.stack,
         saved' = saved
  PROVE  Levels'
<1>1. PICK d \in [Nodes -> Nat] : Graded(kids, d) /\ Deep(d, iter) /\ Deep(d, saved)
  BY Zenon DEF Levels
<1>2. Graded(kids', d) /\ Deep(d, iter') /\ Deep(d, saved')
  BY <1>1, Zenon DEF Deep
<1> QED
  BY <1>2, Zenon DEF Levels

(* What a step of the main loop has to show that begins no new iterator and *)
(* looks at no copy of one.                                                 *)
LEMMA LoopKeeps ==
  ASSUME IInv, pc = "rest", job # "peek", job' # "peek",
         kids' \in [Nodes -> Seq(Nodes)], loops' \in [Nodes -> Int],
         params' \in [Nodes -> Values \cup {Unset}], shuffled' \subseteq Groups,
         played' \subseteq Nodes, Levels',
         iter' \in Iterators, iter'.live = iter.live, iter'.stack = iter.stack,
         iter'.pushed = iter.pushed, saved' = saved, wanted' = wanted,
         conf' \in Config, conf'.slots = conf.slots, base' = base, lost' \in Nat,
         eof' \in {-1, 1}, victim' \in Files \cup {NoNode},
         how' \in Ways, from' \in Iterators, promised' \in BOOLEAN,
         count' \in [Files -> Nat], cmds' \in 0..MaxCommands,
         pc' \in {"rest", "step", "up"}, dir' \in Int, withNodes' \in BOOLEAN,
         ret' \in Results, job' \in Jobs, job' # "boot",
         pc' # "rest" => ret' = "none" /\ job' \notin {"none", "files", "playlist"},
         job' # "none" => iter.live,
         ret' = "entry" => iter'.node \in Files,
         job' \in {"files", "playlist"} \/ (job' = "none" /\ iter.live) => iter'.node \in Files,
         job' = "playlist" => iter'.node \in DOMAIN Contents,
         HeadAhead'
  PROVE  IInv'
<1>1. saved = NoIter
  BY Zenon DEF IInv, Calls
<1>2. TypeOK'
  <2>1. saved' \in Iterators /\ wanted' \in [at : {"step", "up"}, d : Int] /\ base' \in Nat
    BY Zenon DEF IInv, TypeOK
  <2>2. conf' \in [slots : Seq(Values), value : Values]
    BY Zenon DEF Config
  <2>3. pc' \in {"rest", "step", "up", "down"}
    OBVIOUS
  <2>4. ret' \in {"none", "entry", "node", "end", "error", "crash"}
    BY Zenon DEF Results
  <2>5. job' \in {"none", "boot", "start", "next", "files", "filestep", "peek", "stop",
                  "replace", "head", "playlist", "added", "unlooped"}
    BY Zenon DEF Jobs
  <2>6. how' \in {"none", "natural", "back", "jump"}
    BY Zenon DEF Ways
  <2> QED
    BY <2>1, <2>2, <2>3, <2>4, <2>5, <2>6, Zenon DEF TypeOK
<1>3. Balanced'
  <2>1. base' >= 1 /\ conf'.slots # <<>>
    BY Zenon DEF IInv, Balanced
  <2>2. LevelsPaired'
    BY Zenon DEF IInv, Balanced, LevelsPaired, Held
  <2> QED
    BY <2>1, <2>2, Zenon DEF Balanced
<1>4. Calls'
  <2>1. pc' # "down"
    OBVIOUS
  <2>2. pc' # "rest" => ret' = "none" /\ job' \notin {"none", "boot", "files", "playlist"}
    OBVIOUS
  <2>3. job' \notin {"none", "boot"} => iter'.live
    BY Zenon
  <2>4. job' \in {"files", "playlist"} \/ (job' = "none" /\ iter'.live) => iter'.node \in Files
    BY Zenon
  <2> QED
    BY <1>1, <2>1, <2>2, <2>3, <2>4, Zenon DEF Calls
<1> QED
  BY <1>2, <1>3, <1>4, Zenon DEF IInv

(* The same where nothing but the call and its history changes.             *)
LEMMA CallKeeps ==
  ASSUME IInv, pc = "rest", job # "peek", job' # "peek",
         UNCHANGED <<tree, iter, conf, saved, wanted>>, base' = base, lost' \in Nat,
         eof' \in {-1, 1}, victim' \in Files \cup {NoNode},
         how' \in Ways, from' \in Iterators, promised' \in BOOLEAN,
         count' \in [Files -> Nat], cmds' \in 0..MaxCommands,
         pc' \in {"rest", "step", "up"}, dir' \in Int, withNodes' \in BOOLEAN,
         ret' \in Results, job' \in Jobs \ {"boot", "head"},
         pc' # "rest" => ret' = "none" /\ job' \notin {"none", "files", "playlist"},
         job' # "none" => iter.live,
         ret' = "entry" => iter.node \in Files,
         job' \in {"files", "playlist"} \/ (job' = "none" /\ iter.live) => iter.node \in Files,
         job' = "playlist" => iter.node \in DOMAIN Contents
  PROVE  IInv'
<1>1. /\ kids' = kids /\ loops' = loops /\ params' = params /\ shuffled' = shuffled
      /\ played' = played /\ iter' = iter /\ conf' = conf /\ saved' = saved
      /\ wanted' = wanted
  BY DEF tree
<1>2. /\ kids' \in [Nodes -> Seq(Nodes)] /\ loops' \in [Nodes -> Int]
      /\ params' \in [Nodes -> Values \cup {Unset}] /\ shuffled' \subseteq Groups
      /\ played' \subseteq Nodes /\ iter' \in Iterators /\ conf' \in Config
  BY <1>1, Zenon DEF IInv, TypeOK, Config
<1>3. Levels'
  BY <1>1, LevelsStay, Zenon DEF IInv
<1>4. /\ iter'.live = iter.live /\ iter'.stack = iter.stack /\ iter'.pushed = iter.pushed
      /\ iter'.node = iter.node /\ conf'.slots = conf.slots
  BY <1>1, Zenon
<1>5. job' \in Jobs /\ job' # "boot" /\ job' # "head"
  OBVIOUS
<1>6. HeadAhead'
  BY <1>5, Zenon DEF HeadAhead
<1> QED
  BY <1>1, <1>2, <1>3, <1>4, <1>5, <1>6, LoopKeeps, Zenon

LEMMA Known ==
  ASSUME IInv
  PROVE  /\ eof \in {-1, 1} /\ victim \in Files \cup {NoNode} /\ how \in Ways
         /\ iter \in Iterators /\ saved \in Iterators /\ from \in Iterators
         /\ promised \in BOOLEAN /\ count \in [Files -> Nat] /\ cmds \in 0..MaxCommands
         /\ lost \in Nat /\ dir \in Int /\ withNodes \in BOOLEAN /\ ret \in Results /\ job \in Jobs
         /\ wanted \in [at : {"step", "up"}, d : Int]
BY Zenon DEF IInv, TypeOK, Results, Jobs, Ways

LEMMA CommandTyped ==
  ASSUME IInv, Command
  PROVE  cmds' \in 0..MaxCommands
<1>1. cmds \in 0..MaxCommands /\ MaxCommands \in Nat
  BY Known, NodesAssumption
<1> QED
  BY <1>1 DEF Command

LEMMA CallTyped ==
  ASSUME NEW where \in {"step", "up"}, NEW d \in Int, NEW nodes \in BOOLEAN,
         NEW j \in Jobs \ {"none", "boot", "files", "playlist"}, Call(where, d, nodes, j)
  PROVE  /\ pc' \in {"rest", "step", "up"} /\ dir' \in Int /\ withNodes' \in BOOLEAN
         /\ ret' \in Results /\ ret' # "entry" /\ job' = j /\ job' \in Jobs
         /\ pc' # "rest" => ret' = "none" /\ job' \notin {"none", "files", "playlist"}
         /\ job' \notin {"none", "boot", "files", "playlist"}
<1>1. pc' = where /\ dir' = d /\ withNodes' = nodes /\ ret' = "none" /\ job' = j
  BY DEF Call
<1>2. withNodes' \in BOOLEAN
  BY <1>1, Zenon
<1>3. /\ pc' \in {"rest", "step", "up"} /\ dir' \in Int
      /\ ret' \in Results /\ ret' # "entry" /\ job' = j /\ job' \in Jobs
      /\ job' \notin {"none", "boot", "files", "playlist"}
  BY <1>1 DEF Results
<1> QED
  BY <1>1, <1>2, <1>3, Zenon

NewCalls == Jobs \ {"none", "boot", "files", "playlist", "peek", "head"}

(* A call is made.                                                          *)
LEMMA NewCallKeeps ==
  ASSUME IInv, pc = "rest", job # "peek", iter.live,
         NEW where \in {"step", "up"}, NEW d \in Int, NEW nodes \in BOOLEAN,
         NEW j \in NewCalls, Call(where, d, nodes, j),
         UNCHANGED <<tree, iter, conf, saved, wanted>>, base' = base, lost' = lost, eof' = eof,
         victim' \in Files \cup {NoNode}, how' \in Ways, from' \in Iterators,
         promised' = promised, count' = count, cmds' \in 0..MaxCommands
  PROVE  IInv'
<1>1. /\ j \in Jobs \ {"none", "boot", "files", "playlist"} /\ j # "none" /\ j # "files"
      /\ j # "playlist" /\ j # "peek" /\ j \in Jobs \ {"boot", "head"}
  BY DEF NewCalls
<1>2. /\ pc' \in {"rest", "step", "up"} /\ dir' \in Int /\ withNodes' \in BOOLEAN
      /\ ret' \in Results /\ ret' # "entry" /\ job' = j
      /\ pc' # "rest" => ret' = "none" /\ job' \notin {"none", "files", "playlist"}
  BY <1>1, CallTyped, Zenon
<1> QED
  BY <1>1, <1>2, Known, CallKeeps, Zenon

(* The search for a file begins at an entry.                                *)
LEMMA SearchKeeps ==
  ASSUME IInv, pc = "rest", job # "peek", iter.live, iter.node \in Files,
         job' = "files", eof' \in {-1, 1}, NoCall,
         UNCHANGED <<tree, iter, conf, hold>>, base' = base, lost' = lost,
         how' \in Ways, from' \in Iterators,
         promised' = promised, count' = count, cmds' \in 0..MaxCommands
  PROVE  IInv'
<1>1. /\ pc' = pc /\ dir' = dir /\ withNodes' = withNodes /\ ret' = ret
      /\ UNCHANGED <<tree, iter, conf, saved, wanted>> /\ victim' = victim
  BY DEF NoCall, call, hold
<1>2. job' \in Jobs \ {"boot", "head"} /\ job' # "peek" /\ job' # "playlist"
      /\ "rest" \in {"rest", "step", "up"}
  BY DEF Jobs
<1> QED
  BY <1>1, <1>2, Known, CallKeeps, Zenon

LEMMA EndOfFileKeeps ==
  ASSUME IInv, EndOfFile
  PROVE  IInv'
<1>1. /\ pc = "rest" /\ job = "none" /\ iter.live /\ Call("step", 1, FALSE, "next")
      /\ how' = "natural" /\ from' = iter /\ base' = base /\ lost' = lost /\ promised' = promised
      /\ count' = count /\ UNCHANGED <<tree, iter, conf, saved, wanted>>
      /\ eof' = eof /\ victim' = victim /\ cmds' = cmds
  BY Zenon DEF EndOfFile, Playing, Returned, NextEntry, Leave, hold
<1>2. /\ "step" \in {"step", "up"} /\ 1 \in Int /\ FALSE \in BOOLEAN
      /\ "next" \in NewCalls /\ "natural" \in Ways /\ job # "peek"
  BY <1>1 DEF Jobs, Ways, NewCalls
<1> QED
  BY <1>1, <1>2, Known, NewCallKeeps, Zenon

LEMMA HeadFoundKeeps ==
  ASSUME IInv, HeadFound
  PROVE  IInv'
<1>1. /\ pc = "rest" /\ job = "head" /\ job' = "files" /\ eof' = 1 /\ NoCall
      /\ UNCHANGED <<tree, iter, conf, hold>> /\ base' = base /\ lost' = lost /\ how' = how /\ from' = from
      /\ promised' = promised /\ count' = count /\ cmds' = cmds
  BY Zenon DEF HeadFound, Returned, NextSource, history
<1>2. iter.live /\ iter.node \in Files /\ job # "peek" /\ 1 \in {-1, 1}
  BY <1>1 DEF IInv, Calls, HeadAhead
<1> QED
  BY <1>1, <1>2, Known, SearchKeeps, Zenon

LEMMA AltSourceKeeps ==
  ASSUME IInv, NEW v \in {-1, 1}, NEW opening \in BOOLEAN, AltSource(v, opening)
  PROVE  IInv'
<1>1. /\ pc = "rest" /\ job = "none" /\ iter.live /\ job' = "files" /\ eof' = v /\ NoCall
      /\ UNCHANGED <<tree, iter, conf, hold>> /\ base' = base /\ lost' = lost /\ how' = "jump" /\ from' = iter
      /\ promised' = promised /\ count' = count /\ Command
  BY Zenon DEF AltSource, Playing, Returned, NextSource, Leave
<1>2. iter.node \in Files /\ job # "peek" /\ "jump" \in Ways
  BY <1>1 DEF IInv, Calls, Ways
<1> QED
  BY <1>1, <1>2, Known, CommandTyped, SearchKeeps, Zenon

LEMMA GoToTopKeeps ==
  ASSUME IInv, NEW j \in {"stop", "replace"}, GoToTop(j)
  PROVE  IInv'
<1>1. /\ pc = "rest" /\ job = "none" /\ iter.live /\ Call("up", 0, TRUE, j)
      /\ how' = "jump" /\ from' = iter /\ base' = base /\ lost' = lost /\ promised' = promised
      /\ count' = count /\ UNCHANGED <<tree, iter, conf, saved, wanted>>
      /\ eof' = eof /\ victim' = victim /\ Command
  BY Zenon DEF GoToTop, Playing, Returned, Leave, hold
<1>2. /\ "up" \in {"step", "up"} /\ 0 \in Int /\ TRUE \in BOOLEAN
      /\ j \in NewCalls /\ "jump" \in Ways /\ job # "peek"
  BY <1>1 DEF Jobs, Ways, NewCalls
<1> QED
  BY <1>1, <1>2, Known, CommandTyped, NewCallKeeps, Zenon

LEMMA NotYetAtTopKeeps ==
  ASSUME IInv, NotYetAtTop
  PROVE  IInv'
<1>1. /\ pc = "rest" /\ job \in {"stop", "replace"} /\ Call("up", 0, TRUE, job)
      /\ how' = how /\ from' = from /\ base' = base /\ lost' = lost /\ promised' = promised
      /\ count' = count /\ UNCHANGED <<tree, iter, conf, saved, wanted>>
      /\ eof' = eof /\ victim' = victim /\ cmds' = cmds
  BY Zenon DEF NotYetAtTop, Returned, history, hold
<1>2. /\ "up" \in {"step", "up"} /\ 0 \in Int /\ TRUE \in BOOLEAN
      /\ job \in NewCalls /\ job # "peek" /\ iter.live
  BY <1>1 DEF Jobs, NewCalls, IInv, Calls
<1> QED
  BY <1>1, <1>2, Known, NewCallKeeps, Zenon

(* The iterator is freed.                                                   *)
LEMMA FreeKeeps ==
  ASSUME IInv, pc = "rest", job \notin {"peek", "boot"}, ret # "entry", Free, NoCall,
         UNCHANGED <<tree, conf, saved, wanted, cmds>>, eof' \in {-1, 1},
         victim' \in Files \cup {NoNode}
  PROVE  IInv'
<1>1. /\ kids' = kids /\ loops' = loops /\ params' = params /\ shuffled' = shuffled
      /\ played' = played /\ iter' = NoIter /\ conf' = conf /\ saved' = saved
      /\ wanted' = wanted /\ job' = "none" /\ how' = "none" /\ from' = NoIter
      /\ promised' = FALSE /\ count' = [f \in Files |-> 0] /\ base' = base /\ lost' = lost /\ cmds' = cmds
      /\ pc' = pc /\ dir' = dir /\ withNodes' = withNodes /\ ret' = ret
  BY DEF Free, NoCall, call, tree
<1>2. saved = NoIter
  BY Zenon DEF IInv, Calls
<1>3. count' \in [Files -> Nat]
  BY <1>1
<1>4. NoNode \notin Nodes
  BY NodesAssumption
<1>5. TypeOK'
  <2>1. TypeOK
    BY DEF IInv
  <2>2. NoIter \in Iterators /\ FALSE \in BOOLEAN
    BY NoIterTyped
  <2> QED
    BY <1>1, <1>3, <2>1, <2>2, Zenon DEF TypeOK
<1>6. Levels'
  <2>1. iter'.node \notin Nodes
    BY <1>1, <1>4, NoIterTyped
  <2> QED
    BY <1>1, <2>1, LevelsStay, Zenon DEF IInv
<1>7. Balanced'
  <2>1. LevelsPaired'
    BY <1>1, NoIterTyped, Zenon DEF LevelsPaired, Held
  <2> QED
    BY <1>1, <2>1, Zenon DEF Balanced, IInv
<1>8. Calls'
  <2>1. /\ job' \notin {"files", "playlist", "peek", "boot"} /\ pc' = "rest"
    BY <1>1
  <2>2. ~ iter'.live
    BY <1>1, NoIterTyped, Zenon
  <2>3. job' \in {"none", "boot"} /\ pc' # "down" /\ ret' # "entry" /\ job' # "playlist"
    BY <1>1
  <2> QED
    BY <1>1, <1>2, <2>1, <2>2, <2>3, Zenon DEF Calls
<1>9. HeadAhead'
  BY <1>1 DEF HeadAhead
<1> QED
  BY <1>5, <1>6, <1>7, <1>8, <1>9, Zenon DEF IInv

(* A file is opened and played.                                             *)
LEMMA PlayKeeps ==
  ASSUME IInv, pc = "rest", job \notin {"peek", "boot"}, iter.live, iter.node \in Files,
         NEW d \in {-1, 1}, Play(d), NoCall, job # "head",
         UNCHANGED <<tree, conf, eof, hold, base, lost, count, cmds>>
  PROVE  IInv'
<1>1. /\ kids' = kids /\ loops' = loops /\ params' = params /\ shuffled' = shuffled
      /\ played' = played /\ conf' = conf /\ saved' = saved /\ wanted' = wanted
      /\ victim' = victim /\ eof' = eof
      /\ how' = "none" /\ from' = NoIter /\ promised' = FALSE /\ count' = count
      /\ base' = base /\ lost' = lost /\ cmds' = cmds
      /\ pc' = pc /\ dir' = dir /\ withNodes' = withNodes /\ ret' = ret
      /\ iter' = [iter EXCEPT !.file = NextFile(d)]
      /\ job' = (IF iter.node \in DOMAIN Contents THEN "playlist" ELSE "none")
  BY Zenon DEF Play, NoCall, call, tree, hold
<1>2. iter \in Iterators
  BY Known
<1>3. NextFile(d) \in Int
  <2>1. iter.file \in Int /\ Sources[iter.node] \in Int
    BY <1>2, Fields, NodesAssumption
  <2> QED
    BY <2>1 DEF NextFile
<1>4. /\ iter' \in Iterators /\ iter'.live = iter.live /\ iter'.node = iter.node
      /\ iter'.stack = iter.stack /\ iter'.pushed = iter.pushed
  <2>1. FileIs(iter', iter, NextFile(d))
    BY <1>1, Zenon DEF FileIs
  <2>2. PICK f \in Int : FileIs(iter', iter, f)
    BY <1>3, <2>1, Zenon
  <2> QED
    BY <1>2, <2>2, FileTyped
<1>5. /\ kids' \in [Nodes -> Seq(Nodes)] /\ loops' \in [Nodes -> Int]
      /\ params' \in [Nodes -> Values \cup {Unset}] /\ shuffled' \subseteq Groups
      /\ played' \subseteq Nodes /\ conf' \in Config
  BY <1>1, Zenon DEF IInv, TypeOK, Config
<1>6. Levels'
  BY <1>1, <1>4, LevelsStay, Zenon DEF IInv
<1>7. job' \in Jobs /\ job' # "boot" /\ job' # "head" /\ job' # "peek" /\ job' # "files"
      /\ (job' = "playlist" => iter'.node \in DOMAIN Contents)
  BY <1>1, <1>4 DEF Jobs
<1>8. "none" \in Ways /\ NoIter \in Iterators /\ FALSE \in BOOLEAN
      /\ "rest" \in {"rest", "step", "up"} /\ job # "peek"
  BY NoIterTyped DEF Ways
<1>9. HeadAhead'
  BY <1>7, Zenon DEF HeadAhead
<1>10. conf'.slots = conf.slots /\ iter'.node \in Files
  BY <1>1, <1>4, Zenon
<1> QED
  BY <1>1, <1>4, <1>5, <1>6, <1>7, <1>8, <1>9, <1>10, Known, LoopKeeps, Zenon

LEMMA StartedKeeps ==
  ASSUME IInv, Started
  PROVE  IInv'
<1>1. /\ pc = "rest" /\ job = "start" /\ NoCall /\ UNCHANGED <<tree, conf, eof, hold, cmds>>
      /\ IF ret = "entry" THEN Play(1) /\ UNCHANGED <<base, lost, count>> ELSE Free
  BY Zenon DEF Started, Returned
<1>2. iter.live /\ (ret = "entry" => iter.node \in Files) /\ 1 \in {-1, 1}
      /\ job \notin {"peek", "boot"} /\ job # "head"
  BY <1>1 DEF IInv, Calls
<1>3. CASE ret = "entry"
  <2>1. Play(1) /\ UNCHANGED <<tree, conf, eof, hold, base, lost, count, cmds>>
    BY <1>1, <1>3
  <2> QED
    BY <1>1, <1>2, <1>3, <2>1, PlayKeeps, Zenon
<1>4. CASE ret # "entry"
  <2>1. Free /\ eof' = eof /\ victim' = victim
        /\ UNCHANGED <<tree, conf, saved, wanted, cmds>>
    BY <1>1, <1>4 DEF hold
  <2> QED
    BY <1>1, <1>2, <1>4, <2>1, Known, FreeKeeps, Zenon
<1> QED
  BY <1>3, <1>4

LEMMA NextDoneKeeps ==
  ASSUME IInv, NextDone
  PROVE  IInv'
<1>1. /\ pc = "rest" /\ job = "next" /\ NoCall /\ UNCHANGED <<tree, conf, hold, cmds>>
      /\ IF ret = "entry" THEN NextSource(1) /\ UNCHANGED <<iter, history>>
                          ELSE Free /\ UNCHANGED eof
  BY Zenon DEF NextDone, Returned
<1>2. iter.live /\ (ret = "entry" => iter.node \in Files) /\ 1 \in {-1, 1}
      /\ job \notin {"peek", "boot"} /\ job # "peek"
  BY <1>1 DEF IInv, Calls
<1>3. CASE ret = "entry"
  <2>1. /\ job' = "files" /\ eof' = 1 /\ base' = base /\ lost' = lost /\ how' = how /\ from' = from
        /\ promised' = promised /\ count' = count /\ UNCHANGED <<tree, iter, conf, hold>>
        /\ cmds' = cmds
    BY <1>1, <1>3 DEF NextSource, history
  <2> QED
    BY <1>1, <1>2, <1>3, <2>1, Known, SearchKeeps, Zenon
<1>4. CASE ret # "entry"
  <2>1. Free /\ eof' = eof /\ victim' = victim
        /\ UNCHANGED <<tree, conf, saved, wanted, cmds>>
    BY <1>1, <1>4 DEF hold
  <2> QED
    BY <1>1, <1>2, <1>4, <2>1, Known, FreeKeeps, Zenon
<1> QED
  BY <1>3, <1>4

LEMMA FileStepDoneKeeps ==
  ASSUME IInv, FileStepDone
  PROVE  IInv'
<1>1. /\ pc = "rest" /\ job = "filestep" /\ NoCall
      /\ UNCHANGED <<tree, conf, eof, hold, cmds>>
      /\ IF ret = "entry" THEN job' = "files" /\ UNCHANGED <<iter, history>> ELSE Free
  BY Zenon DEF FileStepDone, Returned
<1>2. iter.live /\ (ret = "entry" => iter.node \in Files)
      /\ job \notin {"peek", "boot"} /\ job # "peek"
  BY <1>1 DEF IInv, Calls
<1>3. CASE ret = "entry"
  <2>1. /\ job' = "files" /\ eof' = eof /\ base' = base /\ lost' = lost /\ how' = how /\ from' = from
        /\ promised' = promised /\ count' = count /\ UNCHANGED <<tree, iter, conf, hold>>
        /\ cmds' = cmds
    BY <1>1, <1>3 DEF history
  <2> QED
    BY <1>1, <1>2, <1>3, <2>1, Known, SearchKeeps, Zenon
<1>4. CASE ret # "entry"
  <2>1. Free /\ eof' = eof /\ victim' = victim
        /\ UNCHANGED <<tree, conf, saved, wanted, cmds>>
    BY <1>1, <1>4 DEF hold
  <2> QED
    BY <1>1, <1>2, <1>4, <2>1, Known, FreeKeeps, Zenon
<1> QED
  BY <1>3, <1>4

LEMMA StoppedKeeps ==
  ASSUME IInv, Stopped
  PROVE  IInv'
<1>1. /\ pc = "rest" /\ job = "stop" /\ ret # "entry" /\ Free /\ NoCall
      /\ eof' = eof /\ victim' = victim /\ UNCHANGED <<tree, conf, saved, wanted, cmds>>
      /\ job \notin {"peek", "boot"}
  BY DEF Stopped, Returned, hold
<1> QED
  BY <1>1, Known, FreeKeeps, Zenon

LEMMA FindFileKeeps ==
  ASSUME IInv, FindFile
  PROVE  IInv'
<1>1. /\ pc = "rest" /\ job = "files" /\ UNCHANGED <<tree, conf, eof, hold, cmds>>
      /\ IF HasFile THEN Play(eof) /\ NoCall /\ UNCHANGED <<base, lost, count>>
                    ELSE Call("step", eof, FALSE, "filestep") /\ UNCHANGED <<iter, history>>
  BY Zenon DEF FindFile, Returned
<1>2. iter.live /\ iter.node \in Files /\ job \notin {"peek", "boot"} /\ job # "peek"
      /\ job # "head"
  BY <1>1 DEF IInv, Calls
<1>3. CASE HasFile
  <2>1. Play(eof) /\ NoCall /\ UNCHANGED <<tree, conf, eof, hold, base, lost, count, cmds>>
    BY <1>1, <1>3
  <2> QED
    BY <1>1, <1>2, <2>1, Known, PlayKeeps, Zenon
<1>4. CASE ~HasFile
  <2>1. /\ Call("step", eof, FALSE, "filestep")
        /\ how' = how /\ from' = from /\ base' = base /\ lost' = lost /\ promised' = promised
        /\ count' = count /\ UNCHANGED <<tree, iter, conf, saved, wanted>>
        /\ eof' = eof /\ victim' = victim /\ cmds' = cmds
    BY <1>1, <1>4, Zenon DEF hold, history
  <2>2. /\ "step" \in {"step", "up"} /\ FALSE \in BOOLEAN /\ "filestep" \in NewCalls
    BY DEF Jobs, NewCalls
  <2>3. eof \in Int
    BY Known
  <2> QED
    BY <1>1, <1>2, <2>1, <2>2, <2>3, Known, NewCallKeeps, Zenon
<1> QED
  BY <1>3, <1>4

LEMMA SetOptionKeeps ==
  ASSUME IInv, NEW v \in Values, SetOption(v)
  PROVE  IInv'
<1>1. /\ pc = "rest" /\ job = "none" /\ conf' = [conf EXCEPT !.value = v] /\ Command
      /\ UNCHANGED <<tree, iter, call, job, eof, hold, history>>
  BY Zenon DEF SetOption, Returned
<1>2. /\ kids' = kids /\ loops' = loops /\ params' = params /\ shuffled' = shuffled
      /\ played' = played /\ iter' = iter /\ saved' = saved /\ wanted' = wanted
      /\ victim' = victim /\ eof' = eof /\ how' = how /\ from' = from /\ promised' = promised
      /\ count' = count /\ base' = base /\ lost' = lost /\ job' = job
      /\ pc' = pc /\ dir' = dir /\ withNodes' = withNodes /\ ret' = ret
  BY <1>1 DEF tree, call, hold, history
<1>3. conf' \in Config /\ conf'.slots = conf.slots
  <2>1. conf \in Config
    BY DEF IInv, TypeOK, Config
  <2> QED
    BY <1>1, <2>1 DEF Config
<1>4. /\ kids' \in [Nodes -> Seq(Nodes)] /\ loops' \in [Nodes -> Int]
      /\ params' \in [Nodes -> Values \cup {Unset}] /\ shuffled' \subseteq Groups
      /\ played' \subseteq Nodes
  BY <1>2, Zenon DEF IInv, TypeOK
<1>5. Levels'
  BY <1>2, LevelsStay, Zenon DEF IInv
<1>6. job # "peek" /\ job' # "boot" /\ job' # "head" /\ job' # "files" /\ job' # "playlist"
      /\ "rest" \in {"rest", "step", "up"} /\ job' = "none"
  BY <1>1, <1>2
<1>7. (ret' = "entry" => iter'.node \in Files) /\ (iter.live => iter'.node \in Files)
  BY <1>1, <1>2 DEF IInv, Calls
<1>8. HeadAhead'
  BY <1>6, Zenon DEF HeadAhead
<1>9. /\ iter'.live = iter.live /\ iter'.stack = iter.stack /\ iter'.pushed = iter.pushed
  BY <1>2, Zenon
<1> QED
  BY <1>1, <1>2, <1>3, <1>4, <1>5, <1>6, <1>7, <1>8, <1>9, Known, CommandTyped, LoopKeeps, Zenon

LEMMA MoveKeeps ==
  ASSUME IInv, NEW where \in {"step", "up"}, NEW n \in Int, NEW force \in BOOLEAN,
         Move(where, n, force)
  PROVE  IInv'
<1>1. /\ pc = "rest" /\ job = "none" /\ iter.live /\ Command
      /\ how' = Way(where, n) /\ from' = iter /\ base' = base /\ lost' = lost /\ promised' = promised
      /\ count' = count /\ UNCHANGED <<tree, iter, conf, eof>>
      /\ IF force
         THEN Call(where, n, FALSE, "next") /\ UNCHANGED hold
         ELSE /\ Call(where, n, FALSE, "peek")
              /\ saved' = iter /\ wanted' = [at |-> where, d |-> n] /\ UNCHANGED victim
  BY Zenon DEF Move, Playing, Returned, Leave
<1>2. how' \in Ways /\ FALSE \in BOOLEAN /\ job # "peek" /\ "next" \in NewCalls
      /\ "peek" \in Jobs \ {"none", "boot", "files", "playlist"}
  BY <1>1 DEF Way, Ways, Jobs, NewCalls
<1>3. iter \in Iterators /\ iter.node \in Files /\ cmds' \in 0..MaxCommands
  BY <1>1, Known, CommandTyped DEF IInv, Calls
<1>4. CASE force
  <2>1. Call(where, n, FALSE, "next") /\ UNCHANGED <<tree, iter, conf, saved, wanted>>
        /\ victim' = victim /\ eof' = eof
    BY <1>1, <1>4 DEF hold
  <2> QED
    BY <1>1, <1>2, <1>3, <2>1, Known, NewCallKeeps, Zenon
<1>5. CASE ~force
  <2>1. /\ Call(where, n, FALSE, "peek") /\ saved' = iter /\ victim' = victim
        /\ wanted' = [at |-> where, d |-> n]
        /\ kids' = kids /\ loops' = loops /\ params' = params /\ shuffled' = shuffled
        /\ played' = played /\ iter' = iter /\ conf' = conf /\ eof' = eof
    BY <1>1, <1>5 DEF tree
  <2>2. /\ pc' = where /\ dir' = n /\ withNodes' = FALSE /\ ret' = "none" /\ job' = "peek"
    BY <2>1 DEF Call
  <2>3. wanted' \in [at : {"step", "up"}, d : Int]
    BY <2>1
  <2>4. TypeOK'
    <3>1. TypeOK
      BY DEF IInv
    <3>2. pc' \in {"rest", "step", "up", "down"} /\ dir' \in Int
      BY <2>2
    <3>3. withNodes' \in BOOLEAN
      BY <1>2, <2>2, Zenon
    <3>4. ret' \in {"none", "entry", "node", "end", "error", "crash"}
      BY <2>2
    <3>5. job' \in {"none", "boot", "start", "next", "files", "filestep", "peek", "stop",
                    "replace", "head", "playlist", "added", "unlooped"}
      BY <2>2
    <3>6. how' \in {"none", "natural", "back", "jump"}
      BY <1>2 DEF Ways
    <3> QED
      BY <1>1, <1>3, <2>1, <2>3, <3>1, <3>2, <3>3, <3>4, <3>5, <3>6, Zenon DEF TypeOK
  <2>5. Levels'
    BY <2>1, Zenon DEF IInv, Levels
  <2>6. Balanced'
    <3>1. LevelsPaired'
      BY <1>1, <1>2, <2>1, <2>2, Zenon DEF IInv, Balanced, LevelsPaired, Held
    <3> QED
      BY <1>1, <2>1, <3>1, Zenon DEF IInv, Balanced
  <2>7. Calls'
    <3>1. job' \notin {"none", "boot", "files", "playlist"} /\ pc' # "down" /\ job' # "boot"
          /\ ret' # "entry" /\ job' # "none" /\ job' # "playlist"
      BY <2>2
    <3> QED
      BY <1>1, <1>3, <2>1, <2>2, <3>1, Zenon DEF Calls
  <2>8. HeadAhead'
    BY <2>2 DEF HeadAhead
  <2> QED
    BY <2>4, <2>5, <2>6, <2>7, <2>8, Zenon DEF IInv
<1> QED
  BY <1>4, <1>5

LEMMA PeekedKeeps ==
  ASSUME IInv, Peeked
  PROVE  IInv'
<1>1. /\ pc = "rest" /\ job = "peek" /\ iter' = saved /\ saved' = NoIter
      /\ UNCHANGED <<tree, conf, eof, wanted, victim, base, lost, count, cmds>>
      /\ IF ret = "entry"
         THEN /\ Call(wanted.at, wanted.d, FALSE, "next")
              /\ promised' = TRUE /\ UNCHANGED <<how, from>>
         ELSE /\ job' = "none" /\ NoCall
              /\ how' = "none" /\ from' = NoIter /\ UNCHANGED promised
  BY Zenon DEF Peeked, Returned
<1>2. /\ kids' = kids /\ loops' = loops /\ params' = params /\ shuffled' = shuffled
      /\ played' = played /\ conf' = conf /\ eof' = eof /\ wanted' = wanted
      /\ victim' = victim /\ base' = base /\ lost' = lost /\ count' = count /\ cmds' = cmds
  BY <1>1 DEF tree
<1>3. /\ \/ /\ pc' = wanted.at /\ dir' = wanted.d /\ withNodes' = FALSE /\ ret' = "none"
            /\ job' = "next" /\ promised' = TRUE /\ how' = how /\ from' = from
         \/ /\ pc' = "rest" /\ dir' = dir /\ withNodes' = withNodes /\ ret' = ret
            /\ ret' # "entry" /\ job' = "none" /\ how' = "none" /\ from' = NoIter
            /\ promised' = promised
  BY <1>1, Zenon DEF Call, NoCall, call
<1>4. saved.live /\ saved.node \in Files
  BY <1>1 DEF IInv, Calls
<1>5. wanted.at \in {"step", "up"} /\ wanted.d \in Int
  BY Known
<1>6. TypeOK'
  <2>1. TypeOK
    BY DEF IInv
  <2>2. pc' \in {"rest", "step", "up", "down"} /\ dir' \in Int
    BY <1>3, <1>5, Known
  <2>3. withNodes' \in BOOLEAN /\ promised' \in BOOLEAN
    BY <1>3, Known, Zenon
  <2>4. ret' \in {"none", "entry", "node", "end", "error", "crash"}
    BY <1>3, Known DEF Results
  <2>5. job' \in {"none", "boot", "start", "next", "files", "filestep", "peek", "stop",
                  "replace", "head", "playlist", "added", "unlooped"}
    BY <1>3
  <2>6. how' \in {"none", "natural", "back", "jump"}
    BY <1>3, Known DEF Ways
  <2>7. from' \in Iterators /\ iter' \in Iterators /\ saved' \in Iterators
    BY <1>1, <1>3, Known, NoIterTyped, Zenon
  <2> QED
    BY <1>2, <2>1, <2>2, <2>3, <2>4, <2>5, <2>6, <2>7, Zenon DEF TypeOK
<1>7. Levels'
  <2>1. PICK d \in [Nodes -> Nat] : Graded(kids, d) /\ Deep(d, iter) /\ Deep(d, saved)
    BY Zenon DEF IInv, Levels
  <2>2. saved'.node \notin Nodes
    BY <1>1, NoIterTyped, NodesAssumption
  <2>3. Graded(kids', d) /\ Deep(d, iter') /\ Deep(d, saved')
    BY <1>1, <1>2, <2>1, <2>2, Zenon DEF Deep
  <2> QED
    BY <2>3, Zenon DEF Levels
<1>8. job' # "peek" /\ job' # "boot" /\ job' # "files" /\ job' # "playlist" /\ job' # "head"
  BY <1>3
<1>9. Balanced'
  <2>1. LevelsPaired'
    BY <1>1, <1>2, <1>8, Zenon DEF IInv, Balanced, LevelsPaired, Held
  <2> QED
    BY <1>2, <2>1, Zenon DEF IInv, Balanced
<1>10. Calls'
  <2>1. iter'.live /\ iter'.node \in Files
    BY <1>1, <1>4, Zenon
  <2>2. pc' # "rest" => ret' = "none" /\ job' \notin {"none", "boot", "files", "playlist"}
    BY <1>3
  <2>3. pc' # "down" /\ ret' # "entry"
    BY <1>3, <1>5
  <2> QED
    BY <1>1, <1>8, <2>1, <2>2, <2>3, Zenon DEF Calls
<1>11. HeadAhead'
  BY <1>8, Zenon DEF HeadAhead
<1> QED
  BY <1>6, <1>7, <1>9, <1>10, <1>11, Zenon DEF IInv

-----------------------------------------------------------------------------
(* The tree changes.                                                        *)

(* What is added to a list is one level below the group of the list, and    *)
(* what it has in it one level more.                                        *)
LEMMA Grown ==
  ASSUME Levels, kids \in [Nodes -> Seq(Nodes)], saved = NoIter,
         NEW e, e.top \in Nodes, e.top # Root, e.list \in Seq(Files),
         e.top \in Files => e.list = <<>>, Fresh(e),
         NEW p \in Groups \cup {NoNode}, NEW list \in Seq(Nodes),
         p \in Groups => ToSet(list) \subseteq ToSet(kids[p]) \cup {e.top},
         kids' = [kids EXCEPT ![p] = list, ![e.top] = e.list],
         iter' = iter, saved' = saved
  PROVE  kids' \in [Nodes -> Seq(Nodes)] /\ Levels'
<1> DEFINE new == {e.top} \cup ToSet(e.list)
<1>1. PICK d \in [Nodes -> Nat] : Graded(kids, d) /\ Deep(d, iter)
  BY Zenon DEF Levels
<1>2. /\ Root \notin new /\ iter.node \notin new
      /\ \A q \in Groups : \A i \in DOMAIN kids[q] : kids[q][i] \notin new
  <2>1. \A q \in Groups : \A i \in DOMAIN kids[q] : kids[q][i] \in ToSet(kids[q])
    BY DEF ToSet
  <2>2. \A q \in Groups : ToSet(kids[q]) \cap new = {}
    BY Zenon DEF Fresh
  <2> QED
    BY <2>1, <2>2, Zenon DEF Fresh
<1>3. /\ Files \cap Groups = {} /\ Root \in Groups /\ Root \in Nodes /\ NoNode \notin Nodes
      /\ Groups \subseteq Nodes /\ Files \subseteq Nodes
  BY NodesAssumption DEF Nodes
<1>4. /\ ToSet(e.list) \subseteq Files
      /\ \A i \in DOMAIN e.list : e.list[i] \in ToSet(e.list)
  BY DEF ToSet
<1>5. /\ kids' \in [Nodes -> Seq(Nodes)] /\ kids'[e.top] = e.list
      /\ \A q \in Nodes \ {e.top} : kids'[q] = IF q = p THEN list ELSE kids[q]
  <2>1. e.list \in Seq(Nodes)
    BY <1>3
  <2>2. kids' = [q \in Nodes |-> IF q = e.top THEN e.list ELSE IF q = p THEN list ELSE kids[q]]
    OBVIOUS
  <2>3. \A q \in Nodes :
          (IF q = e.top THEN e.list ELSE IF q = p THEN list ELSE kids[q]) \in Seq(Nodes)
    BY <2>1
  <2>4. kids' \in [Nodes -> Seq(Nodes)]
    BY <2>2, <2>3, Zenon
  <2>5. \A q \in Nodes :
          kids'[q] = IF q = e.top THEN e.list ELSE IF q = p THEN list ELSE kids[q]
    BY <2>2, Zenon
  <2> QED
    BY <2>4, <2>5
<1> DEFINE at == IF p \in Groups THEN d[p] + 1 ELSE 0
           d2 == [n \in Nodes |-> IF n = e.top THEN at
                                  ELSE IF n \in ToSet(e.list) THEN at + 1 ELSE d[n]]
<1>6. at \in Nat
  <2>1. \A q \in Nodes : d[q] \in Nat
    BY <1>1, Zenon
  <2>2. CASE p \in Groups
    <3>1. d[p] \in Nat /\ at = d[p] + 1
      BY <1>3, <2>1, <2>2
    <3> HIDE DEF at
    <3> QED
      BY <3>1
  <2>3. CASE p \notin Groups
    BY <2>3
  <2> QED
    BY <2>2, <2>3
<1> HIDE DEF at
<1>7. d2 \in [Nodes -> Nat]
  <2>1. \A n \in Nodes : d[n] \in Nat
    BY <1>1, Zenon
  <2>2. at + 1 \in Nat
    BY <1>6
  <2> QED
    BY <1>6, <2>1, <2>2, Zenon
<1>8. /\ d2[e.top] = at
      /\ \A n \in ToSet(e.list) : n # e.top => d2[n] = at + 1
      /\ \A n \in Nodes : n \notin new => d2[n] = d[n]
  BY <1>3, <1>4
<1> HIDE DEF d2
<1>9. ASSUME NEW q \in Groups, NEW i \in DOMAIN kids'[q]
      PROVE  d2[kids'[q][i]] = d2[q] + 1
  <2>1. CASE q = e.top
    <3>1. kids'[q] = e.list /\ kids'[q][i] \in ToSet(e.list)
      BY <1>4, <1>5, <2>1
    <3>2. kids'[q][i] # e.top
      BY <1>3, <1>4, <2>1, <3>1
    <3> QED
      BY <1>8, <2>1, <3>1, <3>2
  <2>2. CASE q # e.top
    <3>1. q \notin new /\ d2[q] = d[q] /\ q \in Nodes
      BY <1>3, <1>4, <1>8, <2>2
    <3>2. ASSUME NEW n \in ToSet(kids[q]) PROVE d2[n] = d[q] + 1
      <4>1. PICK j \in DOMAIN kids[q] : n = kids[q][j]
        BY DEF ToSet
      <4>2. n \in Nodes /\ n \notin new /\ d[n] = d[q] + 1
        BY <1>1, <1>2, <3>1, <4>1 DEF Graded
      <4> QED
        BY <1>8, <4>2
    <3>3. CASE q = p
      <4>1. kids'[q] = list /\ kids'[q][i] \in ToSet(list)
        BY <1>5, <2>2, <3>1, <3>3 DEF ToSet
      <4>2. kids'[q][i] \in ToSet(kids[q]) \/ kids'[q][i] = e.top
        BY <3>3, <4>1
      <4>3. at = d[q] + 1
        BY <3>3 DEF at
      <4> QED
        BY <1>8, <3>1, <3>2, <4>2, <4>3
    <3>4. CASE q # p
      <4>1. kids'[q] = kids[q]
        BY <1>5, <2>2, <3>1, <3>4
      <4>2. kids'[q][i] \in ToSet(kids[q])
        BY <4>1 DEF ToSet
      <4> QED
        BY <3>1, <3>2, <4>2
    <3> QED
      BY <3>3, <3>4
  <2> QED
    BY <2>1, <2>2
<1>10. Graded(kids', d2)
  BY <1>1, <1>2, <1>3, <1>8, <1>9 DEF Graded
<1>11. Deep(d2, iter') /\ Deep(d2, saved')
  <2>1. saved'.node \notin Nodes
    BY <1>3, NoIterTyped
  <2>2. iter.node \in Nodes => d2[iter.node] = d[iter.node]
    BY <1>2, <1>8
  <2> QED
    BY <1>1, <2>1, <2>2, Zenon DEF Deep
<1> QED
  BY <1>5, <1>7, <1>10, <1>11, Zenon DEF Levels

LEMMA LoadAppendKeeps ==
  ASSUME IInv, NEW e \in NewEntries, LoadAppend(e)
  PROVE  IInv'
<1>1. /\ pc = "rest" /\ job = "none" /\ iter.live /\ Command
      /\ kids' = [kids EXCEPT ![Root] = Append(kids[Root], e.top), ![e.top] = e.list]
      /\ loops' = loops /\ params' = params /\ shuffled' = shuffled
      /\ played' = played /\ iter' = iter /\ saved' = saved /\ wanted' = wanted
      /\ conf' = conf
      /\ victim' = victim /\ eof' = eof /\ how' = how /\ from' = from /\ promised' = promised
      /\ count' = count /\ base' = base /\ lost' = lost /\ job' = job
      /\ pc' = pc /\ dir' = dir /\ withNodes' = withNodes /\ ret' = ret
  BY DEF LoadAppend, Playing, Returned, call, hold, history
<1>2. e \in Loads /\ Fresh(e)
  BY DEF NewEntries
<1>3. kids \in [Nodes -> Seq(Nodes)] /\ saved = NoIter /\ Levels
  BY <1>1 DEF IInv, TypeOK, Calls
<1>4. /\ e.top \in Nodes /\ e.top # Root /\ e.list \in Seq(Files)
      /\ e.top \in Files => e.list = <<>>
  BY <1>2, LoadTyped
<1>5. Root \in Groups /\ Root \in Groups \cup {NoNode} /\ Root \in Nodes
  BY NodesAssumption DEF Nodes
<1>6. /\ Append(kids[Root], e.top) \in Seq(Nodes)
      /\ ToSet(Append(kids[Root], e.top)) \subseteq ToSet(kids[Root]) \cup {e.top}
  BY <1>3, <1>4, <1>5 DEF ToSet
<1>7. kids' \in [Nodes -> Seq(Nodes)] /\ Levels'
  BY <1>1, <1>2, <1>3, <1>4, <1>5, <1>6, Grown, Zenon
<1>8. /\ loops' \in [Nodes -> Int] /\ conf' \in Config
      /\ params' \in [Nodes -> Values \cup {Unset}] /\ shuffled' \subseteq Groups
      /\ played' \subseteq Nodes
  BY <1>1, Zenon DEF IInv, TypeOK, Config
<1>9. job # "peek" /\ job' # "boot" /\ job' # "head" /\ job' # "files" /\ job' # "playlist"
      /\ "rest" \in {"rest", "step", "up"} /\ job' = "none" /\ job' # "peek"
  BY <1>1
<1>10. iter'.node \in Files
  BY <1>1 DEF IInv, Calls
<1>11. HeadAhead'
  BY <1>9, Zenon DEF HeadAhead
<1>12. /\ iter'.live = iter.live /\ iter'.stack = iter.stack /\ iter'.pushed = iter.pushed
       /\ conf'.slots = conf.slots
  BY <1>1, Zenon
<1> QED
  BY <1>1, <1>7, <1>8, <1>9, <1>10, <1>11, <1>12, Known, CommandTyped, LoopKeeps, Zenon

LEMMA InsertedIn ==
  ASSUME NEW A, NEW s \in Seq(A), NEW i \in 1..(Len(s) + 1), NEW e \in A
  PROVE  InsertAt(s, i, e) \in Seq(A)
<1>1. SubSeq(s, 1, i - 1) \in Seq(A) /\ SubSeq(s, i, Len(s)) \in Seq(A) /\ <<e>> \in Seq(A)
  OBVIOUS
<1> QED
  BY <1>1 DEF InsertAt

LEMMA InsertedMembers ==
  ASSUME NEW A, NEW s \in Seq(A), NEW i \in 1..(Len(s) + 1), NEW e
  PROVE  ToSet(InsertAt(s, i, e)) \subseteq ToSet(s) \cup {e}
<1> DEFINE B == ToSet(s) \cup {e}
<1>1. s \in Seq(B) /\ e \in B
  BY DEF ToSet
<1> HIDE DEF B
<1>2. InsertAt(s, i, e) \in Seq(B)
  BY <1>1, InsertedIn
<1>3. ToSet(InsertAt(s, i, e)) \subseteq B
  BY <1>2 DEF ToSet
<1> QED
  BY <1>3 DEF B

LEMMA OpenPlaylistKeeps ==
  ASSUME IInv, OpenPlaylist
  PROVE  IInv'
<1> DEFINE e == Contents[iter.node]
           p == ParentOf(iter.node)
<1>1. /\ pc = "rest" /\ job = "playlist" /\ victim' = iter.node
      /\ loops' = loops /\ shuffled' = shuffled /\ played' = played
      /\ iter' = iter /\ saved' = saved /\ wanted' = wanted /\ conf' = conf
      /\ eof' = eof /\ how' = how /\ from' = from /\ promised' = promised
      /\ count' = count /\ base' = base /\ lost' = lost /\ cmds' = cmds
      /\ Call("step", 1, FALSE, "added")
      /\ IF e = NoEntry
         THEN kids' = kids /\ params' = params
         ELSE /\ Fresh(e)
              /\ kids' = [kids EXCEPT ![p] = InsertAfter(kids[p], iter.node, e.top),
                                      ![e.top] = e.list]
              /\ params' = [params EXCEPT ![e.top] = params[iter.node]]
  BY Zenon DEF OpenPlaylist, Returned, history
<1>2. /\ kids \in [Nodes -> Seq(Nodes)] /\ saved = NoIter /\ Levels /\ iter.live
      /\ iter.node \in Files /\ iter.node \in DOMAIN Contents
      /\ params \in [Nodes -> Values \cup {Unset}]
  BY <1>1 DEF IInv, TypeOK, Calls
<1>3. iter.node \in Nodes /\ NoNode \notin Nodes
  BY <1>2, NodesAssumption DEF Nodes
<1>4. kids' \in [Nodes -> Seq(Nodes)] /\ params' \in [Nodes -> Values \cup {Unset}] /\ Levels'
  <2>1. CASE e = NoEntry
    <3>1. kids' = kids /\ params' = params
      BY <1>1, <2>1
    <3> QED
      BY <1>1, <1>2, <3>1, LevelsStay, Zenon
  <2>2. CASE e # NoEntry
    <3>1. e \in [top : Groups \ {Root}, list : Seq(Files)]
      BY <1>2, <2>2, NodesAssumption
    <3> HIDE DEF e
    <3>2. /\ e.top \in Nodes /\ e.top # Root /\ e.list \in Seq(Files)
          /\ e.top \in Files => e.list = <<>>
      BY <3>1, NodesAssumption DEF Nodes
    <3>3. /\ Fresh(e)
          /\ kids' = [kids EXCEPT ![p] = InsertAfter(kids[p], iter.node, e.top),
                                  ![e.top] = e.list]
          /\ params' = [params EXCEPT ![e.top] = params[iter.node]]
      BY <1>1, <2>2 DEF e
    <3>4. params' \in [Nodes -> Values \cup {Unset}]
      BY <1>2, <1>3, <3>2, <3>3
    <3>5. CASE p = NoNode
      <4>1. kids' = [kids EXCEPT ![NoNode] = <<>>, ![e.top] = e.list]
        BY <1>2, <1>3, <3>2, <3>3, <3>5
      <4>2. /\ NoNode \in Groups \cup {NoNode} /\ <<>> \in Seq(Nodes)
            /\ NoNode \notin Groups
        BY <1>3 DEF Nodes
      <4> QED
        BY <1>1, <1>2, <3>2, <3>3, <3>4, <4>1, <4>2, Grown, Zenon
    <3>6. CASE p # NoNode
      <4>1. p \in Groups /\ p \in Groups \cup {NoNode} /\ kids[p] \in Seq(Nodes)
        BY <1>2, <3>6, ParentHasIt DEF Nodes
      <4>2. Siblings(iter.node) = kids[p]
        BY <3>6 DEF Siblings
      <4>3. Place(iter.node) \in DOMAIN kids[p]
        BY <1>2, <1>3, <4>2, SiblingsTyped
      <4> DEFINE list == InsertAfter(kids[p], iter.node, e.top)
                 i == Place(iter.node) + 1
      <4>4. list = InsertAt(kids[p], i, e.top) /\ i \in 1..(Len(kids[p]) + 1)
        BY <4>1, <4>3 DEF InsertAfter
      <4> HIDE DEF i
      <4>5. list \in Seq(Nodes) /\ ToSet(list) \subseteq ToSet(kids[p]) \cup {e.top}
        BY <3>2, <4>1, <4>4, InsertedIn, InsertedMembers
      <4>6. kids' = [kids EXCEPT ![p] = list, ![e.top] = e.list]
        BY <3>3
      <4> HIDE DEF list, p
      <4> QED
        BY <1>1, <1>2, <3>2, <3>3, <3>4, <4>1, <4>5, <4>6, Grown, Zenon
    <3> QED
      BY <3>5, <3>6
  <2> QED
    BY <2>1, <2>2
<1>5. /\ loops' \in [Nodes -> Int] /\ conf' \in Config
      /\ shuffled' \subseteq Groups /\ played' \subseteq Nodes
  BY <1>1, Zenon DEF IInv, TypeOK, Config
<1>6. /\ "step" \in {"step", "up"} /\ 1 \in Int /\ FALSE \in BOOLEAN
      /\ "added" \in Jobs \ {"none", "boot", "files", "playlist"} /\ job # "peek"
  BY <1>1 DEF Jobs
<1>7. /\ pc' \in {"rest", "step", "up"} /\ dir' \in Int /\ withNodes' \in BOOLEAN
      /\ ret' \in Results /\ ret' # "entry" /\ job' = "added" /\ job' \in Jobs
      /\ pc' # "rest" => ret' = "none" /\ job' \notin {"none", "files", "playlist"}
  BY <1>1, <1>6, CallTyped, Zenon
<1>8. job' # "peek" /\ job' # "boot" /\ job' # "head" /\ job' # "none"
      /\ job' # "files" /\ job' # "playlist" /\ job' \notin {"files", "playlist"}
  BY <1>7
<1>9. HeadAhead'
  BY <1>8, Zenon DEF HeadAhead
<1>10. victim' \in Files \cup {NoNode} /\ iter' \in Iterators
  BY <1>1, <1>2, Known
<1>11. /\ iter'.live = iter.live /\ iter'.stack = iter.stack /\ iter'.pushed = iter.pushed
       /\ conf'.slots = conf.slots
  BY <1>1, Zenon
<1> QED
  BY <1>1, <1>2, <1>4, <1>5, <1>6, <1>7, <1>8, <1>9, <1>10, <1>11, Known, LoopKeeps, Zenon

(* What is left when nodes are taken out keeps its levels.                  *)
LEMMA Shrunk ==
  ASSUME kids \in [Nodes -> Seq(Nodes)], NEW S,
         kids' = [n \in Nodes |-> Kept(kids[n], S)]
  PROVE  /\ kids' \in [Nodes -> Seq(Nodes)]
         /\ \A d \in [Nodes -> Nat] : Graded(kids, d) => Graded(kids', d)
<1>1. \A n \in Nodes : Kept(kids[n], S) \in Seq(Nodes)
  BY KeptIn
<1>2. kids' \in [Nodes -> Seq(Nodes)]
  BY <1>1, Zenon
<1>3. ASSUME NEW d \in [Nodes -> Nat], Graded(kids, d), NEW p \in Groups, NEW j \in DOMAIN kids'[p]
      PROVE  d[kids'[p][j]] = d[p] + 1
  <2>1. p \in Nodes /\ kids'[p] = Kept(kids[p], S) /\ kids[p] \in Seq(Nodes)
    BY DEF Nodes
  <2>2. \E i \in DOMAIN kids[p] : kids'[p][j] = kids[p][i]
    BY <2>1, KeptMembers
  <2> QED
    BY <1>3, <2>2 DEF Graded
<1> QED
  BY <1>2, <1>3, Zenon DEF Graded

LEMMA PlaylistDoneKeeps ==
  ASSUME IInv, PlaylistDone
  PROVE  IInv'
<1>1. /\ pc = "rest" /\ job \in {"added", "unlooped"}
      /\ iter' = iter /\ saved' = saved /\ wanted' = wanted /\ conf' = conf
      /\ how' = how /\ from' = from /\ promised' = promised
      /\ count' = count /\ base' = base /\ lost' = lost /\ cmds' = cmds
      /\ \/ NextEntry /\ victim' = NoNode /\ UNCHANGED <<tree, eof>>
         \/ Call("up", 1, FALSE, "unlooped") /\ UNCHANGED <<tree, eof, victim>>
         \/ ret = "entry" /\ RemoveVictim /\ NextSource(1) /\ NoCall
  BY Zenon DEF PlaylistDone, Returned, history
<1>2. /\ iter.live /\ job # "peek" /\ (ret = "entry" => iter.node \in Files)
  BY <1>1 DEF IInv, Calls
<1>3. /\ "step" \in {"step", "up"} /\ "up" \in {"step", "up"} /\ 1 \in Int /\ FALSE \in BOOLEAN
      /\ "next" \in NewCalls /\ "unlooped" \in NewCalls /\ NoNode \in Files \cup {NoNode}
  BY DEF Jobs, NewCalls
<1>4. CASE NextEntry /\ victim' = NoNode /\ UNCHANGED <<tree, eof>>
  <2>1. /\ Call("step", 1, FALSE, "next") /\ eof' = eof
        /\ UNCHANGED <<tree, iter, conf, saved, wanted>>
    BY <1>1, <1>4 DEF NextEntry
  <2> QED
    BY <1>1, <1>2, <1>3, <1>4, <2>1, Known, NewCallKeeps, Zenon
<1>5. CASE Call("up", 1, FALSE, "unlooped") /\ UNCHANGED <<tree, eof, victim>>
  <2>1. /\ eof' = eof /\ victim' = victim /\ UNCHANGED <<tree, iter, conf, saved, wanted>>
    BY <1>1, <1>5
  <2> QED
    BY <1>1, <1>2, <1>3, <1>5, <2>1, Known, NewCallKeeps, Zenon
<1>6. CASE ret = "entry" /\ RemoveVictim /\ NextSource(1) /\ NoCall
  <2>1. /\ kids' = [n \in Nodes |-> Kept(kids[n], Nodes \ {victim})]
        /\ params' = [params EXCEPT ![victim] = Unset]
        /\ played' = played \ {victim} /\ victim' = NoNode
        /\ loops' = loops /\ shuffled' = shuffled
        /\ job' = "files" /\ eof' = 1
        /\ pc' = pc /\ dir' = dir /\ withNodes' = withNodes /\ ret' = ret
    BY <1>6 DEF RemoveVictim, NextSource, NoCall, call
  <2>2. /\ kids \in [Nodes -> Seq(Nodes)] /\ loops \in [Nodes -> Int]
        /\ params \in [Nodes -> Values \cup {Unset}] /\ shuffled \subseteq Groups
        /\ played \subseteq Nodes /\ conf \in Config /\ Levels
    BY DEF IInv, TypeOK, Config
  <2>3. /\ kids' \in [Nodes -> Seq(Nodes)]
        /\ \A d \in [Nodes -> Nat] : Graded(kids, d) => Graded(kids', d)
    BY <2>1, <2>2, Shrunk
  <2>4. /\ params' \in [Nodes -> Values \cup {Unset}] /\ played' \subseteq Nodes
        /\ loops' \in [Nodes -> Int] /\ shuffled' \subseteq Groups
    BY <2>1, <2>2
  <2>5. Levels'
    BY <1>1, <2>2, <2>3, Zenon DEF Levels
  <2>6. job' \in Jobs /\ job' # "boot" /\ job' # "head" /\ job' # "peek" /\ job' # "none"
        /\ job' # "playlist" /\ "rest" \in {"rest", "step", "up"} /\ eof' \in {-1, 1}
    BY <2>1 DEF Jobs
  <2>7. HeadAhead'
    BY <2>6, Zenon DEF HeadAhead
  <2>8. /\ iter'.live = iter.live /\ iter'.stack = iter.stack /\ iter'.pushed = iter.pushed
        /\ conf'.slots = conf.slots /\ iter'.node \in Files /\ conf' \in Config
        /\ victim' \in Files \cup {NoNode}
    BY <1>1, <1>2, <1>3, <1>6, <2>1, <2>2, Zenon
  <2> QED
    BY <1>1, <1>2, <1>3, <2>1, <2>3, <2>4, <2>5, <2>6, <2>7, <2>8, Known, LoopKeeps, Zenon
<1> QED
  BY <1>1, <1>4, <1>5, <1>6

LEMMA OnlyGraded ==
  ASSUME NEW e \in Loads
  PROVE  \E d \in [Nodes -> Nat] : Graded(OnlyEntry(e), d)
<1> DEFINE d == [n \in Nodes |-> IF n = Root THEN 0 ELSE IF n = e.top THEN 1 ELSE 2]
<1>1. /\ OnlyEntry(e)[Root] = <<e.top>> /\ OnlyEntry(e)[e.top] = e.list
      /\ \A n \in Nodes \ {Root, e.top} : OnlyEntry(e)[n] = <<>>
  BY OnlyTyped
<1>2. /\ e.top \in Nodes /\ e.top # Root /\ e.list \in Seq(Files)
      /\ e.top \in Files <=> e.list = <<>>
  BY LoadTyped
<1>3. /\ Root \in Nodes /\ Root \notin Files /\ Groups \subseteq Nodes /\ Files \subseteq Nodes
  BY NodesAssumption DEF Nodes
<1>4. ASSUME NEW p \in Groups, NEW i \in DOMAIN OnlyEntry(e)[p]
      PROVE  d[OnlyEntry(e)[p][i]] = d[p] + 1
  <2>1. CASE p = Root
    BY <1>1, <1>2, <1>3, <2>1
  <2>2. CASE p = e.top
    <3>1. e.list[i] \in Files /\ OnlyEntry(e)[p][i] = e.list[i] /\ e.list # <<>>
      BY <1>1, <1>2, <2>2
    <3>2. e.list[i] # Root /\ e.list[i] # e.top /\ e.list[i] \in Nodes
      BY <1>2, <1>3, <3>1
    <3> QED
      BY <1>2, <1>3, <2>2, <3>1, <3>2
  <2>3. CASE p \notin {Root, e.top}
    BY <1>1, <1>3, <2>3
  <2> QED
    BY <2>1, <2>2, <2>3
<1>5. d \in [Nodes -> Nat] /\ d[Root] = 0
  BY <1>3
<1> HIDE DEF d
<1> QED
  BY <1>4, <1>5 DEF Graded

LEMMA ReplaceTyped ==
  ASSUME IInv, NEW e \in Loads, Replace(e)
  PROVE  /\ kids' \in [Nodes -> Seq(Nodes)] /\ loops' \in [Nodes -> Int]
         /\ params' \in [Nodes -> Values \cup {Unset}] /\ shuffled' \subseteq Groups
         /\ played' \subseteq Nodes /\ count' \in [Files -> Nat]
         /\ \E d \in [Nodes -> Nat] : Graded(kids', d)
<1>1. /\ kids' = OnlyEntry(e)
      /\ loops' = [n \in Nodes |-> IF n = Root THEN loops[n] ELSE 0]
      /\ params' = [n \in Nodes |-> IF n = Root THEN params[n] ELSE Unset]
      /\ shuffled' = shuffled \cap {Root} /\ played' = {}
      /\ count' = [f \in Files |-> 0]
  BY DEF Replace
<1>2. /\ loops \in [Nodes -> Int] /\ params \in [Nodes -> Values \cup {Unset}]
      /\ shuffled \subseteq Groups
  BY DEF IInv, TypeOK
<1>3. /\ kids' \in [Nodes -> Seq(Nodes)] /\ \E d \in [Nodes -> Nat] : Graded(kids', d)
  BY <1>1, OnlyTyped, OnlyGraded, Zenon
<1>4. /\ loops' \in [Nodes -> Int] /\ params' \in [Nodes -> Values \cup {Unset}]
      /\ shuffled' \subseteq Groups /\ played' \subseteq Nodes /\ count' \in [Files -> Nat]
  BY <1>1, <1>2
<1> QED
  BY <1>3, <1>4, Zenon

LEMMA ReplacedKeeps ==
  ASSUME IInv, NEW e \in Loads, Replaced(e)
  PROVE  IInv'
<1>1. /\ pc = "rest" /\ job = "replace" /\ Replace(e)
      /\ iter' = [iter EXCEPT !.node = Root]
      /\ Call("step", 0, FALSE, "head")
      /\ conf' = conf /\ eof' = eof /\ saved' = saved /\ wanted' = wanted /\ victim' = victim
      /\ base' = base /\ lost' = Len(iter.stack)
      /\ how' = how /\ from' = from /\ promised' = promised /\ cmds' = cmds
  BY Zenon DEF Replaced, Returned, hold
<1>2. /\ iter.live /\ saved = NoIter /\ job # "peek" /\ shuffled \subseteq Groups
  BY <1>1 DEF IInv, Calls, TypeOK
<1>3. /\ iter' \in Iterators /\ iter'.live = iter.live /\ iter'.node = Root
      /\ iter'.stack = iter.stack /\ iter'.pushed = iter.pushed
  <2>1. NodeIs(iter', iter, Root)
    BY <1>1, Zenon DEF NodeIs
  <2>2. PICK n \in Nodes : n = Root /\ NodeIs(iter', iter, n)
    BY <2>1, NodesAssumption DEF Nodes
  <2>3. iter \in Iterators
    BY Known
  <2> QED
    BY <2>2, <2>3, NodeTyped
<1>11. lost' \in Nat
  BY <1>1, Known, Fields
<1>4. /\ kids' \in [Nodes -> Seq(Nodes)] /\ loops' \in [Nodes -> Int]
      /\ params' \in [Nodes -> Values \cup {Unset}] /\ shuffled' \subseteq Groups
      /\ played' \subseteq Nodes /\ count' \in [Files -> Nat]
      /\ \E d \in [Nodes -> Nat] : Graded(kids', d)
  BY <1>1, ReplaceTyped, Zenon
<1>5. Levels'
  <2>1. PICK d \in [Nodes -> Nat] : Graded(kids', d)
    BY <1>4
  <2>2. Len(iter'.stack) \in Nat
    BY <1>3, Fields
  <2>3. Deep(d, iter')
    <3>1. d[Root] = 0
      BY <2>1 DEF Graded
    <3>2. d[iter'.node] <= Len(iter'.stack)
      BY <1>3, <2>2, <3>1
    <3> QED
      BY <3>2, Zenon DEF Deep
  <2>4. Deep(d, saved')
    <3>1. saved'.node \notin Nodes
      BY <1>1, <1>2, NoIterTyped, NodesAssumption
    <3> QED
      BY <3>1, Zenon DEF Deep
  <2> QED
    BY <2>1, <2>3, <2>4, Zenon DEF Levels
<1>6. /\ "step" \in {"step", "up"} /\ 0 \in Int /\ FALSE \in BOOLEAN
      /\ "head" \in Jobs \ {"none", "boot", "files", "playlist"}
  BY DEF Jobs
<1>7. /\ pc' \in {"rest", "step", "up"} /\ dir' \in Int /\ withNodes' \in BOOLEAN
      /\ ret' \in Results /\ ret' # "entry" /\ job' = "head" /\ job' \in Jobs
      /\ pc' # "rest" => ret' = "none" /\ job' \notin {"none", "files", "playlist"}
  BY <1>1, <1>6, CallTyped, Zenon
<1>8. job' # "peek" /\ job' # "boot" /\ job' # "none"
      /\ job' # "playlist" /\ job' \notin {"files", "playlist"}
  BY <1>7
<1>9. HeadAhead'
  <2>1. pc' = "step" /\ dir' = 0 /\ ~withNodes'
    BY <1>1 DEF Call
  <2>2. kids' = OnlyEntry(e) /\ played' = {} /\ shuffled' \subseteq {Root}
    BY <1>1 DEF Replace
  <2>3. iter'.node \in {Root, e.top} \cup ToSet(e.list)
    BY <1>3
  <2>4. pc' \in {"step", "down"} /\ pc' # "rest"
    BY <2>1
  <2>5. Ahead'
    BY <2>1, <2>2, <2>3, <2>4, Zenon DEF Ahead
  <2> QED
    BY <2>4, <2>5, Zenon DEF HeadAhead
<1>10. conf' \in Config /\ conf'.slots = conf.slots
  BY <1>1, Zenon DEF IInv, TypeOK, Config
<1> QED
  BY <1>1, <1>2, <1>3, <1>4, <1>5, <1>7, <1>8, <1>9, <1>10, <1>11, Known, LoopKeeps, Zenon

(* A new iterator begins on a tree, and its levels above those there are.   *)
LEMMA StartKeeps ==
  ASSUME IInv, pc = "rest", job # "peek", Start,
         kids' \in [Nodes -> Seq(Nodes)], loops' \in [Nodes -> Int],
         params' \in [Nodes -> Values \cup {Unset}], shuffled' \subseteq Groups,
         played' \subseteq Nodes, count' \in [Files -> Nat],
         \E d \in [Nodes -> Nat] : Graded(kids', d),
         UNCHANGED <<conf, eof, hold, how, from, promised>>, cmds' \in 0..MaxCommands
  PROVE  IInv'
<1>1. /\ iter' = NewIter /\ base' = Len(conf.slots) /\ lost' = 0 /\ Call("step", 0, FALSE, "start")
      /\ conf' = conf /\ eof' = eof /\ saved' = saved /\ wanted' = wanted /\ victim' = victim
      /\ how' = how /\ from' = from /\ promised' = promised
  BY DEF Start, hold
<1>2. pc' = "step" /\ dir' = 0 /\ withNodes' = FALSE /\ ret' = "none" /\ job' = "start"
  BY <1>1 DEF Call
<1>3. saved = NoIter /\ conf \in Config /\ conf.slots # <<>>
  BY DEF IInv, Calls, Balanced, TypeOK, Config
<1>4. base' \in Nat /\ base' >= 1 /\ lost' \in Nat
  BY <1>1, <1>3 DEF Config
<1>5. TypeOK'
  <2>1. TypeOK
    BY DEF IInv
  <2>2. pc' \in {"rest", "step", "up", "down"} /\ dir' \in Int
    BY <1>2
  <2>3. withNodes' \in BOOLEAN /\ iter' \in Iterators
    BY <1>1, <1>2, NoIterTyped, Zenon
  <2>4. ret' \in {"none", "entry", "node", "end", "error", "crash"}
    BY <1>2
  <2>5. job' \in {"none", "boot", "start", "next", "files", "filestep", "peek", "stop",
                  "replace", "head", "playlist", "added", "unlooped"}
    BY <1>2
  <2> QED
    BY <1>1, <1>4, <2>1, <2>2, <2>3, <2>4, <2>5, Zenon DEF TypeOK
<1>6. Levels'
  <2>1. PICK d \in [Nodes -> Nat] : Graded(kids', d)
    OBVIOUS
  <2>2. iter'.node \notin Nodes /\ saved'.node \notin Nodes
    BY <1>1, <1>3, NoIterTyped, NodesAssumption
  <2> QED
    BY <2>1, <2>2, Zenon DEF Levels, Deep
<1>7. Balanced'
  <2>1. iter'.stack = <<>> /\ ~iter'.pushed
    BY <1>1, NoIterTyped, Zenon
  <2>2. Len(conf'.slots) = base' + Len(<<>>) + 0
    BY <1>1, <1>4
  <2>3. Held' = iter'
    BY <1>2, Zenon DEF Held
  <2>4. LevelsPaired'
    BY <2>1, <2>2, <2>3, Zenon DEF LevelsPaired
  <2>5. conf'.slots # <<>>
    BY <1>1, <1>3
  <2> QED
    BY <1>4, <2>4, <2>5, Zenon DEF Balanced
<1>8. Calls'
  <2>1. iter'.live
    BY <1>1, NoIterTyped, Zenon
  <2>2. /\ job' \notin {"none", "boot", "files", "playlist"} /\ pc' # "down" /\ job' # "boot"
        /\ ret' # "entry" /\ job' # "none" /\ job' # "playlist" /\ job' # "peek"
        /\ job' \notin {"files", "playlist"}
    BY <1>2
  <2> QED
    BY <1>1, <1>2, <1>3, <2>1, <2>2, Zenon DEF Calls
<1>9. HeadAhead'
  BY <1>2 DEF HeadAhead
<1> QED
  BY <1>5, <1>6, <1>7, <1>8, <1>9, Zenon DEF IInv

LEMMA LoadIdleKeeps ==
  ASSUME IInv, NEW e \in Loads, LoadIdle(e)
  PROVE  IInv'
<1>1. /\ pc = "rest" /\ job = "none" /\ job # "peek" /\ Command /\ Replace(e) /\ Start
      /\ UNCHANGED <<conf, eof, hold, how, from, promised>>
  BY DEF LoadIdle, Idle, Returned
<1> QED
  BY <1>1, ReplaceTyped, CommandTyped, StartKeeps, Zenon

LEMMA BootKeeps ==
  ASSUME IInv, Boot
  PROVE  IInv'
<1>1. /\ pc = "rest" /\ job = "boot" /\ kids' = Cleaned
      /\ UNCHANGED <<played, conf, eof, hold, how, from, promised, count, cmds>>
      /\ loops' = [n \in Nodes |-> IF n \in Valid THEN loops[n] ELSE 0]
      /\ params' = [n \in Nodes |-> IF n \in Valid THEN params[n] ELSE Unset]
      /\ shuffled' = shuffled \cap Valid
      /\ IF Root \in Valid THEN Start
         ELSE job' = "none" /\ UNCHANGED <<iter, base, lost, call>>
  BY Zenon DEF Boot, Returned
<1>2. /\ iter = NoIter /\ saved = NoIter /\ job # "peek" /\ Levels /\ ret # "entry"
      /\ kids \in [Nodes -> Seq(Nodes)] /\ loops \in [Nodes -> Int]
      /\ params \in [Nodes -> Values \cup {Unset}] /\ shuffled \subseteq Groups
      /\ played \subseteq Nodes /\ count \in [Files -> Nat] /\ conf \in Config
  <2>1. iter = NoIter /\ job # "peek" /\ saved = NoIter
    BY <1>1 DEF IInv, Calls
  <2>2. ret # "entry"
    BY <2>1, NoIterTyped, NodesAssumption DEF IInv, Calls, Nodes
  <2> QED
    BY <2>1, <2>2 DEF IInv, TypeOK, Config
<1>3. /\ kids' \in [Nodes -> Seq(Nodes)]
      /\ \A d \in [Nodes -> Nat] : Graded(kids, d) => Graded(kids', d)
  BY <1>1, <1>2, Shrunk DEF Cleaned
<1>4. \E d \in [Nodes -> Nat] : Graded(kids', d)
  BY <1>2, <1>3, Zenon DEF Levels
<1>5. cmds' \in 0..MaxCommands /\ count' = count /\ played' = played
  BY <1>1, Known
<1>8. /\ loops' \in [Nodes -> Int] /\ params' \in [Nodes -> Values \cup {Unset}]
      /\ shuffled' \subseteq Groups
  <2> HIDE DEF Nodes
  <2> QED
    BY <1>1, <1>2
<1>6. CASE Root \in Valid
  <2>1. Start /\ UNCHANGED <<conf, eof, hold, how, from, promised>>
    BY <1>1, <1>6
  <2> QED
    BY <1>1, <1>2, <1>3, <1>4, <1>5, <1>8, <2>1, StartKeeps, Zenon
<1>7. CASE Root \notin Valid
  <2>1. /\ job' = "none"
        /\ iter' = iter /\ base' = base /\ lost' = lost /\ saved' = saved /\ wanted' = wanted
        /\ conf' = conf /\ victim' = victim /\ eof' = eof /\ how' = how /\ from' = from
        /\ promised' = promised
        /\ pc' = pc /\ dir' = dir /\ withNodes' = withNodes /\ ret' = ret
    BY <1>1, <1>7, Zenon DEF call, hold
  <2>3. Levels'
    BY <1>2, <1>3, <2>1, Zenon DEF Levels
  <2>4. job' \in Jobs /\ job' # "boot" /\ job' # "head" /\ job' # "peek" /\ job' # "files"
        /\ job' # "playlist" /\ "rest" \in {"rest", "step", "up"}
    BY <2>1 DEF Jobs
  <2>5. HeadAhead'
    BY <2>4, Zenon DEF HeadAhead
  <2>6. ~iter.live
    BY <1>2, NoIterTyped, Zenon
  <2>7. /\ iter'.live = iter.live /\ iter'.stack = iter.stack /\ iter'.pushed = iter.pushed
        /\ conf'.slots = conf.slots /\ iter' \in Iterators
    BY <2>1, Known, Zenon
  <2> QED
    BY <1>1, <1>2, <1>3, <1>5, <1>8, <2>1, <2>3, <2>4, <2>5, <2>6, <2>7, Known, LoopKeeps,
       Zenon
<1> QED
  BY <1>6, <1>7

-----------------------------------------------------------------------------
(* The program begins with a tree of the command line.                      *)
LEMMA TreeTyped ==
  ASSUME NEW t \in Trees
  PROVE  /\ t.kids \in [Nodes -> Seq(Nodes)] /\ t.loops \in [Nodes -> Int]
         /\ t.params \in [Nodes -> Values \cup {Unset}] /\ t.shuffled \subseteq Groups
<1>1. t \in [kids : [Nodes -> Seq(Nodes)], loops : [Nodes -> Int],
             params : [Nodes -> Values \cup {Unset}], shuffled : SUBSET Groups]
  BY NodesAssumption
<1> QED
  BY <1>1

LEMMA TreeGraded ==
  ASSUME NEW t \in Trees
  PROVE  \E d \in [Nodes -> Nat] : Graded(t.kids, d)
<1> DEFINE k == t.kids
           In(n, p) == \E i \in DOMAIN k[p] : k[p][i] = n
           Of(n) == CHOOSE p \in Groups : In(n, p)
<1>1. k \in [Nodes -> Seq(Nodes)]
  BY TreeTyped
<1>2. \A p, q \in Groups : \A i \in DOMAIN k[p], j \in DOMAIN k[q] :
        k[p][i] = k[q][j] => p = q /\ i = j
  BY TreesAssumption, Zenon
<1>3. PICK level \in [Groups -> 0..Cardinality(Groups)] :
        /\ level[Root] = 0
        /\ \A p \in Groups : \A m \in ToSet(k[p]) \cap Groups : level[m] = level[p] + 1
  BY TreesAssumption, Zenon
<1> HIDE DEF k
<1>4. /\ Files \cap Groups = {} /\ Root \in Groups /\ Root \in Nodes
      /\ Groups \subseteq Nodes /\ \A n \in Nodes : n \notin Groups => n \in Files
  BY NodesAssumption DEF Nodes
<1>5. \A g \in Groups : level[g] \in Nat
  BY <1>3
<1>6. ASSUME NEW n, NEW p \in Groups, In(n, p)
      PROVE  Of(n) = p
  <2>1. Of(n) \in Groups /\ In(n, Of(n))
    BY <1>6
  <2> QED
    BY <1>2, <1>6, <2>1
<1> DEFINE d == [n \in Nodes |-> IF n \in Groups THEN level[n]
                                 ELSE IF Of(n) \in Groups THEN level[Of(n)] + 1 ELSE 0]
<1>7. d \in [Nodes -> Nat]
  <2>1. \A g \in Groups : level[g] + 1 \in Nat
    BY <1>5
  <2>2. 0 \in Nat
    OBVIOUS
  <2> HIDE DEF Of
  <2> QED
    BY <1>5, <2>1, <2>2, Zenon
<1> HIDE DEF Of
<1>11. /\ \A n \in Groups : d[n] = level[n]
      /\ \A n \in Nodes : n \notin Groups /\ Of(n) \in Groups => d[n] = level[Of(n)] + 1
  BY <1>4, Zenon
<1> HIDE DEF d
<1>8. ASSUME NEW p \in Groups, NEW i \in DOMAIN k[p]
      PROVE  d[k[p][i]] = d[p] + 1
  <2> DEFINE m == k[p][i]
  <2>1. m \in Nodes /\ m \in ToSet(k[p]) /\ In(m, p) /\ d[p] = level[p]
    BY <1>1, <1>4, <1>11 DEF ToSet
  <2>2. Of(m) = p
    BY <1>6, <2>1
  <2> HIDE DEF m, In
  <2>3. m \in Groups => d[m] = d[p] + 1
    BY <1>3, <1>11, <2>1
  <2>4. m \notin Groups => d[m] = d[p] + 1
    BY <1>11, <2>1, <2>2
  <2> QED
    BY <2>3, <2>4 DEF m
<1>9. d[Root] = 0
  BY <1>3, <1>4, <1>11
<1>10. Graded(k, d)
  BY <1>8, <1>9 DEF Graded
<1> QED
  BY <1>7, <1>10 DEF k

LEMMA InitHolds ==
  ASSUME Init
  PROVE  IInv
<1>1. PICK t \in Trees : kids = t.kids /\ loops = t.loops
                         /\ params = t.params /\ shuffled = t.shuffled
  BY DEF Init
<1>2. /\ played = {} /\ iter = NoIter /\ saved = NoIter /\ from = NoIter
      /\ conf = [slots |-> <<Global>>, value |-> Global]
      /\ pc = "rest" /\ dir = 0 /\ withNodes = FALSE /\ ret = "none"
      /\ job = "boot" /\ eof = 1 /\ wanted = [at |-> "step", d |-> 0] /\ victim = NoNode
      /\ base = 1 /\ lost = 0 /\ how = "none" /\ promised = FALSE
      /\ count = [f \in Files |-> 0] /\ cmds = 0
  BY DEF Init
<1>3. /\ kids \in [Nodes -> Seq(Nodes)] /\ loops \in [Nodes -> Int]
      /\ params \in [Nodes -> Values \cup {Unset}] /\ shuffled \subseteq Groups
      /\ \E d \in [Nodes -> Nat] : Graded(kids, d)
  BY <1>1, TreeTyped, TreeGraded
<1>4. TypeOK
  <2>1. /\ conf \in [slots : Seq(Values), value : Values] /\ played \subseteq Nodes
        /\ pc \in {"rest", "step", "up", "down"} /\ dir \in Int
        /\ ret \in {"none", "entry", "node", "end", "error", "crash"}
        /\ job \in {"none", "boot", "start", "next", "files", "filestep", "peek", "stop",
                    "replace", "head", "playlist", "added", "unlooped"}
        /\ eof \in {-1, 1} /\ wanted \in [at : {"step", "up"}, d : Int]
        /\ victim \in Files \cup {NoNode} /\ base \in Nat /\ lost \in Nat
        /\ how \in {"none", "natural", "back", "jump"} /\ count \in [Files -> Nat]
        /\ cmds \in 0..MaxCommands
    BY <1>2, NodesAssumption
  <2>2. withNodes \in BOOLEAN /\ promised \in BOOLEAN
        /\ iter \in Iterators /\ saved \in Iterators /\ from \in Iterators
    BY <1>2, NoIterTyped, Zenon
  <2> QED
    BY <1>3, <2>1, <2>2, Zenon DEF TypeOK
<1>5. Levels
  <2>1. NoIter.node \notin Nodes
    BY NoIterTyped, NodesAssumption
  <2> QED
    BY <1>2, <1>3, <2>1, Zenon DEF Levels, Deep
<1>6. Balanced
  <2>1. base >= 1 /\ conf.slots # <<>>
    BY <1>2
  <2>2. ~Held.live
    BY <1>2, NoIterTyped, Zenon DEF Held
  <2> QED
    BY <2>1, <2>2, Zenon DEF Balanced, LevelsPaired
<1>7. Calls
  <2>1. ~ (job = "none") /\ job # "peek" /\ ret # "entry" /\ pc # "down" /\ job # "playlist"
        /\ job # "files" /\ job \notin {"files", "playlist"} /\ job \in {"none", "boot"}
    BY <1>2
  <2> QED
    BY <1>2, <2>1, Zenon DEF Calls
<1>8. HeadAhead
  BY <1>2 DEF HeadAhead
<1> QED
  BY <1>4, <1>5, <1>6, <1>7, <1>8, Zenon DEF IInv

LEMMA StutterKeeps ==
  ASSUME IInv, UNCHANGED vars
  PROVE  IInv'
<1>1. /\ kids' = kids /\ loops' = loops /\ params' = params /\ shuffled' = shuffled
      /\ played' = played /\ iter' = iter /\ saved' = saved /\ wanted' = wanted
      /\ conf' = conf /\ victim' = victim /\ eof' = eof /\ how' = how /\ from' = from
      /\ promised' = promised /\ count' = count /\ base' = base /\ lost' = lost /\ job' = job /\ cmds' = cmds
      /\ pc' = pc /\ dir' = dir /\ withNodes' = withNodes /\ ret' = ret
  BY DEF vars, tree, call, hold, history
<1>2. TypeOK'
  <2>1. TypeOK
    BY DEF IInv
  <2>2. /\ kids' \in [Nodes -> Seq(Nodes)] /\ loops' \in [Nodes -> Int]
        /\ params' \in [Nodes -> Values \cup {Unset}]
        /\ shuffled' \subseteq Groups /\ played' \subseteq Nodes
        /\ iter' \in Iterators /\ saved' \in Iterators /\ from' \in Iterators
        /\ conf' \in [slots : Seq(Values), value : Values]
    BY <1>1, <2>1, Zenon DEF TypeOK
  <2>3. /\ pc' \in {"rest", "step", "up", "down"} /\ dir' \in Int /\ withNodes' \in BOOLEAN
        /\ ret' \in {"none", "entry", "node", "end", "error", "crash"}
        /\ job' \in {"none", "boot", "start", "next", "files", "filestep", "peek", "stop",
                    "replace", "head", "playlist", "added", "unlooped"}
    BY <1>1, <2>1, Zenon DEF TypeOK
  <2>4. /\ eof' \in {-1, 1} /\ wanted' \in [at : {"step", "up"}, d : Int]
        /\ victim' \in Files \cup {NoNode}
        /\ base' \in Nat /\ lost' \in Nat /\ how' \in {"none", "natural", "back", "jump"}
        /\ promised' \in BOOLEAN /\ count' \in [Files -> Nat] /\ cmds' \in 0..MaxCommands
    BY <1>1, <2>1, Zenon DEF TypeOK
  <2> QED
    BY <2>2, <2>3, <2>4, Zenon DEF TypeOK
<1>3. Levels'
  BY <1>1, Zenon DEF IInv, Levels
<1>4. Balanced'
  BY <1>1, Zenon DEF IInv, Balanced, LevelsPaired, Held
<1>5. Calls' /\ HeadAhead'
  BY <1>1, Zenon DEF IInv, Calls, HeadAhead, Ahead, OnlyEntry
<1> QED
  BY <1>2, <1>3, <1>4, <1>5, Zenon DEF IInv

LEMMA NextHolds ==
  ASSUME IInv, [Next]_vars
  PROVE  IInv'
<1>1. CASE Proceed
  <2>1. CASE \E e \in Loads : Replaced(e)
    BY <2>1, ReplacedKeeps, Zenon
  <2> QED
    BY <1>1, <2>1, IterateHolds, BootKeeps, StartedKeeps, NextDoneKeeps, FindFileKeeps,
       FileStepDoneKeeps, PeekedKeeps, NotYetAtTopKeeps, StoppedKeeps, HeadFoundKeeps,
       OpenPlaylistKeeps, PlaylistDoneKeeps, Zenon DEF Proceed
<1>2. CASE EndOfFile
  BY <1>2, EndOfFileKeeps, Zenon
<1>3. CASE \E force \in BOOLEAN : \E n \in {-2, -1, 1, 2} : PlayTreeStep(n, force)
  <2>1. PICK force \in BOOLEAN, n \in {-2, -1, 1, 2} : Move("step", n, force)
    BY <1>3, Zenon DEF PlayTreeStep
  <2>2. n \in Int /\ "step" \in {"step", "up"}
    OBVIOUS
  <2> QED
    BY <2>1, <2>2, MoveKeeps, Zenon
<1>4. CASE \E force \in BOOLEAN : \E n \in {-1, 1} : UpStep(n, force)
  <2>1. PICK force \in BOOLEAN, n \in {-1, 1} : Move("up", n, force)
    BY <1>4, Zenon DEF UpStep
  <2>2. n \in Int /\ "up" \in {"step", "up"}
    OBVIOUS
  <2> QED
    BY <2>1, <2>2, MoveKeeps, Zenon
<1>5. CASE \E force \in BOOLEAN : \E n \in {-1, 1} : AltSource(n, force)
  BY <1>5, AltSourceKeeps, Zenon
<1>6. CASE Stop \/ LoadReplace
  <2>1. "stop" \in {"stop", "replace"} /\ "replace" \in {"stop", "replace"}
    OBVIOUS
  <2> QED
    BY <1>6, <2>1, GoToTopKeeps, Zenon DEF Stop, LoadReplace
<1>7. CASE \E e \in NewEntries : LoadAppend(e)
  BY <1>7, LoadAppendKeeps, Zenon
<1>8. CASE \E e \in Loads : LoadIdle(e)
  BY <1>8, LoadIdleKeeps, Zenon
<1>9. CASE \E v \in Values : SetOption(v)
  BY <1>9, SetOptionKeeps, Zenon
<1>10. CASE UNCHANGED vars
  BY <1>10, StutterKeeps, Zenon
<1> QED
  BY <1>1, <1>2, <1>3, <1>4, <1>5, <1>6, <1>7, <1>8, <1>9, <1>10, Zenon DEF Next

(* The state of the player stays typed: no source, parent or saved option   *)
(* is read that is not there (playtree.c, m_config.c, mplayer.c).           *)
THEOREM TypeCorrect == Spec => []TypeOK
<1>1. Init => IInv
  BY InitHolds
<1>2. IInv /\ [Next]_vars => IInv'
  BY NextHolds
<1>3. IInv => TypeOK
  BY DEF IInv
<1> QED
  BY <1>1, <1>2, <1>3, PTL DEF Spec

(* m_config has one level for each group that the iterator is in and one    *)
(* for the entry that plays, above those it had: what is pushed on the way  *)
(* into a group or an entry is popped on the way out, however the iterator  *)
(* comes through the tree and whatever is loaded, removed or looked ahead.  *)
THEOREM LevelsArePaired == Spec => []LevelsPaired
<1>1. Init => IInv
  BY InitHolds
<1>2. IInv /\ [Next]_vars => IInv'
  BY NextHolds
<1>3. IInv => LevelsPaired
  BY DEF IInv, Balanced
<1> QED
  BY <1>1, <1>2, <1>3, PTL DEF Spec

(* A source is taken from the iterator only where it has an entry, and the  *)
(* first step after a load that replaced all others comes to one: its       *)
(* caller does not look at the result (run_command, main).                  *)
EntryWhereTaken ==
  /\ Returned("files") => iter.node \in Files
  /\ Returned("head") => ret = "entry" /\ iter.node \in Files

THEOREM SourceOfAnEntry == Spec => []EntryWhereTaken
<1>1. Init => IInv
  BY InitHolds
<1>2. IInv /\ [Next]_vars => IInv'
  BY NextHolds
<1>3. IInv => EntryWhereTaken
  BY DEF IInv, Calls, HeadAhead, EntryWhereTaken, Returned
<1> QED
  BY <1>1, <1>2, <1>3, PTL DEF Spec

=============================================================================
