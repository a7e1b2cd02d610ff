------------------------ MODULE PlayTreeNodes_proofs ------------------------
(***************************************************************************)
(* What TLAPS proves of the nodes of the play tree: where they are, which  *)
(* of them the iterator may be on, what a step finds there, which options  *)
(* are in force where it has found an entry, what is left, of levels and   *)
(* of the tree under the iterator, when a search or a playlist ends, and   *)
(* how a shuffled list is shared out among its files.                      *)
(***************************************************************************)
EXTENDS PlayTree_proofs, SequenceTheorems

-----------------------------------------------------------------------------
(* Kept keeps what is in the set, once.                                     *)
LEMMA KeptSame ==
  ASSUME NEW A, NEW list \in Seq(A), NEW S
  PROVE  /\ Kept(list, S) \in Seq(A)
         /\ ToSet(Kept(list, S)) = ToSet(list) \cap S
         /\ (\A i, j \in DOMAIN list : list[i] = list[j] => i = j)
            => \A i, j \in DOMAIN Kept(list, S) : Kept(list, S)[i] = Kept(list, S)[j] => i = j
<1> DEFINE N == Len(list)
           Upto(n) == {list[i] : i \in 1..n} \cap S
           Once(s) == \A i, j \in DOMAIN s : s[i] = s[j] => i = j
<1>1. PICK kept :
        /\ Kept(list, S) = kept[N]
        /\ \A i \in 0..N : kept[i] = IF i = 0 THEN <<>>
                                     ELSE IF list[i] \in S THEN Append(kept[i - 1], list[i])
                                     ELSE kept[i - 1]
  BY KeptUnfolds
<1> DEFINE Good(n) == /\ kept[n] \in Seq(A)
                      /\ {kept[n][i] : i \in DOMAIN kept[n]} = Upto(n)
                      /\ Once(list) => Once(kept[n])
           U == {n \in Nat : n <= N => Good(n)}
<1>2. 0 \in U
  <2>1. 0 \in 0..N
    OBVIOUS
  <2>2. kept[0] = <<>>
    BY <1>1, <2>1
  <2>3. <<>> \in Seq(A) /\ DOMAIN <<>> = {}
    OBVIOUS
  <2>4. Good(0)
    BY <2>2, <2>3
  <2> HIDE DEF Good
  <2> QED
    BY <2>4
<1>3. ASSUME NEW n \in U PROVE n + 1 \in U
  <2> SUFFICES ASSUME n + 1 <= N PROVE Good(n + 1)
    <3> HIDE DEF Good
    <3> QED
      BY <1>3
  <2>1. /\ n \in Nat /\ n + 1 \in 0..N /\ n + 1 # 0 /\ (n + 1) - 1 = n
        /\ n + 1 \in DOMAIN list /\ \A i \in 1..n : i \in DOMAIN list /\ i # n + 1
        /\ 1..(n + 1) = 1..n \cup {n + 1}
    <3> HIDE DEF Good
    <3> QED
      BY <1>3
  <2>2. Good(n)
    <3> HIDE DEF Good
    <3> QED
      BY <1>3, <2>1
  <2> DEFINE x == list[n + 1]
  <2>3. x \in A /\ Upto(n + 1) = IF x \in S THEN Upto(n) \cup {x} ELSE Upto(n)
    BY <2>1
  <2>4. Once(list) => x \notin Upto(n)
    BY <2>1
  <2> HIDE DEF x, Upto
  <2>5. CASE x \in S
    <3>1. kept[n + 1] = Append(kept[n], x)
      BY <1>1, <2>1, <2>5 DEF x
    <3> DEFINE s == kept[n]
    <3>2. s \in Seq(A) /\ {s[i] : i \in DOMAIN s} = Upto(n) /\ (Once(list) => Once(s))
      BY <2>2
    <3> HIDE DEF s
    <3>3. /\ Append(s, x) \in Seq(A) /\ DOMAIN Append(s, x) = DOMAIN s \cup {Len(s) + 1}
          /\ Append(s, x)[Len(s) + 1] = x /\ \A i \in DOMAIN s : Append(s, x)[i] = s[i]
      BY <2>3, <3>2
    <3>4. {Append(s, x)[i] : i \in DOMAIN Append(s, x)} = Upto(n) \cup {x}
      BY <3>2, <3>3
    <3>5. Once(list) => Once(Append(s, x))
      BY <2>4, <3>2, <3>3
    <3> QED
      BY <2>3, <2>5, <3>1, <3>3, <3>4, <3>5 DEF s
  <2>6. CASE x \notin S
    <3>1. kept[n + 1] = kept[n]
      BY <1>1, <2>1, <2>6 DEF x
    <3> QED
      BY <2>2, <2>3, <2>6, <3>1
  <2> QED
    BY <2>5, <2>6
<1> HIDE DEF Good
<1>4. U = Nat
  <2>1. \A n \in U : n + 1 \in U
    BY <1>3
  <2>2. U \in SUBSET Nat
    OBVIOUS
  <2> HIDE DEF U
  <2> QED
    BY <1>2, <2>1, <2>2, Induct
<1>5. Good(N)
  BY <1>4
<1> QED
  BY <1>1, <1>5 DEF Good, ToSet

-----------------------------------------------------------------------------
(* The least and the greatest.                                              *)
LEMMA Least ==
  ASSUME NEW T \in SUBSET Nat, T # {}
  PROVE  \E x \in T : \A y \in T : x <= y
<1> DEFINE U == {n \in Nat : \A y \in T : n <= y}
<1>1. ASSUME \A x \in T : \E y \in T : ~ (x <= y) PROVE FALSE
  <2>1. 0 \in U
    OBVIOUS
  <2>2. ASSUME NEW n \in U PROVE n + 1 \in U
    <3>1. ASSUME NEW y \in T PROVE n + 1 <= y
      <4>1. n <= y /\ y \in Nat /\ n \in Nat
        OBVIOUS
      <4>2. n # y
        BY <1>1, <4>1
      <4> QED
        BY <4>1, <4>2
    <3> QED
      BY <3>1
  <2>3. U \in SUBSET Nat
    OBVIOUS
  <2> HIDE DEF U
  <2>4. U = Nat
    BY <2>1, <2>2, <2>3, Induct
  <2>5. PICK y \in T : TRUE
    OBVIOUS
  <2>6. y + 1 \in U
    BY <2>4
  <2> QED
    BY <2>6 DEF U
<1> QED
  BY <1>1

(* There are finitely many groups, so that none is deeper than some bound.  *)
LEMMA Bounded ==
  ASSUME NEW d \in [Nodes -> Nat]
  PROVE  \E D \in Nat : \A p \in Groups : d[p] <= D
<1>1. PICK s \in Seq(Groups) : \A p \in Groups : \E i \in 1..Len(s) : s[i] = p
  BY NodesAssumption DEF IsFiniteSet
<1> DEFINE U == {n \in Nat : \E D \in Nat : \A i \in 1..Len(s) : i <= n => d[s[i]] <= D}
<1>2. 0 \in U
  OBVIOUS
<1>3. \A i \in 1..Len(s) : d[s[i]] \in Nat
  BY DEF Nodes
<1>4. ASSUME NEW n \in U PROVE n + 1 \in U
  <2>0. n + 1 \in Nat
    OBVIOUS
  <2>1. PICK D \in Nat : \A i \in 1..Len(s) : i <= n => d[s[i]] <= D
    OBVIOUS
  <2>2. CASE n + 1 \in 1..Len(s)
    <3> DEFINE x == d[s[n + 1]]
    <3>1. x \in Nat
      BY <1>3, <2>2
    <3>2. \A i \in 1..Len(s) : i = n + 1 => d[s[i]] = x
      OBVIOUS
    <3> HIDE DEF x
    <3>3. ASSUME NEW i \in 1..Len(s), i <= n + 1 PROVE d[s[i]] <= D + x
      <4>1. i <= n \/ i = n + 1
        BY <3>3
      <4> QED
        BY <1>3, <2>1, <3>1, <3>2, <4>1
    <3>4. PICK D2 \in Nat : D2 = D + x
      BY <3>1
    <3>5. \A i \in 1..Len(s) : i <= n + 1 => d[s[i]] <= D2
      BY <3>3, <3>4
    <3>6. \E D3 \in Nat : \A i \in 1..Len(s) : i <= n + 1 => d[s[i]] <= D3
      BY <3>5, Zenon
    <3> QED
      BY <2>0, <3>6, Zenon
  <2>3. CASE n + 1 \notin 1..Len(s)
    <3>1. ASSUME NEW i \in 1..Len(s), i <= n + 1 PROVE i <= n
      BY <2>3, <3>1
    <3>2. \A i \in 1..Len(s) : i <= n + 1 => d[s[i]] <= D
      BY <2>1, <3>1, Zenon
    <3> QED
      BY <2>0, <3>2, Zenon
  <2> QED
    BY <2>2, <2>3
<1>5. U \in SUBSET Nat
  OBVIOUS
<1> HIDE DEF U
<1>6. U = Nat
  BY <1>2, <1>4, <1>5, Induct
<1>7. Len(s) \in U
  BY <1>6
<1>8. PICK D \in Nat : \A i \in 1..Len(s) : i <= Len(s) => d[s[i]] <= D
  BY <1>7 DEF U
<1>9. ASSUME NEW p \in Groups PROVE d[p] <= D
  <2>1. PICK i \in 1..Len(s) : s[i] = p
    BY <1>1
  <2>2. i <= Len(s)
    OBVIOUS
  <2> QED
    BY <1>8, <2>1, <2>2, Zenon
<1> QED
  BY <1>9

LEMMA Deepest ==
  ASSUME NEW d \in [Nodes -> Nat], NEW S \in SUBSET Groups, S # {}
  PROVE  \E p \in S : \A q \in S : d[q] <= d[p]
<1>1. PICK D \in Nat : \A p \in Groups : d[p] <= D
  BY Bounded
<1>2. \A p \in S : d[p] \in Nat /\ D - d[p] \in Nat
  BY <1>1 DEF Nodes
<1> DEFINE T == {D - d[p] : p \in S}
<1>3. T \in SUBSET Nat /\ T # {}
  BY <1>2
<1> HIDE DEF T
<1>4. PICK x \in T : \A y \in T : x <= y
  BY <1>3, Least
<1>5. PICK p \in S : x = D - d[p]
  BY <1>4 DEF T
<1>6. ASSUME NEW q \in S PROVE d[q] <= d[p]
  <2>1. D - d[q] \in T
    BY DEF T
  <2>2. D - d[p] <= D - d[q]
    BY <1>4, <1>5, <2>1
  <2> QED
    BY <1>2, <2>2
<1> QED
  BY <1>6

-----------------------------------------------------------------------------
(* The tree.                                                                *)
Has(k, p, n) == \E i \in DOMAIN k[p] : k[p][i] = n

OnePlace(k) ==
  \A p, q \in Groups : \A i \in DOMAIN k[p], j \in DOMAIN k[q] :
    k[p][i] = k[q][j] => p = q /\ i = j

(* The root is in no list.                                                  *)
Topped(k) == \A p \in Groups : ~ Has(k, p, Root)

(* The way down from the root to a node: f[0] is the root, f[l] the node.   *)
Trail(k, f, l, n) ==
  /\ f[0] = Root /\ f[l] = n
  /\ \A i \in 0..(l - 1) : f[i] \in Groups /\ Has(k, f[i], f[i + 1])

Housed(k, n) == \E f \in [Nat -> Nodes], l \in Nat : Trail(k, f, l, n)

LEMMA RootTrail ==
  ASSUME NEW k
  PROVE  Housed(k, Root)
<1> DEFINE f == [i \in Nat |-> Root]
<1>1. f \in [Nat -> Nodes] /\ Trail(k, f, 0, Root)
  BY NodesAssumption DEF Trail, Nodes
<1> QED
  BY <1>1 DEF Housed

LEMMA ChildTrail ==
  ASSUME NEW k, NEW f \in [Nat -> Nodes], NEW l \in Nat, NEW p \in Groups, Trail(k, f, l, p),
         NEW n \in Nodes, Has(k, p, n)
  PROVE  [f EXCEPT ![l + 1] = n] \in [Nat -> Nodes] /\ Trail(k, [f EXCEPT ![l + 1] = n], l + 1, n)
<1> DEFINE h == [f EXCEPT ![l + 1] = n]
<1>1. h \in [Nat -> Nodes] /\ h[l + 1] = n /\ \A i \in 0..l : h[i] = f[i]
  OBVIOUS
<1>2. f[0] = Root /\ f[l] = p /\ \A i \in 0..(l - 1) : f[i] \in Groups /\ Has(k, f[i], f[i + 1])
  BY DEF Trail
<1> HIDE DEF h
<1>3. ASSUME NEW i \in 0..l PROVE h[i] \in Groups /\ Has(k, h[i], h[i + 1])
  <2>1. CASE i = l
    BY <1>1, <1>2, <2>1
  <2>2. CASE i \in 0..(l - 1)
    <3>1. i + 1 \in 0..l
      BY <2>2
    <3> QED
      BY <1>1, <1>2, <2>2, <3>1
  <2> QED
    BY <2>1, <2>2
<1>4. (l + 1) - 1 = l /\ 0 \in 0..l
  OBVIOUS
<1>5. Trail(k, h, l + 1, n)
  BY <1>1, <1>2, <1>3, <1>4 DEF Trail
<1> QED
  BY <1>1, <1>5 DEF h

LEMMA ParentTrail ==
  ASSUME NEW k, OnePlace(k), Topped(k), NEW f \in [Nat -> Nodes], NEW l \in Nat, NEW n \in Nodes,
         Trail(k, f, l, n), NEW p \in Groups, Has(k, p, n)
  PROVE  l >= 1 /\ l - 1 \in Nat /\ f[l - 1] = p /\ Trail(k, f, l - 1, p)
<1>1. n # Root
  BY DEF Topped
<1>2. l # 0
  BY <1>1 DEF Trail
<1>3. l - 1 \in 0..(l - 1) /\ (l - 1) + 1 = l
  BY <1>2
<1>4. f[l - 1] \in Groups /\ Has(k, f[l - 1], n)
  BY <1>3 DEF Trail
<1>5. f[l - 1] = p
  BY <1>4 DEF OnePlace, Has
<1>6. \A i \in 0..((l - 1) - 1) : i \in 0..(l - 1)
  OBVIOUS
<1> QED
  BY <1>2, <1>5, <1>6 DEF Trail

LEMMA SiblingTrail ==
  ASSUME NEW k, OnePlace(k), Topped(k), NEW f \in [Nat -> Nodes], NEW l \in Nat, NEW n \in Nodes,
         Trail(k, f, l, n), NEW p \in Groups, Has(k, p, n), NEW m \in Nodes, Has(k, p, m)
  PROVE  [f EXCEPT ![l] = m] \in [Nat -> Nodes] /\ Trail(k, [f EXCEPT ![l] = m], l, m)
<1>1. l >= 1 /\ l - 1 \in Nat /\ Trail(k, f, l - 1, p)
  BY ParentTrail
<1>2. PICK j \in Nat : j = l - 1 /\ j + 1 = l
  BY <1>1
<1>3. Trail(k, f, j, p)
  BY <1>1, <1>2
<1>4. /\ [f EXCEPT ![j + 1] = m] \in [Nat -> Nodes]
      /\ Trail(k, [f EXCEPT ![j + 1] = m], j + 1, m)
  BY <1>3, ChildTrail
<1> QED
  BY <1>2, <1>4

(* A trail stays when the tree changes elsewhere: v, at its end, is taken   *)
(* out, and the list of u, which has no place, is another one.              *)
LEMMA TrailStays ==
  ASSUME NEW k, NEW k2, NEW f \in [Nat -> Nodes], NEW l \in Nat, NEW n \in Nodes,
         Trail(k, f, l, n), NEW v, v \notin Groups, n # v,
         NEW u, u # Root, \A p \in Groups : ~ Has(k, p, u),
         \A p \in Groups \ {u} : \A m \in Nodes \ {v} : Has(k, p, m) => Has(k2, p, m)
  PROVE  Trail(k2, f, l, n)
<1>1. ASSUME NEW i \in 0..(l - 1) PROVE f[i] \in Groups /\ Has(k2, f[i], f[i + 1])
  <2>1. f[i] \in Groups /\ Has(k, f[i], f[i + 1]) /\ f[i + 1] \in Nodes
    BY DEF Trail
  <2>2. f[i] # u
    <3>1. CASE i = 0
      BY <3>1 DEF Trail
    <3>2. CASE i # 0
      <4>1. i - 1 \in 0..(l - 1) /\ (i - 1) + 1 = i
        BY <3>2
      <4> QED
        BY <4>1 DEF Trail
    <3> QED
      BY <3>1, <3>2
  <2>3. f[i + 1] # v
    <3>1. CASE i = l - 1
      BY <3>1 DEF Trail
    <3>2. CASE i # l - 1
      <4>1. i + 1 \in 0..(l - 1)
        BY <3>2
      <4> QED
        BY <4>1 DEF Trail
    <3> QED
      BY <3>1, <3>2
  <2> QED
    BY <2>1, <2>2, <2>3
<1> QED
  BY <1>1 DEF Trail

-----------------------------------------------------------------------------
(* The tree as it is.                                                       *)
LEMMA LevelsTop ==
  ASSUME Levels
  PROVE  Topped(kids)
<1>1. PICK d \in [Nodes -> Nat] : Graded(kids, d)
  BY Zenon DEF Levels
<1>2. \A p \in Groups : d[p] \in Nat
  BY DEF Nodes
<1> QED
  BY <1>1, <1>2 DEF Graded, Topped, Has

LEMMA ParentInIs ==
  ASSUME NEW k, k \in [Nodes -> Seq(Nodes)], OnePlace(k), NEW p \in Groups, NEW n, Has(k, p, n)
  PROVE  ParentIn(k, n) = p /\ ParentIn(k, n) # NoNode
<1>1. k[p] \in Seq(Nodes) /\ p # NoNode
  BY NodesAssumption DEF Nodes
<1>2. Contains(k[p], n)
  BY <1>1 DEF Contains, Has
<1>3. ParentIn(k, n) \in Groups /\ Contains(k[ParentIn(k, n)], n)
  BY <1>2, Zenon DEF ParentIn
<1>4. ParentIn(k, n) # NoNode
  BY <1>3, NodesAssumption DEF Nodes
<1>5. PICK j \in DOMAIN k[ParentIn(k, n)] : k[ParentIn(k, n)][j] = n
  BY <1>4, ParentInHasIt
<1>6. ParentIn(k, n) = p
  BY <1>3, <1>5 DEF OnePlace, Has
<1> QED
  BY <1>1, <1>6

LEMMA ParentIs ==
  ASSUME kids \in [Nodes -> Seq(Nodes)], OnePlace(kids), NEW p \in Groups, NEW n, Has(kids, p, n)
  PROVE  ParentOf(n) = p /\ ParentOf(n) # NoNode /\ Siblings(n) = kids[p]
<1>1. ParentOf(n) = ParentIn(kids, n)
  BY Zenon DEF ParentOf, ParentIn
<1>2. ParentOf(n) = p /\ ParentOf(n) # NoNode
  BY <1>1, ParentInIs
<1> QED
  BY <1>2 DEF Siblings

LEMMA SiblingHas ==
  ASSUME kids \in [Nodes -> Seq(Nodes)], NEW n \in Nodes, NEW m \in ToSet(Siblings(n))
  PROVE  /\ m \in Nodes
         /\ m = n \/ \E p \in Groups : Has(kids, p, n) /\ Has(kids, p, m)
<1>1. CASE ParentOf(n) = NoNode
  BY <1>1 DEF Siblings, ToSet
<1>2. CASE ParentOf(n) # NoNode
  <2>1. ParentOf(n) \in Groups /\ Has(kids, ParentOf(n), n)
    BY <1>2, ParentHasIt DEF Has
  <2>2. Siblings(n) = kids[ParentOf(n)] /\ kids[ParentOf(n)] \in Seq(Nodes)
    BY <1>2, <2>1 DEF Siblings, Nodes
  <2>3. m \in Nodes /\ Has(kids, ParentOf(n), m)
    BY <2>2 DEF ToSet, Has
  <2> QED
    BY <2>1, <2>3
<1> QED
  BY <1>1, <1>2

LEMMA ChildHas ==
  ASSUME kids \in [Nodes -> Seq(Nodes)], NEW p \in Groups, kids[p] # <<>>
  PROVE  /\ Head(kids[p]) \in Nodes /\ Has(kids, p, Head(kids[p]))
         /\ Last(kids[p]) \in Nodes /\ Has(kids, p, Last(kids[p]))
<1>1. kids[p] \in Seq(Nodes)
  BY DEF Nodes
<1>2. 1 \in DOMAIN kids[p] /\ Len(kids[p]) \in DOMAIN kids[p]
      /\ kids[p][1] = Head(kids[p]) /\ kids[p][Len(kids[p])] = Last(kids[p])
  BY <1>1 DEF Last
<1> QED
  BY <1>1, <1>2 DEF Has

(* InTree is what its recursive definition says: there is such a set, the   *)
(* complement of the largest set without the root that has the parents.     *)
InTreeIn(k) ==
  LET in[n \in Nodes] == n = Root \/ (ParentIn(k, n) # NoNode /\ in[ParentIn(k, n)])
  IN {n \in Nodes : in[n]}

LEMMA InTreeInUnfolds ==
  ASSUME NEW k, k \in [Nodes -> Seq(Nodes)], NEW n \in Nodes
  PROVE  n \in InTreeIn(k) <=>
           n = Root \/ (ParentIn(k, n) # NoNode /\ ParentIn(k, n) \in InTreeIn(k))
<1> DEFINE step(v) == [m \in Nodes |-> m = Root \/ (ParentIn(k, m) # NoNode /\ v[ParentIn(k, m)])]
           Fits(v) == v = step(v)
           Closed(S) == \A m \in S : m # Root /\ (ParentIn(k, m) # NoNode => ParentIn(k, m) \in S)
           Out == UNION {S \in SUBSET Nodes : Closed(S)}
           v0 == [m \in Nodes |-> m \notin Out]
<1>0. \A m \in Nodes : ParentIn(k, m) # NoNode => ParentIn(k, m) \in Nodes
  BY ParentInHasIt DEF Nodes
<1>1. Out \subseteq Nodes /\ Closed(Out)
  OBVIOUS
<1>2. ASSUME NEW m \in Nodes, m # Root, ParentIn(k, m) # NoNode => ParentIn(k, m) \in Out
      PROVE  m \in Out
  <2> DEFINE W == Out \cup {m}
  <2>1. W \in SUBSET Nodes /\ Closed(W)
    <3> HIDE DEF Out
    <3> QED
      BY <1>1, <1>2
  <2> HIDE DEF W, Closed
  <2>2. W \subseteq Out
    BY <2>1
  <2> QED
    BY <2>2 DEF W
<1> HIDE DEF Out
<1>3. ASSUME NEW m \in Nodes
      PROVE  m \notin Out <=> m = Root \/ (ParentIn(k, m) # NoNode /\ ParentIn(k, m) \notin Out)
  BY <1>1, <1>2
<1>4. Fits(v0)
  <2>1. ASSUME NEW m \in Nodes PROVE v0[m] = step(v0)[m]
    BY <1>0, <1>3, Zenon
  <2> QED
    BY <2>1, Zenon
<1> DEFINE in == CHOOSE v : Fits(v)
<1>5. Fits(in)
  <2> HIDE DEF Fits
  <2> QED
    BY <1>4
<1>6. InTreeIn(k) = {m \in Nodes : in[m]}
  BY Zenon DEF InTreeIn
<1> HIDE DEF in
<1>7. in[n] = (n = Root \/ (ParentIn(k, n) # NoNode /\ in[ParentIn(k, n)]))
  BY <1>5, Zenon
<1> QED
  BY <1>0, <1>6, <1>7, Zenon

LEMMA HousedInTreeIn ==
  ASSUME NEW k, k \in [Nodes -> Seq(Nodes)], OnePlace(k), NEW n \in Nodes, Housed(k, n)
  PROVE  n \in InTreeIn(k)
<1>1. PICK f \in [Nat -> Nodes], l \in Nat : Trail(k, f, l, n)
  BY DEF Housed
<1> DEFINE U == {i \in Nat : i <= l => f[i] \in InTreeIn(k)}
<1>2. 0 \in U
  BY <1>1, InTreeInUnfolds DEF Trail
<1>3. ASSUME NEW i \in U PROVE i + 1 \in U
  <2> SUFFICES ASSUME i + 1 <= l PROVE f[i + 1] \in InTreeIn(k)
    OBVIOUS
  <2>1. i \in 0..(l - 1) /\ f[i] \in InTreeIn(k) /\ f[i + 1] \in Nodes
    OBVIOUS
  <2>2. f[i] \in Groups /\ Has(k, f[i], f[i + 1])
    BY <1>1, <2>1 DEF Trail
  <2>3. ParentIn(k, f[i + 1]) = f[i] /\ ParentIn(k, f[i + 1]) # NoNode
    BY <2>2, ParentInIs
  <2> HIDE DEF U
  <2> QED
    BY <2>1, <2>3, InTreeInUnfolds
<1>4. U \in SUBSET Nat
  OBVIOUS
<1> HIDE DEF U
<1>5. U = Nat
  BY <1>2, <1>3, <1>4, Induct
<1>6. l \in U
  BY <1>5
<1>7. f[l] \in InTreeIn(k)
  BY <1>6 DEF U
<1> QED
  BY <1>1, <1>7 DEF Trail

LEMMA HousedInTree ==
  ASSUME kids \in [Nodes -> Seq(Nodes)], OnePlace(kids), NEW n \in Nodes, Housed(kids, n)
  PROVE  n \in InTree
<1>1. InTree = InTreeIn(kids)
  BY Zenon DEF InTree, InTreeIn, ParentOf, ParentIn
<1> QED
  BY <1>1, HousedInTreeIn

-----------------------------------------------------------------------------
(* What is valid.                                                           *)
LEMMA FilesValid ==
  ASSUME kids \in [Nodes -> Seq(Nodes)], NEW n \in Files
  PROVE  n \in Nodes /\ n \in Valid
BY ValidUnfolds DEF Nodes

(* Each group of the tree has something in it.                              *)
Full(k) ==
  \A p \in Groups : p = Root \/ (\E q \in Groups : Has(k, q, p)) => k[p] # <<>>

LEMMA AllValid ==
  ASSUME kids \in [Nodes -> Seq(Nodes)], Levels, Full(kids),
         NEW n \in Nodes, n = Root \/ \E q \in Groups : Has(kids, q, n)
  PROVE  n \in Valid
<1>1. PICK d \in [Nodes -> Nat] : Graded(kids, d)
  BY Zenon DEF Levels
<1> DEFINE At(m) == m = Root \/ \E q \in Groups : Has(kids, q, m)
           S == {g \in Groups : At(g) /\ g \notin Valid}
<1>2. ASSUME S # {} PROVE FALSE
  <2>1. PICK p \in S : \A q \in S : d[q] <= d[p]
    BY <1>2, Deepest
  <2>2. p \in Groups /\ p \in Nodes /\ kids[p] # <<>> /\ p \notin Valid
    BY DEF Full, Nodes
  <2> DEFINE c == Head(kids[p])
  <2>3. c \in Nodes /\ Has(kids, p, c)
    BY <2>2, ChildHas
  <2>4. d[c] = d[p] + 1 /\ d[p] \in Nat
    BY <1>1, <2>2, <2>3 DEF Graded, Has
  <2> HIDE DEF c
  <2>5. c \in Valid
    <3>1. CASE c \in Files
      BY <3>1, FilesValid
    <3>2. CASE c \notin Files
      <4>1. c \in Groups /\ At(c)
        BY <2>2, <2>3, <3>2 DEF Nodes
      <4>2. c \notin S
        BY <2>1, <2>4
      <4> QED
        BY <4>1, <4>2
    <3> QED
      BY <3>1, <3>2
  <2> QED
    BY <2>2, <2>3, <2>5, ValidUnfolds DEF Has
<1>3. CASE n \in Files
  BY <1>3, FilesValid
<1>4. CASE n \notin Files
  BY <1>2, <1>4 DEF Nodes
<1> QED
  BY <1>3, <1>4

(* Below a group in the tree without a file in it is an empty one.          *)
LEMMA EmptyBelow ==
  ASSUME kids \in [Nodes -> Seq(Nodes)], Levels, NEW n \in Nodes, Housed(kids, n), n # Root,
         n \notin Valid
  PROVE  \E p \in Groups \ {Root} : Housed(kids, p) /\ kids[p] = <<>>
<1>1. PICK d \in [Nodes -> Nat] : Graded(kids, d)
  BY Zenon DEF Levels
<1>2. Topped(kids)
  BY LevelsTop
<1> DEFINE S == {p \in Groups : Housed(kids, p) /\ p # Root /\ p \notin Valid}
<1>3. ASSUME NEW m \in Nodes, Housed(kids, m), m # Root, m \notin Valid PROVE m \in S
  BY <1>3, FilesValid DEF Nodes
<1>4. n \in S /\ S # {}
  BY <1>3
<1>5. PICK p \in S : \A q \in S : d[q] <= d[p]
  BY <1>4, Deepest
<1>6. p \in Groups /\ p \in Nodes /\ Housed(kids, p) /\ p # Root /\ p \notin Valid
  BY DEF Nodes
<1>7. ASSUME kids[p] # <<>> PROVE FALSE
  <2> DEFINE c == Head(kids[p])
  <2>1. c \in Nodes /\ Has(kids, p, c)
    BY <1>6, <1>7, ChildHas
  <2>2. d[c] = d[p] + 1 /\ d[p] \in Nat
    BY <1>1, <1>6, <2>1 DEF Graded, Has
  <2> HIDE DEF c
  <2>3. Housed(kids, c)
    <3>1. PICK f \in [Nat -> Nodes], l \in Nat : Trail(kids, f, l, p)
      BY <1>6 DEF Housed
    <3>2. /\ [f EXCEPT ![l + 1] = c] \in [Nat -> Nodes]
          /\ Trail(kids, [f EXCEPT ![l + 1] = c], l + 1, c)
      BY <1>6, <2>1, <3>1, ChildTrail
    <3>3. l + 1 \in Nat
      OBVIOUS
    <3> QED
      BY <3>2, <3>3 DEF Housed
  <2>4. c # Root /\ c \notin Valid
    BY <1>2, <1>6, <2>1, ValidUnfolds DEF Topped, Has
  <2>5. c \in S
    BY <1>3, <2>1, <2>3, <2>4
  <2> QED
    BY <1>5, <2>2, <2>5
<1> QED
  BY <1>6, <1>7

-----------------------------------------------------------------------------
(* The inductive invariant.                                                 *)

(* A file without a place: it was freed with the playlist that it was.      *)
Freed(k, n) == n \in Files /\ \A p \in Groups : ~ Has(k, p, n)

Here(k, n) == n = NoNode \/ Housed(k, n) \/ Freed(k, n)

Places == OnePlace(kids) /\ Here(kids, iter.node) /\ Here(kids, saved.node)

(* A group was taken for an entry: there is an empty one.                   *)
Emptiness(k) == \E p \in Groups \ {Root} : Housed(k, p) /\ k[p] = <<>>

Crashed == ret = "crash" => Emptiness(kids)

(* The search for the first entry of a new tree.                            *)
Searching == pc \in {"step", "down"} /\ dir = 0 /\ ~withNodes /\ played = {} /\ Full(kids)

Starts ==
  /\ job = "boot" => ret = "none" /\ played = {}
  /\ job = "start" => IF pc = "rest" THEN ret = "entry" ELSE Searching

NInv == IInv /\ Places /\ Crashed /\ Starts

-----------------------------------------------------------------------------
(* The iterator stays in the tree, or on the freed file, as it moves.       *)
LEMMA KidsTyped ==
  ASSUME IInv
  PROVE  kids \in [Nodes -> Seq(Nodes)] /\ Levels /\ Topped(kids)
BY LevelsTop DEF IInv, TypeOK

LEMMA SiblingHere ==
  ASSUME NInv, NEW n \in Nodes, Here(kids, n), NEW m \in ToSet(Siblings(n))
  PROVE  m \in Nodes /\ Here(kids, m)
<1>1. kids \in [Nodes -> Seq(Nodes)] /\ Topped(kids) /\ OnePlace(kids)
  BY KidsTyped DEF NInv, Places
<1>2. m \in Nodes /\ (m = n \/ \E p \in Groups : Has(kids, p, n) /\ Has(kids, p, m))
  BY <1>1, SiblingHas
<1>3. CASE m = n
  BY <1>2, <1>3
<1>4. CASE m # n
  <2>1. PICK p \in Groups : Has(kids, p, n) /\ Has(kids, p, m)
    BY <1>2, <1>4
  <2>2. Housed(kids, n)
    BY <2>1, NodesAssumption DEF Here, Freed
  <2>3. PICK f \in [Nat -> Nodes], l \in Nat : Trail(kids, f, l, n)
    BY <2>2 DEF Housed
  <2>4. /\ [f EXCEPT ![l] = m] \in [Nat -> Nodes]
        /\ Trail(kids, [f EXCEPT ![l] = m], l, m)
    BY <1>1, <1>2, <2>1, <2>3, SiblingTrail
  <2>5. Housed(kids, m)
    BY <2>4 DEF Housed
  <2> QED
    BY <1>2, <2>5 DEF Here
<1> QED
  BY <1>3, <1>4

LEMMA ParentHere ==
  ASSUME NInv, NEW n \in Nodes, Here(kids, n), ParentOf(n) # NoNode
  PROVE  Here(kids, ParentOf(n))
<1>1. kids \in [Nodes -> Seq(Nodes)] /\ Topped(kids) /\ OnePlace(kids)
  BY KidsTyped DEF NInv, Places
<1>2. ParentOf(n) \in Groups /\ Has(kids, ParentOf(n), n)
  BY <1>1, ParentHasIt DEF Has
<1>3. Housed(kids, n)
  BY <1>2, NodesAssumption DEF Here, Freed, Nodes
<1>4. PICK f \in [Nat -> Nodes], l \in Nat : Trail(kids, f, l, n)
  BY <1>3 DEF Housed
<1>5. l - 1 \in Nat /\ Trail(kids, f, l - 1, ParentOf(n))
  BY <1>1, <1>2, <1>4, ParentTrail
<1>6. Housed(kids, ParentOf(n))
  BY <1>5, Zenon DEF Housed
<1> QED
  BY <1>6 DEF Here

LEMMA ChildHere ==
  ASSUME NInv, NEW p \in Groups, Here(kids, p), NEW n \in Nodes, Has(kids, p, n)
  PROVE  Housed(kids, p) /\ Housed(kids, n) /\ n # Root
<1>1. Housed(kids, p)
  BY NodesAssumption DEF Here, Freed, Nodes
<1>2. PICK f \in [Nat -> Nodes], l \in Nat : Trail(kids, f, l, p)
  BY <1>1 DEF Housed
<1>3. /\ [f EXCEPT ![l + 1] = n] \in [Nat -> Nodes]
      /\ Trail(kids, [f EXCEPT ![l + 1] = n], l + 1, n)
  BY <1>2, ChildTrail
<1>4. l + 1 \in Nat
  OBVIOUS
<1>5. n # Root
  BY KidsTyped DEF NInv, Topped
<1> QED
  BY <1>1, <1>3, <1>4, <1>5 DEF Housed

(* On a full tree, all that the iterator can be on is valid.                *)
LEMMA HereValid ==
  ASSUME NInv, Full(kids), NEW n \in Nodes, Here(kids, n)
  PROVE  n \in Valid /\ (n \in Groups => n \in Enterable)
<1>1. kids \in [Nodes -> Seq(Nodes)] /\ Levels /\ Topped(kids)
  BY KidsTyped DEF NInv
<1>2. ASSUME n \notin Files PROVE n = Root \/ \E q \in Groups : Has(kids, q, n)
  <2>1. Housed(kids, n)
    BY <1>2, NodesAssumption DEF Here, Freed, Nodes
  <2>2. PICK f \in [Nat -> Nodes], l \in Nat : Trail(kids, f, l, n)
    BY <2>1 DEF Housed
  <2>3. CASE l = 0
    BY <2>2, <2>3 DEF Trail
  <2>4. CASE l # 0
    <3>1. l - 1 \in 0..(l - 1) /\ (l - 1) + 1 = l
      BY <2>4
    <3> QED
      BY <2>2, <3>1 DEF Trail
  <2> QED
    BY <2>3, <2>4
<1>3. n \in Valid
  BY <1>1, <1>2, FilesValid, AllValid
<1>4. ASSUME n \in Groups PROVE n \in Enterable
  <2>1. n \notin Files
    BY <1>4, NodesAssumption
  <2>2. kids[n] # <<>>
    BY <1>2, <1>4, <2>1 DEF Full
  <2>3. Head(kids[n]) \in Nodes /\ Has(kids, n, Head(kids[n]))
    BY <1>1, <1>4, <2>2, ChildHas
  <2>4. Head(kids[n]) \in Valid
    BY <1>1, <1>4, <2>3, AllValid
  <2> QED
    BY <1>4, <2>2, <2>4 DEF Enterable
<1> QED
  BY <1>3, <1>4

-----------------------------------------------------------------------------
(* Each step of a call keeps the invariant.                                 *)
LEMMA MoveKeepsNodes ==
  ASSUME NInv, IInv', pc # "rest", kids' = kids, saved' = saved, job' = job,
         Here(kids, iter'.node), ret' = "crash" => Emptiness(kids),
         job = "start" => IF pc' = "rest" THEN ret' = "entry" ELSE Searching'
  PROVE  NInv'
<1>1. job # "boot"
  BY DEF NInv, IInv, Calls
<1> QED
  BY <1>1, Zenon DEF NInv, Places, Crashed, Starts

(* What a step of the iterator starts from.                                 *)
LEMMA StepFrom ==
  ASSUME NInv, Stepping, iter.node # NoNode
  PROVE  /\ pc = "step" /\ ret = "none" /\ kids' = kids /\ saved' = saved /\ job' = job
         /\ kids \in [Nodes -> Seq(Nodes)] /\ iter.node \in Nodes /\ dir \in Int
         /\ Here(kids, iter.node)
         /\ iter.node \in ToSet(Siblings(iter.node))
         /\ job = "start" => Searching
<1>1. pc = "step" /\ kids' = kids /\ saved' = saved /\ job' = job
  BY DEF Stepping, hold
<1>2. ret = "none" /\ dir \in Int
  BY <1>1 DEF NInv, IInv, TypeOK, Calls
<1>3. /\ kids \in [Nodes -> Seq(Nodes)] /\ iter.node \in Nodes
      /\ iter.node \in ToSet(Siblings(iter.node))
  BY InPlace DEF NInv
<1>4. job = "start" => Searching
  BY <1>1 DEF NInv, Starts
<1> QED
  BY <1>1, <1>2, <1>3, <1>4 DEF NInv, Places

(* Where it may go is in the tree too, and while the first entry is looked  *)
(* for it is valid and nothing is left to pass.                             *)
LEMMA TargetHere ==
  ASSUME NInv, Stepping, iter.node # NoNode, NEW t \in Targets
  PROVE  /\ t.to # NoNode => t.to \in Nodes /\ Here(kids, t.to)
         /\ job = "start" => /\ t.left = 0 /\ t.to \in Valid
                             /\ t.to \in Groups => t.to \in Enterable
<1>1. /\ kids \in [Nodes -> Seq(Nodes)] /\ iter.node \in Nodes /\ dir \in Int
      /\ Here(kids, iter.node) /\ iter.node \in ToSet(Siblings(iter.node))
      /\ job = "start" => Searching
  BY StepFrom
<1>2. t.to = NoNode \/ t.to \in ToSet(Siblings(iter.node))
  BY <1>1, TargetsNear
<1>3. t.to # NoNode => t.to \in Nodes /\ Here(kids, t.to)
  BY <1>1, <1>2, SiblingHere
<1>4. ASSUME job = "start" PROVE t.left = 0 /\ t.to # NoNode
  <2>1. dir = 0 /\ played = {}
    BY <1>1, <1>4 DEF Searching
  <2>2. CASE Left.random
    <3>1. Unplayed # {} /\ Unplayed \subseteq Nodes
      <4>1. Siblings(iter.node) \in Seq(Nodes)
        BY <1>1, SiblingsTyped
      <4>2. ToSet(Siblings(iter.node)) \subseteq Nodes
        BY <4>1 DEF ToSet
      <4>3. Unplayed = ToSet(Siblings(iter.node))
        BY <2>1 DEF Unplayed
      <4> QED
        BY <1>1, <4>2, <4>3
    <3>2. PICK n \in Unplayed : t = [to |-> n, left |-> dir]
      BY <2>2, <3>1 DEF Targets
    <3> QED
      BY <2>1, <3>1, <3>2, NodesAssumption
  <2>3. CASE ~Left.random
    <3>1. t = Walk(Siblings(iter.node), Place(iter.node), 0)
      BY <2>1, <2>3 DEF Targets
    <3>2. t = [to |-> iter.node, left |-> 0]
      BY <1>1, <3>1, SiblingsTyped, WalkTyped
    <3> QED
      BY <1>1, <3>2, NodesAssumption
  <2> QED
    BY <2>2, <2>3
<1>5. ASSUME job = "start" PROVE t.to \in Valid /\ (t.to \in Groups => t.to \in Enterable)
  <2>1. Full(kids)
    BY <1>1, <1>5 DEF Searching
  <2> QED
    BY <1>3, <1>4, <1>5, <2>1, HereValid
<1> QED
  BY <1>3, <1>4, <1>5

LEMMA FirstStepKeepsNodes ==
  ASSUME NInv, IInv', FirstStep
  PROVE  NInv'
<1>1. /\ pc = "step" /\ kids' = kids /\ saved' = saved /\ job' = job
      /\ iter' = [iter EXCEPT !.node = Root] /\ pc' = "step" /\ dir' = 0
      /\ withNodes' = withNodes /\ ret' = ret /\ played' = played
  BY DEF FirstStep, Stepping, Goto, hold
<1>2. ret = "none" /\ (job = "start" => Searching)
  BY <1>1 DEF NInv, IInv, Calls, Starts
<1>3. iter'.node = Root
  <2>1. iter \in Iterators /\ Root \in Nodes /\ NodeIs(iter', iter, Root)
    BY <1>1, Known, NodesAssumption DEF NInv, Nodes, NodeIs
  <2> QED
    BY <2>1, NodeTyped
<1>4. Here(kids, iter'.node)
  BY <1>3, RootTrail DEF Here
<1>5. job = "start" => Searching'
  BY <1>1, <1>2, Zenon DEF Searching
<1> QED
  BY <1>1, <1>2, <1>4, <1>5, MoveKeepsNodes

LEMMA PassEndsKeepsNodes ==
  ASSUME NInv, IInv', PassEnds
  PROVE  NInv'
<1>1. /\ Stepping /\ iter.node # NoNode /\ Left.random /\ Unplayed = {} /\ iter' = Left
      /\ ret' \in {"end", ret}
  BY DEF PassEnds, Return, Goto
<1>2. /\ pc = "step" /\ ret = "none" /\ kids' = kids /\ saved' = saved /\ job' = job
      /\ Here(kids, iter.node) /\ iter.node \in ToSet(Siblings(iter.node))
      /\ job = "start" => Searching
  BY <1>1, StepFrom
<1>3. iter'.node = iter.node
  BY <1>1, <1>2, LeftTyped DEF NInv
<1>4. job # "start"
  BY <1>1, <1>2 DEF Searching, Unplayed
<1> QED
  BY <1>1, <1>2, <1>3, <1>4, MoveKeepsNodes

LEMMA ListEndsKeepsNodes ==
  ASSUME NInv, IInv', ListEnds
  PROVE  NInv'
<1>1. PICK t \in Targets :
        /\ t.to = NoNode
        /\ IF Again(t.left)
           THEN iter' = Rewind(t.left) /\ Goto("step", 0)
           ELSE iter' = Left /\ Goto("up", t.left)
  BY Zenon DEF ListEnds
<1>2. Stepping /\ iter.node # NoNode
  BY DEF ListEnds
<1>3. /\ pc = "step" /\ ret = "none" /\ kids' = kids /\ saved' = saved /\ job' = job
      /\ iter.node \in Nodes /\ Here(kids, iter.node)
      /\ kids \in [Nodes -> Seq(Nodes)] /\ dir \in Int
  BY <1>2, StepFrom
<1>4. ret' = ret
  BY <1>1 DEF Goto
<1>5. Here(kids, iter'.node)
  <2>1. CASE Again(t.left)
    <3>1. t.left \in Int
      BY <1>3, TargetsNear
    <3>2. PICK d \in Int : iter' = Rewind(d)
      BY <1>1, <2>1, <3>1
    <3>3. iter'.node \in ToSet(Siblings(iter.node))
      BY <1>2, <1>3, <3>2, RewindTyped DEF NInv
    <3> QED
      BY <1>3, <3>3, SiblingHere
  <2>2. CASE ~Again(t.left)
    <3>1. iter'.node = iter.node
      BY <1>1, <1>3, <2>2, LeftTyped DEF NInv
    <3> QED
      BY <1>3, <3>1
  <2> QED
    BY <2>1, <2>2
<1>6. NoNode \notin Valid
  BY NodesAssumption DEF Valid
<1>7. job # "start"
  BY <1>1, <1>2, <1>6, TargetHere
<1> QED
  BY <1>3, <1>4, <1>5, <1>7, MoveKeepsNodes

LEMMA GroupKeepsNodes ==
  ASSUME NInv, IInv', Group
  PROVE  NInv'
<1>1. PICK t \in Targets :
        /\ t.to \in Enterable
        /\ iter' = [Left EXCEPT !.node = t.to]
        /\ IF withNodes THEN Return("node") ELSE Goto("down", t.left)
  BY Zenon DEF Group
<1>2. Stepping /\ iter.node # NoNode /\ played' = played
  BY DEF Group
<1>3. /\ pc = "step" /\ ret = "none" /\ kids' = kids /\ saved' = saved /\ job' = job
      /\ job = "start" => Searching
  BY <1>2, StepFrom
<1>4. t.to \in Groups /\ t.to # NoNode
  BY <1>1, NodesAssumption, Zenon DEF Enterable, Nodes
<1>5. /\ t.to \in Nodes /\ Here(kids, t.to)
      /\ job = "start" => t.left = 0
  BY <1>2, <1>4, TargetHere
<1>6. iter'.node = t.to
  <2>1. Left \in Iterators /\ NodeIs(iter', Left, t.to)
    BY <1>1, <1>3, LeftTyped, Zenon DEF NInv, NodeIs
  <2>2. PICK n \in Nodes : n = t.to /\ NodeIs(iter', Left, n)
    BY <1>5, <2>1
  <2> QED
    BY <2>1, <2>2, NodeTyped
<1>7. ret' # "crash"
  BY <1>1, <1>3 DEF Return, Goto
<1>8. ASSUME job = "start" PROVE pc' # "rest" /\ Searching'
  <2>1. ~withNodes /\ t.left = 0 /\ played = {} /\ Full(kids)
    BY <1>3, <1>5, <1>8 DEF Searching
  <2>2. pc' = "down" /\ dir' = 0 /\ withNodes' = withNodes
    BY <1>1, <2>1 DEF Goto
  <2> QED
    BY <1>2, <1>3, <2>1, <2>2 DEF Searching
<1> QED
  BY <1>3, <1>5, <1>6, <1>7, <1>8, MoveKeepsNodes

LEMMA InvalidKeepsNodes ==
  ASSUME NInv, IInv', Invalid
  PROVE  NInv'
<1>1. PICK t \in Targets :
        /\ t.to \in Nodes \ Valid
        /\ iter' = Left
        /\ IF t.left = 0 THEN Return("error") ELSE Goto("step", t.left)
  BY Zenon DEF Invalid
<1>2. Stepping /\ iter.node # NoNode
  BY DEF Invalid
<1>3. /\ pc = "step" /\ ret = "none" /\ kids' = kids /\ saved' = saved /\ job' = job
      /\ Here(kids, iter.node)
  BY <1>2, StepFrom
<1>4. iter'.node = iter.node
  BY <1>1, <1>3, LeftTyped DEF NInv
<1>5. ret' # "crash"
  BY <1>1, <1>3 DEF Return, Goto
<1>6. job # "start"
  BY <1>1, <1>2, TargetHere
<1> QED
  BY <1>3, <1>4, <1>5, <1>6, MoveKeepsNodes

(* A group that is taken for an entry has an empty one below it.            *)
LEMMA EntryKeepsNodes ==
  ASSUME NInv, IInv', Entry
  PROVE  NInv'
<1>1. PICK t \in Targets :
        /\ t.to \in Valid \ Enterable
        /\ iter' = [Left EXCEPT !.node = t.to, !.pushed = @ \/ WithConfig]
        /\ Return(IF t.to \in Files THEN "entry" ELSE "crash")
  BY Zenon DEF Entry
<1>2. Stepping /\ iter.node # NoNode
  BY DEF Entry
<1>3. /\ pc = "step" /\ ret = "none" /\ kids' = kids /\ saved' = saved /\ job' = job
      /\ kids \in [Nodes -> Seq(Nodes)]
  BY <1>2, StepFrom
<1>4. t.to \in Nodes /\ t.to # NoNode
  BY <1>1, NodesAssumption DEF Valid
<1>5. /\ Here(kids, t.to)
      /\ job = "start" => (t.to \in Groups => t.to \in Enterable)
  BY <1>2, <1>4, TargetHere
<1>6. iter'.node = t.to
  <2>1. Left \in Iterators /\ EnteredIs(iter', Left, t.to)
    BY <1>1, <1>3, LeftTyped, Zenon DEF NInv, EnteredIs
  <2>2. PICK n \in Nodes : n = t.to /\ EnteredIs(iter', Left, n)
    BY <1>4, <2>1
  <2> QED
    BY <2>1, <2>2, EnteredTyped
<1>7. pc' = "rest" /\ ret' = IF t.to \in Files THEN "entry" ELSE "crash"
  BY <1>1, Zenon DEF Return
<1>8. ASSUME t.to \notin Files PROVE Emptiness(kids)
  <2>1. PICK g \in Groups : g = t.to
    BY <1>4, <1>8 DEF Nodes
  <2>2. g \in Nodes /\ g \in Valid /\ g \notin Enterable /\ g \notin Files /\ Here(kids, g)
    BY <1>1, <1>4, <1>5, <1>8, <2>1
  <2>3. kids[g] # <<>>
    BY <1>3, <2>2, ValidUnfolds
  <2> DEFINE c == Head(kids[g])
  <2>4. c \in Nodes /\ Has(kids, g, c)
    BY <1>3, <2>3, ChildHas
  <2>5. c \notin Valid
    BY <2>2, <2>3 DEF Enterable
  <2> HIDE DEF c
  <2>6. Housed(kids, c) /\ c # Root
    BY <2>2, <2>4, ChildHere
  <2> QED
    BY <1>3, <2>4, <2>5, <2>6, KidsTyped, EmptyBelow DEF NInv, Emptiness
<1>9. job = "start" => t.to \in Files
  BY <1>1, <1>4, <1>5 DEF Nodes
<1> QED
  BY <1>3, <1>5, <1>6, <1>7, <1>8, <1>9, MoveKeepsNodes

LEMMA UpKeepsNodes ==
  ASSUME NInv, IInv', Up
  PROVE  NInv'
<1>1. /\ pc = "up" /\ kids' = kids /\ saved' = saved /\ job' = job
  BY DEF Up, hold
<1>2. ret = "none" /\ job # "start" /\ Here(kids, iter.node) /\ iter \in Iterators
      /\ kids \in [Nodes -> Seq(Nodes)]
  BY <1>1, Known, KidsTyped DEF NInv, IInv, Calls, Starts, Searching, Places
<1>3. ret' # "crash"
  BY <1>2 DEF Up, Return, Goto
<1>4. CASE ParentOf(iter.node) = NoNode
  <2>1. FileIs(iter', iter, -1)
    BY <1>4 DEF Up, FileIs
  <2>2. iter'.node = iter.node
    BY <1>2, <2>1, FileTyped
  <2> QED
    BY <1>1, <1>2, <1>3, <2>2, MoveKeepsNodes
<1>5. CASE ParentOf(iter.node) # NoNode
  <2>1. iter'.node = ParentOf(iter.node) /\ iter.node \in Nodes
    BY <1>5, UpMoves DEF NInv
  <2>2. Here(kids, iter'.node)
    BY <1>2, <1>5, <2>1, ParentHere
  <2> QED
    BY <1>1, <1>2, <1>3, <2>2, MoveKeepsNodes
<1> QED
  BY <1>4, <1>5

LEMMA DownKeepsNodes ==
  ASSUME NInv, IInv', Down
  PROVE  NInv'
<1>1. /\ pc = "down" /\ kids' = kids /\ saved' = saved /\ job' = job
      /\ pc' = "step" /\ dir' = 0 /\ withNodes' = withNodes /\ ret' = ret /\ played' = played
  BY DEF Down, hold, Goto, tree
<1>2. ret = "none" /\ Here(kids, iter.node) /\ kids \in [Nodes -> Seq(Nodes)]
      /\ (job = "start" => Searching)
  BY <1>1, KidsTyped DEF NInv, IInv, Calls, Starts, Places
<1>3. /\ iter.node \in Groups /\ kids[iter.node] # <<>>
      /\ iter'.node \in {Head(kids[iter.node]), Last(kids[iter.node])}
  BY DownMoves DEF NInv
<1>4. PICK p \in Groups : p = iter.node
  BY <1>3
<1>5. iter'.node \in Nodes /\ Has(kids, p, iter'.node)
  BY <1>2, <1>3, <1>4, ChildHas
<1>6. PICK n \in Nodes : n = iter'.node
  BY <1>5
<1>7. Housed(kids, n)
  BY <1>2, <1>4, <1>5, <1>6, ChildHere
<1>8. Here(kids, iter'.node)
  BY <1>6, <1>7 DEF Here
<1>9. job = "start" => Searching'
  BY <1>1, <1>2, Zenon DEF Searching
<1> QED
  BY <1>1, <1>2, <1>8, <1>9, MoveKeepsNodes

LEMMA IterateKeepsNodes ==
  ASSUME NInv, IInv', Iterate
  PROVE  NInv'
BY FirstStepKeepsNodes, PassEndsKeepsNodes, ListEndsKeepsNodes, GroupKeepsNodes,
   InvalidKeepsNodes, EntryKeepsNodes, UpKeepsNodes, DownKeepsNodes, Zenon DEF Iterate

-----------------------------------------------------------------------------
(* The steps of the main loop that leave the tree as it is.                 *)
LEMMA RestKeepsNodes ==
  ASSUME NInv, IInv', kids' = kids, ret' \in {ret, "none"}, job' \notin {"boot", "start"},
         iter'.node \in {iter.node, saved.node, NoNode},
         saved'.node \in {iter.node, saved.node, NoNode}
  PROVE  NInv'
<1>1. Here(kids, iter'.node) /\ Here(kids, saved'.node) /\ OnePlace(kids)
  BY DEF NInv, Places, Here
<1>2. Places'
  BY <1>1, Zenon DEF Places
<1>3. Crashed'
  BY DEF NInv, Crashed
<1>4. Starts'
  BY DEF Starts
<1> QED
  BY <1>2, <1>3, <1>4 DEF NInv

LEMMA PlayNode ==
  ASSUME NInv, NEW d \in Int, Play(d)
  PROVE  iter'.node = iter.node /\ job' \notin {"boot", "start"}
<1>1. iter \in Iterators /\ iter' = [iter EXCEPT !.file = NextFile(d)]
  BY Known DEF NInv, Play
<1>2. iter'.node = iter.node
  BY <1>1, Fields
<1> QED
  BY <1>2 DEF Play

LEMMA FreeNode ==
  ASSUME Free
  PROVE  iter'.node = NoNode /\ job' = "none"
BY NoIterTyped DEF Free

(* They make a call, take up what a call returned, or end the search.       *)
Restful ==
  \/ Started \/ NextDone \/ FindFile \/ FileStepDone \/ Peeked \/ NotYetAtTop \/ Stopped
  \/ HeadFound \/ EndOfFile \/ Stop \/ LoadReplace
  \/ \E force \in BOOLEAN : \/ \E n \in {-2, -1, 1, 2} : PlayTreeStep(n, force)
                            \/ \E n \in {-1, 1} : UpStep(n, force) \/ AltSource(n, force)
  \/ \E v \in Values : SetOption(v)

LEMMA RestfulKeepsNodes ==
  ASSUME NInv, IInv', Restful
  PROVE  NInv'
<1> DEFINE Goal == /\ kids' = kids /\ ret' \in {ret, "none"} /\ job' \notin {"boot", "start"}
                   /\ iter'.node \in {iter.node, saved.node, NoNode}
                   /\ saved'.node \in {iter.node, saved.node, NoNode}
<1>0. eof \in Int /\ 1 \in Int
  BY Known DEF NInv
<1>1. CASE Started
  <2>1. UNCHANGED <<tree, conf, eof, hold, cmds>> /\ UNCHANGED call
    BY <1>1 DEF Started, NoCall
  <2>2. iter'.node \in {iter.node, NoNode} /\ job' \notin {"boot", "start"}
    BY <1>0, <1>1, PlayNode, FreeNode DEF Started
  <2> QED
    BY <2>1, <2>2, RestKeepsNodes DEF tree, call, hold
<1>2. CASE NextDone
  <2>1. UNCHANGED <<tree, conf, hold, cmds>> /\ UNCHANGED call
    BY <1>2 DEF NextDone, NoCall
  <2>2. iter'.node \in {iter.node, NoNode} /\ job' \notin {"boot", "start"}
    BY <1>2, FreeNode DEF NextDone, NextSource
  <2> QED
    BY <2>1, <2>2, RestKeepsNodes DEF tree, call, hold
<1>3. CASE FindFile
  <2>1. UNCHANGED <<tree, hold>> /\ ret' \in {ret, "none"}
    BY <1>3 DEF FindFile, NoCall, Call, call
  <2>2. iter'.node = iter.node /\ job' \notin {"boot", "start"}
    BY <1>0, <1>3, PlayNode DEF FindFile, Call
  <2> QED
    BY <2>1, <2>2, RestKeepsNodes DEF tree, hold
<1>4. CASE FileStepDone
  <2>1. UNCHANGED <<tree, conf, hold, cmds>> /\ UNCHANGED call
    BY <1>4 DEF FileStepDone, NoCall
  <2>2. iter'.node \in {iter.node, NoNode} /\ job' \notin {"boot", "start"}
    BY <1>4, FreeNode DEF FileStepDone
  <2> QED
    BY <2>1, <2>2, RestKeepsNodes DEF tree, call, hold
<1>5. CASE Peeked
  <2>1. /\ kids' = kids /\ ret' \in {ret, "none"} /\ iter' = saved /\ saved' = NoIter
        /\ job' \notin {"boot", "start"}
    BY <1>5 DEF Peeked, tree, NoCall, Call, call
  <2> QED
    BY <2>1, NoIterTyped, RestKeepsNodes
<1>6. CASE NotYetAtTop
  <2>1. kids' = kids /\ ret' = "none" /\ iter' = iter /\ saved' = saved /\ job' = job
        /\ job \in {"stop", "replace"}
    BY <1>6 DEF NotYetAtTop, tree, hold, Call, Returned
  <2> QED
    BY <2>1, RestKeepsNodes
<1>7. CASE Stopped
  <2>1. UNCHANGED <<tree, hold>> /\ UNCHANGED call /\ Free
    BY <1>7 DEF Stopped, NoCall
  <2>2. iter'.node = NoNode /\ job' \notin {"boot", "start"}
    BY <2>1, FreeNode
  <2> QED
    BY <2>1, <2>2, RestKeepsNodes DEF tree, call, hold
<1>8. CASE HeadFound
  <2>1. UNCHANGED <<tree, iter, hold>> /\ UNCHANGED call /\ job' = "files"
    BY <1>8 DEF HeadFound, NoCall, NextSource
  <2> QED
    BY <2>1, RestKeepsNodes DEF tree, call, hold
<1>9. CASE EndOfFile
  <2>1. UNCHANGED <<tree, iter, hold>> /\ job' = "next" /\ ret' = "none"
    BY <1>9 DEF EndOfFile, NextEntry, Call
  <2> QED
    BY <2>1, RestKeepsNodes DEF tree, hold
<1>10. CASE Stop \/ LoadReplace
  <2>1. UNCHANGED <<tree, iter, hold>> /\ job' \in {"stop", "replace"} /\ ret' = "none"
    BY <1>10 DEF Stop, LoadReplace, GoToTop, Call
  <2> QED
    BY <2>1, RestKeepsNodes DEF tree, hold
<1>11. ASSUME NEW where, NEW n, NEW force, Move(where, n, force) PROVE NInv'
  <2>1. /\ UNCHANGED <<tree, iter>> /\ job' \in {"next", "peek"} /\ ret' = "none"
        /\ saved' \in {saved, iter}
    BY <1>11 DEF Move, Call, hold
  <2> QED
    BY <2>1, RestKeepsNodes DEF tree
<1>12. ASSUME NEW v, NEW opening, AltSource(v, opening) PROVE NInv'
  <2>1. UNCHANGED <<tree, iter, hold>> /\ UNCHANGED call /\ job' = "files"
    BY <1>12 DEF AltSource, NoCall, NextSource
  <2> QED
    BY <2>1, RestKeepsNodes DEF tree, call, hold
<1>13. ASSUME NEW v, SetOption(v) PROVE NInv'
  <2>1. UNCHANGED <<tree, iter, hold>> /\ UNCHANGED call /\ job' = "none"
    BY <1>13 DEF SetOption, Returned
  <2> QED
    BY <2>1, RestKeepsNodes DEF tree, call, hold
<1> QED
  BY <1>1, <1>2, <1>3, <1>4, <1>5, <1>6, <1>7, <1>8, <1>9, <1>10, <1>11, <1>12, <1>13, Zenon
  DEF Restful, PlayTreeStep, UpStep

LEMMA StutterKeepsNodes ==
  ASSUME NInv, IInv', UNCHANGED vars
  PROVE  NInv'
<1>1. /\ kids' = kids /\ iter' = iter /\ saved' = saved /\ pc' = pc /\ dir' = dir
      /\ withNodes' = withNodes /\ ret' = ret /\ job' = job /\ played' = played
  BY DEF vars, tree, call, hold
<1> QED
  BY <1>1, Zenon DEF NInv, Places, Crashed, Starts, Searching

-----------------------------------------------------------------------------
(* The steps that change the tree.                                          *)
LEMMA AddedTyped ==
  ASSUME NEW e \in Added, e # NoEntry
  PROVE  /\ e.top \in Nodes /\ e.top # Root /\ e.list \in Seq(Files)
         /\ e.top \in Files => e.list = <<>>
         /\ \A i, j \in DOMAIN e.list : e.list[i] = e.list[j] => i = j
<1>1. \A i, j \in DOMAIN e.list : e.list[i] = e.list[j] => i = j
  BY NodesAssumption
<1>2. CASE e \in Loads
  BY <1>1, <1>2, LoadTyped
<1>3. CASE e \notin Loads
  <2>1. PICK f \in DOMAIN Contents : e = Contents[f]
    BY <1>3 DEF Added
  <2>2. e \in [top : Groups \ {Root}, list : Seq(Files) \ {<<>>}]
    BY <2>1, NodesAssumption
  <2>3. e.top \in Groups \ {Root} /\ e.list \in Seq(Files)
    BY <2>2
  <2> QED
    BY <1>1, <2>3, NodesAssumption DEF Nodes
<1> QED
  BY <1>2, <1>3

LEMMA OnlyPlaces ==
  ASSUME NEW e \in Loads
  PROVE  OnePlace(OnlyEntry(e)) /\ Full(OnlyEntry(e))
<1> DEFINE k == OnlyEntry(e)
<1>1. /\ e.top \in Nodes /\ e.top # Root /\ e.list \in Seq(Files)
      /\ e.top \in Files <=> e.list = <<>>
      /\ \A i, j \in DOMAIN e.list : e.list[i] = e.list[j] => i = j
  BY LoadTyped, NodesAssumption DEF Added
<1>2. /\ k[Root] = <<e.top>> /\ k[e.top] = e.list
      /\ \A n \in Nodes \ {Root, e.top} : k[n] = <<>>
  BY OnlyTyped
<1>3. Groups \subseteq Nodes /\ Files \cap Groups = {} /\ Root \in Groups
  BY NodesAssumption DEF Nodes
<1> HIDE DEF k
<1>4. ASSUME NEW p \in Groups, NEW i \in DOMAIN k[p]
      PROVE  \/ p = Root /\ i = 1 /\ k[p][i] = e.top
             \/ p = e.top /\ i \in DOMAIN e.list /\ k[p][i] = e.list[i] /\ k[p][i] \in Files
  <2>1. CASE p = Root
    <3>1. k[p] = <<e.top>>
      BY <1>2, <2>1
    <3> QED
      BY <2>1, <3>1
  <2>2. CASE p = e.top
    BY <1>1, <1>2, <2>2
  <2>3. CASE p \notin {Root, e.top}
    <3>1. k[p] = <<>>
      BY <1>2, <1>3, <2>3
    <3> QED
      BY <3>1
  <2> QED
    BY <2>1, <2>2, <2>3
<1>5. OnePlace(k)
  <2> SUFFICES ASSUME NEW p \in Groups, NEW q \in Groups, NEW i \in DOMAIN k[p],
                      NEW j \in DOMAIN k[q], k[p][i] = k[q][j]
               PROVE  p = q /\ i = j
    BY DEF OnePlace
  <2> QED
    BY <1>1, <1>3, <1>4
<1>6. Full(k)
  <2> SUFFICES ASSUME NEW p \in Groups, p = Root \/ \E q \in Groups : Has(k, q, p)
               PROVE  k[p] # <<>>
    BY DEF Full
  <2>1. CASE p = Root
    <3>1. k[p] = <<e.top>>
      BY <1>2, <2>1
    <3> QED
      BY <3>1
  <2>2. CASE p # Root
    <3>1. p = e.top
      BY <1>3, <1>4, <2>2 DEF Has
    <3> QED
      BY <1>1, <1>2, <1>3, <3>1
  <2> QED
    BY <2>1, <2>2
<1> QED
  BY <1>5, <1>6 DEF k

LEMMA ReplacedKeepsNodes ==
  ASSUME NInv, IInv', NEW e \in Loads, Replaced(e)
  PROVE  NInv'
<1>1. /\ pc = "rest" /\ job = "replace" /\ kids' = OnlyEntry(e) /\ saved' = saved
      /\ iter' = [iter EXCEPT !.node = Root] /\ ret' = "none" /\ job' = "head"
  BY DEF Replaced, Returned, Replace, Call, hold
<1>2. saved.node = NoNode
  BY <1>1, NoIterTyped DEF NInv, IInv, Calls
<1>3. iter'.node = Root
  <2>1. iter \in Iterators /\ Root \in Nodes /\ NodeIs(iter', iter, Root)
    BY <1>1, Known, NodesAssumption DEF NInv, Nodes, NodeIs
  <2> QED
    BY <2>1, NodeTyped
<1>4. Places'
  BY <1>1, <1>2, <1>3, OnlyPlaces, RootTrail DEF Places, Here
<1> QED
  BY <1>1, <1>4 DEF NInv, Crashed, Starts

(* A new iterator on a tree that is full.                                   *)
LEMMA StartKeepsNodes ==
  ASSUME NInv, IInv', pc = "rest", job # "peek", Start, saved' = saved,
         OnePlace(kids'), Full(kids'), played' = {}
  PROVE  NInv'
<1>1. /\ iter' = NewIter /\ pc' = "step" /\ dir' = 0 /\ withNodes' = FALSE /\ ret' = "none"
      /\ job' = "start"
  BY DEF Start, Call
<1>2. saved.node = NoNode /\ iter'.node = NoNode
  BY <1>1, NoIterTyped DEF NInv, IInv, Calls
<1>3. Places'
  BY <1>2 DEF Places, Here
<1>4. Starts'
  BY <1>1 DEF Starts, Searching
<1> QED
  BY <1>1, <1>3, <1>4 DEF NInv, Crashed

LEMMA LoadIdleKeepsNodes ==
  ASSUME NInv, IInv', NEW e \in Loads, LoadIdle(e)
  PROVE  NInv'
<1>1. /\ pc = "rest" /\ job # "peek" /\ Start /\ saved' = saved
      /\ kids' = OnlyEntry(e) /\ played' = {}
  BY DEF LoadIdle, Idle, Returned, Replace, hold
<1> QED
  BY <1>1, OnlyPlaces, StartKeepsNodes

(* What is valid stays, and what stays has something in it.                 *)
LEMMA CleanedPlaces ==
  ASSUME kids \in [Nodes -> Seq(Nodes)], OnePlace(kids)
  PROVE  /\ OnePlace(Cleaned)
         /\ \A p \in Groups \cap Valid : Cleaned[p] # <<>>
         /\ \A p, q \in Groups : Has(Cleaned, q, p) => p \in Valid
<1> DEFINE k == Cleaned
<1>1. ASSUME NEW p \in Groups
      PROVE  /\ k[p] = Kept(kids[p], Valid) /\ kids[p] \in Seq(Nodes)
             /\ ToSet(k[p]) = ToSet(kids[p]) \cap Valid
             /\ \A i, j \in DOMAIN k[p] : k[p][i] = k[p][j] => i = j
  <2>1. k[p] = Kept(kids[p], Valid) /\ kids[p] \in Seq(Nodes)
    BY DEF Cleaned, Nodes
  <2>2. \A i, j \in DOMAIN kids[p] : kids[p][i] = kids[p][j] => i = j
    BY DEF OnePlace
  <2> HIDE DEF k
  <2> QED
    BY <2>1, <2>2, KeptSame
<1> HIDE DEF k
<1>2. OnePlace(k)
  <2> SUFFICES ASSUME NEW p \in Groups, NEW q \in Groups, NEW i \in DOMAIN k[p],
                      NEW j \in DOMAIN k[q], k[p][i] = k[q][j]
               PROVE  p = q /\ i = j
    BY DEF OnePlace
  <2>0. k[p][i] \in ToSet(k[p]) /\ k[p][i] \in ToSet(k[q])
    BY DEF ToSet
  <2>1. k[p][i] \in ToSet(kids[p]) /\ k[p][i] \in ToSet(kids[q])
    BY <1>1, <2>0
  <2>2. p = q
    BY <2>1 DEF ToSet, OnePlace
  <2> QED
    BY <1>1, <2>2
<1>3. ASSUME NEW p \in Groups \cap Valid PROVE k[p] # <<>>
  <2>1. p \in Nodes /\ p \notin Files /\ p \in Valid /\ p \in Groups
    BY NodesAssumption DEF Nodes
  <2>2. PICK i \in DOMAIN kids[p] : kids[p][i] \in Valid
    BY <2>1, ValidUnfolds
  <2>4. kids[p][i] \in ToSet(kids[p])
    BY <2>2 DEF ToSet
  <2>3. kids[p][i] \in ToSet(k[p])
    BY <1>1, <2>1, <2>2, <2>4
  <2> QED
    BY <2>3 DEF ToSet
<1>4. ASSUME NEW p \in Groups, NEW q \in Groups, Has(k, q, p) PROVE p \in Valid
  <2>1. p \in ToSet(k[q])
    BY <1>4 DEF Has, ToSet
  <2> QED
    BY <1>1, <2>1
<1> QED
  BY <1>2, <1>3, <1>4 DEF k

LEMMA BootKeepsNodes ==
  ASSUME NInv, IInv', Boot
  PROVE  NInv'
<1>1. /\ pc = "rest" /\ job = "boot" /\ kids' = Cleaned /\ played' = played /\ saved' = saved
      /\ IF Root \in Valid THEN Start
         ELSE job' = "none" /\ UNCHANGED <<iter, base, lost, call>>
  BY Zenon DEF Boot, Returned, hold
<1>2. ret = "none" /\ played = {} /\ iter.node = NoNode /\ saved.node = NoNode /\ OnePlace(kids)
  BY <1>1, NoIterTyped DEF NInv, IInv, Calls, Starts, Places
<1>3. /\ OnePlace(Cleaned)
      /\ \A p \in Groups \cap Valid : Cleaned[p] # <<>>
      /\ \A p, q \in Groups : Has(Cleaned, q, p) => p \in Valid
  BY <1>2, KidsTyped, CleanedPlaces DEF NInv
<1>4. CASE Root \in Valid
  <2>1. Full(Cleaned)
    BY <1>3, <1>4 DEF Full
  <2>2. OnePlace(kids') /\ Full(kids') /\ played' = {} /\ job # "peek" /\ Start
    BY <1>1, <1>2, <1>3, <1>4, <2>1
  <2> QED
    BY <1>1, <2>2, StartKeepsNodes
<1>5. CASE Root \notin Valid
  <2>1. job' = "none" /\ iter' = iter /\ ret' = ret
    BY <1>1, <1>5 DEF call
  <2>2. Places'
    BY <1>1, <1>2, <1>3, <2>1 DEF Places, Here
  <2> QED
    BY <1>2, <2>1, <2>2 DEF NInv, Crashed, Starts
<1> QED
  BY <1>4, <1>5

Once(list) == \A j, k \in DOMAIN list : list[j] = list[k] => j = k

Lacks(list, e) == \A j \in DOMAIN list : list[j] # e

(* A list with one more in it.                                              *)
LEMMA InsertedOnce ==
  ASSUME NEW A, NEW s \in Seq(A), NEW i \in 1..(Len(s) + 1), NEW e \in A,
         Lacks(s, e), Once(s)
  PROVE  /\ InsertAt(s, i, e) \in Seq(A)
         /\ ToSet(s) \subseteq ToSet(InsertAt(s, i, e))
         /\ Once(InsertAt(s, i, e))
         /\ Len(InsertAt(s, i, e)) = Len(s) + 1 /\ InsertAt(s, i, e)[i] = e
         /\ \A j \in 1..(i - 1) : InsertAt(s, i, e)[j] = s[j]
<1> DEFINE r == InsertAt(s, i, e)
           b == SubSeq(s, 1, i - 1)
           c == SubSeq(s, i, Len(s))
<1>0. /\ \A j \in DOMAIN s : s[j] # e
      /\ \A j, k \in DOMAIN s : s[j] = s[k] => j = k
  BY DEF Lacks, Once
<1>1. /\ b \in Seq(A) /\ Len(b) = i - 1 /\ \A j \in 1..(i - 1) : b[j] = s[j]
      /\ c \in Seq(A) /\ Len(c) = Len(s) + 1 - i
      /\ \A j \in 1..(Len(s) + 1 - i) : c[j] = s[i + j - 1]
  OBVIOUS
<1>2. r = b \o <<e>> \o c
  BY DEF InsertAt
<1> HIDE DEF b, c, r
<1> DEFINE a == b \o <<e>>
<1>8. /\ a \in Seq(A) /\ Len(a) = i
      /\ \A j \in 1..(i - 1) : a[j] = b[j]
      /\ a[i] = e
  <2>1. a = Append(b, e)
    BY <1>1, AppendIsConcat
  <2>2. /\ Append(b, e) \in Seq(A) /\ Len(Append(b, e)) = Len(b) + 1
        /\ \A j \in 1..Len(b) : Append(b, e)[j] = b[j]
        /\ Append(b, e)[Len(b) + 1] = e
    BY <1>1, AppendProperties
  <2>3. Len(b) = i - 1 /\ (i - 1) + 1 = i
    BY <1>1
  <2> HIDE DEF a
  <2> QED
    BY <2>1, <2>2, <2>3
<1>9. r = a \o c
  BY <1>2
<1> HIDE DEF a
<1>3. /\ r \in Seq(A) /\ Len(r) = Len(s) + 1
      /\ \A j \in 1..i : r[j] = a[j]
      /\ \A j \in 1..(Len(s) + 1 - i) : r[i + j] = c[j]
  BY <1>1, <1>8, <1>9
<1>4. ASSUME NEW j \in 1..(Len(s) + 1)
      PROVE  r[j] = IF j < i THEN s[j] ELSE IF j = i THEN e ELSE s[j - 1]
  <2>1. CASE j <= i
    BY <1>1, <1>3, <1>8, <2>1
  <2>2. CASE j > i
    <3>1. PICK k \in 1..(Len(s) + 1 - i) : j = i + k
      <4>1. j - i \in 1..(Len(s) + 1 - i) /\ j = i + (j - i)
        BY <2>2
      <4> QED
        BY <4>1
    <3>2. r[j] = c[k] /\ c[k] = s[i + k - 1] /\ i + k - 1 = j - 1
      BY <1>1, <1>3, <3>1
    <3> QED
      BY <2>2, <3>2
  <2> QED
    BY <2>1, <2>2
<1>5. ASSUME NEW j \in DOMAIN s PROVE \E k \in DOMAIN r : r[k] = s[j]
  <2>1. CASE j < i
    <3>1. j \in 1..(Len(s) + 1) /\ j \in DOMAIN r
      BY <1>3
    <3>2. r[j] = s[j]
      BY <1>4, <2>1, <3>1
    <3> QED
      BY <3>1, <3>2, Zenon
  <2>2. CASE ~ (j < i)
    <3>1. j + 1 \in DOMAIN r /\ r[j + 1] = s[j]
      BY <1>3, <1>4, <2>2
    <3> QED
      BY <3>1
  <2> QED
    BY <2>1, <2>2
<1>6. ASSUME NEW j \in DOMAIN r, NEW k \in DOMAIN r, r[j] = r[k] PROVE j = k
  <2>1. j \in 1..(Len(s) + 1) /\ k \in 1..(Len(s) + 1)
    BY <1>3
  <2>2. ASSUME NEW m \in 1..(Len(s) + 1), m # i
        PROVE  IF m < i THEN m \in DOMAIN s ELSE m - 1 \in DOMAIN s
    BY <2>2
  <2>3. CASE j = i /\ k # i
    BY <1>0, <1>4, <1>6, <2>1, <2>2, <2>3
  <2>4. CASE k = i /\ j # i
    BY <1>0, <1>4, <1>6, <2>1, <2>2, <2>4
  <2>5. CASE k # i /\ j # i
    BY <1>0, <1>4, <1>6, <2>1, <2>2, <2>5
  <2> QED
    BY <2>3, <2>4, <2>5
<1>7. ToSet(s) \subseteq ToSet(r)
  BY <1>5 DEF ToSet
<1>10. r[i] = e /\ \A j \in 1..(i - 1) : r[j] = s[j]
  BY <1>4
<1> QED
  BY <1>3, <1>6, <1>7, <1>10 DEF Once, r

(* An entry is added, and all that had a place keeps it.                    *)
Grew(e) ==
  /\ OnePlace(kids')
  /\ \A n \in Nodes : Housed(kids, n) => Housed(kids', n)
  /\ Freed(kids, iter.node) => Freed(kids', iter.node)
  /\ e.top # Root /\ \A q \in Groups : ~ Has(kids, q, e.top)
  /\ \A n \in Nodes, f \in [Nat -> Nodes], l \in Nat :
       Trail(kids, f, l, n) => Trail(kids', f, l, n)

(* It is added at p, whose list becomes another one.                        *)
LEMMA GrownPlaces ==
  ASSUME kids \in [Nodes -> Seq(Nodes)], OnePlace(kids), NEW e \in Added, e # NoEntry, Fresh(e),
         NEW p \in Groups \cup {NoNode}, NEW list \in Seq(Nodes),
         p \in Groups => ToSet(list) \subseteq ToSet(kids[p]) \cup {e.top},
         p \in Groups => ToSet(kids[p]) \subseteq ToSet(list),
         \A i, j \in DOMAIN list : list[i] = list[j] => i = j,
         kids' = [kids EXCEPT ![p] = list, ![e.top] = e.list]
  PROVE  /\ Grew(e)
         /\ \A q \in Groups \ {p} : Housed(kids, q) => kids'[q] = kids[q]
<1>1. /\ e.top \in Nodes /\ e.top # Root /\ e.list \in Seq(Files)
      /\ e.top \in Files => e.list = <<>>
      /\ \A i, j \in DOMAIN e.list : e.list[i] = e.list[j] => i = j
  BY AddedTyped
<1>2. /\ Groups \subseteq Nodes /\ Files \cap Groups = {} /\ NoNode \notin Nodes
      /\ Root \in Groups
  BY NodesAssumption DEF Nodes
<1>3. ASSUME NEW q \in Groups, NEW i \in DOMAIN kids[q]
      PROVE  kids[q][i] # e.top /\ kids[q][i] \notin ToSet(e.list) /\ kids[q][i] \in Nodes
  <2>1. kids[q][i] \in ToSet(kids[q]) /\ kids[q] \in Seq(Nodes)
    BY <1>2 DEF ToSet
  <2> QED
    BY <2>1 DEF Fresh
<1>4. iter.node # e.top /\ iter.node \notin ToSet(e.list)
  BY DEF Fresh
<1>5. ASSUME NEW q \in Groups
      PROVE  kids'[q] = IF q = e.top THEN e.list ELSE IF q = p THEN list ELSE kids[q]
  BY <1>2
<1>6. ASSUME NEW q \in Groups, NEW i \in DOMAIN kids'[q]
      PROVE  \/ q = e.top /\ i \in DOMAIN e.list /\ kids'[q][i] = e.list[i]
             \/ q # e.top /\ q = p /\ i \in DOMAIN list /\ kids'[q][i] = list[i]
                /\ kids'[q][i] \in ToSet(kids[q]) \cup {e.top}
             \/ q # e.top /\ q # p /\ i \in DOMAIN kids[q] /\ kids'[q][i] = kids[q][i]
  <2>1. CASE q = e.top
    BY <1>5, <2>1
  <2>2. CASE q # e.top /\ q = p
    <3>1. kids'[q] = list
      BY <1>5, <2>2
    <3>2. list[i] \in ToSet(list)
      BY <3>1 DEF ToSet
    <3> QED
      BY <2>2, <3>1, <3>2
  <2>3. CASE q # e.top /\ q # p
    BY <1>5, <2>3
  <2> QED
    BY <2>1, <2>2, <2>3
<1>13. \A q, s \in Groups : \A i \in DOMAIN kids[q], j \in DOMAIN kids[s] :
         kids[q][i] = kids[s][j] => q = s /\ i = j
  BY Zenon DEF OnePlace
<1>7. OnePlace(kids')
  <2> SUFFICES ASSUME NEW a \in Groups, NEW b \in Groups, NEW i \in DOMAIN kids'[a],
                      NEW j \in DOMAIN kids'[b], kids'[a][i] = kids'[b][j]
               PROVE  a = b /\ i = j
    BY DEF OnePlace
  <2> DEFINE m == kids'[a][i]
  <2>1. a = e.top => m \in ToSet(e.list) /\ m # e.top
    <3>1. ASSUME a = e.top PROVE m \in ToSet(e.list) /\ m \in Files /\ a \notin Files
      BY <1>1, <1>2, <1>5, <3>1 DEF ToSet
    <3> QED
      BY <3>1
  <2>2. b = e.top => m \in ToSet(e.list) /\ m # e.top
    <3>1. ASSUME b = e.top PROVE m \in ToSet(e.list) /\ m \in Files /\ b \notin Files
      BY <1>1, <1>2, <1>5, <3>1 DEF ToSet
    <3> QED
      BY <3>1
  <2>0. m = kids'[a][i]
    OBVIOUS
  <2>3. a # e.top => (m = e.top /\ a = p) \/ m \in ToSet(kids[a])
    <3> HIDE DEF m
    <3>1. \/ a = e.top
          \/ a = p /\ kids'[a][i] \in ToSet(kids[a]) \cup {e.top}
          \/ i \in DOMAIN kids[a] /\ kids'[a][i] = kids[a][i]
      BY <1>6, ZenonT(60)
    <3>2. i \in DOMAIN kids[a] => kids[a][i] \in ToSet(kids[a])
      BY DEF ToSet
    <3> QED
      BY <2>0, <3>1, <3>2
  <2>9. m = kids'[b][j]
    OBVIOUS
  <2>4. b # e.top => (m = e.top /\ b = p) \/ m \in ToSet(kids[b])
    <3>1. \/ b = e.top
          \/ b = p /\ kids'[b][j] \in ToSet(kids[b]) \cup {e.top}
          \/ j \in DOMAIN kids[b] /\ kids'[b][j] = kids[b][j]
      BY <1>6, ZenonT(60)
    <3>2. j \in DOMAIN kids[b] => kids[b][j] \in ToSet(kids[b])
      BY DEF ToSet
    <3> HIDE DEF m
    <3> QED
      BY <2>9, <3>1, <3>2
  <2>5. \A q \in Groups : m \in ToSet(kids[q]) => m # e.top /\ m \notin ToSet(e.list)
    BY <1>3 DEF ToSet
  <2>6. \A q, s \in Groups : m \in ToSet(kids[q]) /\ m \in ToSet(kids[s]) => q = s
    <3> HIDE DEF m
    <3> SUFFICES ASSUME NEW q \in Groups, NEW s \in Groups,
                        m \in ToSet(kids[q]), m \in ToSet(kids[s])
                 PROVE  q = s
      OBVIOUS
    <3>1. PICK x \in DOMAIN kids[q] : kids[q][x] = m
      BY DEF ToSet
    <3>2. PICK y \in DOMAIN kids[s] : kids[s][y] = m
      BY DEF ToSet
    <3>3. kids[q][x] = kids[s][y]
      BY <3>1, <3>2
    <3> QED
      BY <1>13, <3>3, Zenon
  <2>7. a = b
    <3> HIDE DEF m
    <3> QED
      BY <2>1, <2>2, <2>3, <2>4, <2>5, <2>6
  <2>8. \A x, y \in DOMAIN kids'[a] : kids'[a][x] = kids'[a][y] => x = y
    <3>1. CASE a = e.top
      BY <1>1, <1>5, <3>1
    <3>2. CASE a # e.top /\ a = p
      <4>1. kids'[a] = list
        BY <1>5, <3>2, Zenon
      <4> QED
        BY <4>1, Zenon
    <3>3. CASE a # e.top /\ a # p
      <4>1. kids'[a] = kids[a]
        BY <1>5, <3>3, Zenon
      <4>2. \A x, y \in DOMAIN kids[a] : kids[a][x] = kids[a][y] => x = y
        <5> SUFFICES ASSUME NEW x \in DOMAIN kids[a], NEW y \in DOMAIN kids[a],
                            kids[a][x] = kids[a][y]
                     PROVE  x = y
          OBVIOUS
        <5> QED
          BY <1>13
      <4> QED
        BY <4>1, <4>2, Zenon
    <3> QED
      BY <3>1, <3>2, <3>3
  <2> QED
    BY <2>7, <2>8
<1>8. \A q \in Groups : ~ Has(kids, q, e.top)
  BY <1>3 DEF Has
<1>9. ASSUME NEW q \in Groups \ {e.top}, NEW m, Has(kids, q, m) PROVE Has(kids', q, m)
  <2>1. CASE q = p
    <3>1. m \in ToSet(kids[q])
      BY <1>9 DEF Has, ToSet
    <3>2. m \in ToSet(list)
      BY <2>1, <3>1
    <3>3. kids'[q] = list
      BY <1>5, <2>1
    <3> QED
      BY <3>2, <3>3 DEF Has, ToSet
  <2>2. CASE q # p
    BY <1>5, <1>9, <2>2 DEF Has
  <2> QED
    BY <2>1, <2>2
<1>14. ASSUME NEW n \in Nodes, NEW f \in [Nat -> Nodes], NEW l \in Nat, Trail(kids, f, l, n)
       PROVE  Trail(kids', f, l, n)
  BY <1>1, <1>2, <1>8, <1>9, <1>14, TrailStays
<1>10. ASSUME NEW n \in Nodes, Housed(kids, n) PROVE Housed(kids', n)
  BY <1>10, <1>14 DEF Housed
<1>11. ASSUME Freed(kids, iter.node) PROVE Freed(kids', iter.node)
  <2>0. \A q \in Groups : iter.node \notin ToSet(kids[q])
    BY <1>11 DEF Freed, Has, ToSet
  <2>1. ASSUME NEW q \in Groups, NEW i \in DOMAIN kids'[q], kids'[q][i] = iter.node PROVE FALSE
    <3>1. CASE q = e.top /\ i \in DOMAIN e.list /\ kids'[q][i] = e.list[i]
      BY <1>4, <2>1, <3>1 DEF ToSet
    <3>2. CASE kids'[q][i] \in ToSet(kids[q]) \cup {e.top}
      BY <1>4, <2>0, <2>1, <3>2
    <3>3. CASE i \in DOMAIN kids[q] /\ kids'[q][i] = kids[q][i]
      BY <2>0, <2>1, <3>3 DEF ToSet
    <3>4. \/ q = e.top /\ i \in DOMAIN e.list /\ kids'[q][i] = e.list[i]
          \/ kids'[q][i] \in ToSet(kids[q]) \cup {e.top}
          \/ i \in DOMAIN kids[q] /\ kids'[q][i] = kids[q][i]
      BY <1>6, Zenon
    <3> QED
      BY <3>1, <3>2, <3>3, <3>4, Zenon
  <2> QED
    BY <1>11, <2>1 DEF Freed, Has
<1>12. ASSUME NEW q \in Groups \ {p}, Housed(kids, q) PROVE kids'[q] = kids[q]
  <2>1. PICK f \in [Nat -> Nodes], l \in Nat : Trail(kids, f, l, q)
    BY <1>12 DEF Housed
  <2>2. q # e.top
    <3>1. CASE l = 0
      BY <1>1, <2>1, <3>1 DEF Trail
    <3>2. CASE l # 0
      <4>1. l - 1 \in 0..(l - 1) /\ (l - 1) + 1 = l
        BY <3>2
      <4> QED
        BY <1>8, <2>1, <4>1 DEF Trail
    <3> QED
      BY <3>1, <3>2
  <2> QED
    BY <1>5, <2>2
<1> QED
  BY <1>1, <1>7, <1>8, <1>10, <1>11, <1>12, <1>14 DEF Grew

LEMMA LoadAppendGrows ==
  ASSUME NInv, NEW e \in NewEntries, LoadAppend(e)
  PROVE  /\ Grew(e)
         /\ \A q \in Groups \ {Root} : Housed(kids, q) => kids'[q] = kids[q]
<1> DEFINE list == Append(kids[Root], e.top)
<1>1. kids' = [kids EXCEPT ![Root] = list, ![e.top] = e.list]
  BY DEF LoadAppend
<1>2. e \in Loads /\ e \in Added /\ e # NoEntry /\ Fresh(e) /\ e.top \in Nodes
  BY LoadTyped, NodesAssumption DEF NewEntries, Added, NoEntry
<1>3. kids \in [Nodes -> Seq(Nodes)] /\ OnePlace(kids)
  BY KidsTyped DEF NInv, Places
<1>4. Root \in Groups /\ Root \in Groups \cup {NoNode} /\ kids[Root] \in Seq(Nodes)
  BY <1>3, NodesAssumption DEF Nodes
<1>5. /\ list \in Seq(Nodes) /\ Len(list) = Len(kids[Root]) + 1
      /\ list[Len(kids[Root]) + 1] = e.top
      /\ \A i \in 1..Len(kids[Root]) : list[i] = kids[Root][i]
  BY <1>2, <1>4
<1> HIDE DEF list
<1>6. ASSUME NEW i \in DOMAIN kids[Root] PROVE kids[Root][i] # e.top
  <2>1. kids[Root][i] \in ToSet(kids[Root])
    BY DEF ToSet
  <2> QED
    BY <1>2, <1>4, <2>1 DEF Fresh
<1>7. /\ ToSet(list) \subseteq ToSet(kids[Root]) \cup {e.top}
      /\ ToSet(kids[Root]) \subseteq ToSet(list)
  <2>1. ASSUME NEW i \in DOMAIN list PROVE list[i] \in ToSet(kids[Root]) \cup {e.top}
    <3>1. CASE i \in DOMAIN kids[Root]
      BY <1>4, <1>5, <3>1 DEF ToSet
    <3>2. CASE i \notin DOMAIN kids[Root]
      <4>1. i = Len(kids[Root]) + 1
        BY <1>4, <1>5, <3>2
      <4> QED
        BY <1>5, <4>1
    <3> QED
      BY <3>1, <3>2
  <2>2. ASSUME NEW i \in DOMAIN kids[Root] PROVE kids[Root][i] \in ToSet(list)
    <3>1. i \in DOMAIN list /\ list[i] = kids[Root][i]
      BY <1>4, <1>5
    <3> QED
      BY <3>1 DEF ToSet
  <2> QED
    BY <2>1, <2>2 DEF ToSet
<1>8. \A i, j \in DOMAIN kids[Root] : kids[Root][i] = kids[Root][j] => i = j
  BY <1>3, <1>4 DEF OnePlace
<1>9. \A i, j \in DOMAIN list : list[i] = list[j] => i = j
  <2>1. ASSUME NEW i \in DOMAIN list
        PROVE  \/ i \in DOMAIN kids[Root] /\ list[i] = kids[Root][i] /\ list[i] # e.top
               \/ i = Len(kids[Root]) + 1 /\ list[i] = e.top
    <3>1. CASE i \in DOMAIN kids[Root]
      BY <1>4, <1>5, <1>6, <3>1
    <3>2. CASE i \notin DOMAIN kids[Root]
      BY <1>4, <1>5, <3>2
    <3> QED
      BY <3>1, <3>2
  <2> QED
    BY <1>8, <2>1
<1> QED
  BY <1>1, <1>2, <1>3, <1>4, <1>5, <1>7, <1>9, GrownPlaces

LEMMA LoadAppendKeepsNodes ==
  ASSUME NInv, IInv', NEW e \in NewEntries, LoadAppend(e)
  PROVE  NInv'
<1>1. job = "none" /\ job' = job /\ ret' = ret /\ iter' = iter /\ saved' = saved
  BY DEF LoadAppend, Playing, Returned, call, hold
<1>2. /\ saved.node = NoNode /\ Here(kids, iter.node)
      /\ iter.node \in Nodes \cup {NoNode}
  BY <1>1, NoIterTyped, Known, Fields DEF NInv, Places, IInv, Calls
<1>3. Grew(e) /\ \A q \in Groups \ {Root} : Housed(kids, q) => kids'[q] = kids[q]
  BY LoadAppendGrows
<1>4. Places'
  BY <1>1, <1>2, <1>3 DEF Grew, Places, Here
<1>5. Emptiness(kids) => Emptiness(kids')
  BY <1>3 DEF Grew, Emptiness, Nodes
<1> QED
  BY <1>1, <1>4, <1>5 DEF NInv, Crashed, Starts

LEMMA OpenPlaylistGrows ==
  ASSUME NInv, OpenPlaylist, Contents[iter.node] # NoEntry
  PROVE  Grew(Contents[iter.node])
<1> DEFINE e == Contents[iter.node]
           p == ParentOf(iter.node)
<1>1. /\ pc = "rest" /\ job = "playlist"
      /\ Fresh(e)
      /\ kids' = [kids EXCEPT ![p] = InsertAfter(kids[p], iter.node, e.top),
                              ![e.top] = e.list]
  BY Zenon DEF OpenPlaylist, Returned
<1>2. /\ kids \in [Nodes -> Seq(Nodes)] /\ OnePlace(kids)
      /\ iter.node \in Nodes /\ iter.node \in DOMAIN Contents
  BY <1>1, KidsTyped DEF NInv, Places, IInv, Calls, Nodes
<1>4. Grew(e)
  <2>1. e \in Added /\ e # NoEntry
    BY <1>2 DEF Added
  <2> HIDE DEF e
  <2>2. e.top \in Nodes /\ e.top # Root
    BY <2>1, AddedTyped
  <2>3. /\ Fresh(e)
        /\ kids' = [kids EXCEPT ![p] = InsertAfter(kids[p], iter.node, e.top),
                                ![e.top] = e.list]
    BY <1>1
  <2>4. PICK q \in Groups \cup {NoNode}, list \in Seq(Nodes) :
          /\ q \in Groups => ToSet(list) \subseteq ToSet(kids[q]) \cup {e.top}
          /\ q \in Groups => ToSet(kids[q]) \subseteq ToSet(list)
          /\ \A i, j \in DOMAIN list : list[i] = list[j] => i = j
          /\ kids' = [kids EXCEPT ![q] = list, ![e.top] = e.list]
    <3>1. CASE p = NoNode
      <4>1. kids' = [kids EXCEPT ![NoNode] = <<>>, ![e.top] = e.list]
        <5>1. NoNode \notin Nodes
          BY NodesAssumption DEF Nodes
        <5>2. \A x : [kids EXCEPT ![NoNode] = x] = kids
          BY <1>2, <5>1
        <5> QED
          BY <2>3, <3>1, <5>2, Zenon
      <4>2. NoNode \in Groups \cup {NoNode} /\ <<>> \in Seq(Nodes) /\ NoNode \notin Groups
            /\ \A i, j \in DOMAIN <<>> : <<>>[i] = <<>>[j] => i = j
        BY NodesAssumption DEF Nodes
      <4> QED
        BY <4>1, <4>2
    <3>2. CASE p # NoNode
      <4>1. p \in Groups /\ kids[p] \in Seq(Nodes)
        BY <1>2, <3>2, ParentHasIt DEF Nodes
      <4>2. Siblings(iter.node) = kids[p]
        BY <3>2 DEF Siblings
      <4>3. Place(iter.node) \in DOMAIN kids[p]
        BY <1>2, <4>2, SiblingsTyped
      <4> DEFINE list == InsertAfter(kids[p], iter.node, e.top)
                 i == Place(iter.node) + 1
      <4>4. list = InsertAt(kids[p], i, e.top) /\ i \in 1..(Len(kids[p]) + 1)
        BY <4>1, <4>3 DEF InsertAfter
      <4>5. \A j \in DOMAIN kids[p] : kids[p][j] # e.top
        BY <2>3, <4>1 DEF Fresh, ToSet
      <4>6. \A j, k \in DOMAIN kids[p] : kids[p][j] = kids[p][k] => j = k
        BY <1>2, <4>1 DEF OnePlace
      <4>7. kids' = [kids EXCEPT ![p] = list, ![e.top] = e.list]
        BY <2>3
      <4> HIDE DEF i, list
      <4>8. /\ list \in Seq(Nodes)
            /\ ToSet(list) \subseteq ToSet(kids[p]) \cup {e.top}
            /\ ToSet(kids[p]) \subseteq ToSet(list)
            /\ \A j, k \in DOMAIN list : list[j] = list[k] => j = k
        <5>1. PICK s \in Seq(Nodes), n \in Nodes : s = kids[p] /\ n = e.top
          BY <2>2, <4>1
        <5>2. list = InsertAt(s, i, n) /\ i \in 1..(Len(s) + 1)
          BY <4>4, <5>1
        <5>3. Lacks(s, n)
          BY <4>5, <5>1 DEF Lacks
        <5>4. Once(s)
          BY <4>6, <5>1 DEF Once
        <5>5. ToSet(InsertAt(s, i, n)) \subseteq ToSet(s) \cup {n}
          BY <5>2, InsertedMembers, Zenon
        <5>6. /\ InsertAt(s, i, n) \in Seq(Nodes)
              /\ ToSet(s) \subseteq ToSet(InsertAt(s, i, n))
              /\ Once(InsertAt(s, i, n))
          BY <5>2, <5>3, <5>4, InsertedOnce
        <5> QED
          BY <5>1, <5>2, <5>5, <5>6, Zenon DEF Once
      <4> HIDE DEF p
      <4> QED
        BY <4>1, <4>7, <4>8
    <3> QED
      BY <3>1, <3>2
  <2> QED
    BY <1>2, <2>1, <2>3, <2>4, GrownPlaces
<1> QED
  BY <1>4

LEMMA OpenPlaylistKeepsNodes ==
  ASSUME NInv, IInv', OpenPlaylist
  PROVE  NInv'
<1>1. /\ pc = "rest" /\ job = "playlist" /\ iter' = iter /\ saved' = saved
      /\ ret' = "none" /\ job' = "added"
  BY DEF OpenPlaylist, Returned, Call
<1>2. saved.node = NoNode /\ Here(kids, iter.node) /\ iter.node \in Nodes
  BY <1>1, NoIterTyped DEF NInv, Places, IInv, Calls, Nodes
<1>3. CASE Contents[iter.node] = NoEntry
  <2>1. kids' = kids
    BY <1>3 DEF OpenPlaylist
  <2> QED
    BY <1>1, <2>1, RestKeepsNodes
<1>4. CASE Contents[iter.node] # NoEntry
  <2>1. Places'
    BY <1>1, <1>2, <1>4, OpenPlaylistGrows DEF Grew, Places, Here
  <2> QED
    BY <1>1, <2>1 DEF NInv, Crashed, Starts
<1> QED
  BY <1>3, <1>4

(* The playlist is taken out.  If the iterator is on it, it is on a freed   *)
(* file then.                                                               *)
LEMMA RemovedPlaces ==
  ASSUME kids \in [Nodes -> Seq(Nodes)], OnePlace(kids), NEW v \in Files \cup {NoNode},
         NEW k, \A m \in Nodes : k[m] = Kept(kids[m], Nodes \ {v}),
         NEW n \in Files, Here(kids, n)
  PROVE  /\ OnePlace(k) /\ Here(k, n)
         /\ n = v => Freed(k, n)
         /\ \A f \in [Nat -> Nodes], l \in Nat :
              n # v /\ Trail(kids, f, l, n) => Trail(k, f, l, n)
<1> DEFINE S == Nodes \ {v}
<1>1. ASSUME NEW p \in Groups
      PROVE  /\ k[p] \in Seq(Nodes) /\ kids[p] \in Seq(Nodes)
             /\ ToSet(k[p]) = ToSet(kids[p]) \cap S
             /\ \A i, j \in DOMAIN k[p] : k[p][i] = k[p][j] => i = j
  <2>1. PICK list \in Seq(Nodes) : list = kids[p] /\ k[p] = Kept(list, S)
    BY DEF Nodes
  <2>2. \A i, j \in DOMAIN list : list[i] = list[j] => i = j
    BY <2>1 DEF OnePlace
  <2> HIDE DEF S
  <2>3. PICK r : r = Kept(list, S)
    OBVIOUS
  <2>4. /\ r \in Seq(Nodes) /\ ToSet(r) = ToSet(list) \cap S
        /\ \A i, j \in DOMAIN r : r[i] = r[j] => i = j
    <3>1. /\ Kept(list, S) \in Seq(Nodes) /\ ToSet(Kept(list, S)) = ToSet(list) \cap S
          /\ (\A i, j \in DOMAIN list : list[i] = list[j] => i = j)
             => \A i, j \in DOMAIN Kept(list, S) : Kept(list, S)[i] = Kept(list, S)[j] => i = j
      BY KeptSame, Zenon
    <3> QED
      BY <2>2, <2>3, <3>1, Zenon
  <2>5. k[p] = r /\ kids[p] = list
    BY <2>1, <2>3
  <2> QED
    BY <2>4, <2>5
<1> HIDE DEF S
<1>2. OnePlace(k)
  <2> SUFFICES ASSUME NEW p \in Groups, NEW q \in Groups, NEW i \in DOMAIN k[p],
                      NEW j \in DOMAIN k[q], k[p][i] = k[q][j]
               PROVE  p = q /\ i = j
    BY DEF OnePlace
  <2>1. k[p][i] \in ToSet(k[p]) /\ k[p][i] \in ToSet(k[q])
    BY DEF ToSet
  <2>2. k[p][i] \in ToSet(kids[p]) /\ k[p][i] \in ToSet(kids[q])
    BY <1>1, <2>1
  <2>3. PICK x \in DOMAIN kids[p], y \in DOMAIN kids[q] :
          kids[p][x] = k[p][i] /\ kids[q][y] = k[p][i]
    BY <2>2 DEF ToSet
  <2>4. kids[p][x] = kids[q][y]
    BY <2>3
  <2>5. p = q
    BY <2>4 DEF OnePlace
  <2>6. \A x1, y1 \in DOMAIN k[p] : k[p][x1] = k[p][y1] => x1 = y1
    BY <1>1, Zenon
  <2> QED
    BY <2>5, <2>6
<1>3. ASSUME NEW p \in Groups, NEW m
      PROVE  /\ Has(k, p, m) <=> Has(kids, p, m) /\ m # v
             /\ Has(kids, p, m) => m \in Nodes
  <2>1. Has(k, p, m) <=> m \in ToSet(k[p])
    BY DEF Has, ToSet
  <2>2. Has(kids, p, m) <=> m \in ToSet(kids[p])
    BY DEF Has, ToSet
  <2>4. kids[p] \in Seq(Nodes)
    BY <1>1
  <2>3. ToSet(kids[p]) \subseteq Nodes
    BY <2>4 DEF ToSet
  <2> QED
    BY <1>1, <2>1, <2>2, <2>3 DEF S
<1>7. n = v => Freed(k, n)
  BY <1>3 DEF Freed
<1>6. ASSUME NEW f \in [Nat -> Nodes], NEW l \in Nat, n # v, Trail(kids, f, l, n)
      PROVE  Trail(k, f, l, n)
  <2>1. v \notin Groups /\ n \in Nodes /\ NoNode # Root /\ NoNode \notin Nodes
    BY NodesAssumption DEF Nodes
  <2>2. \A p \in Groups : ~ Has(kids, p, NoNode)
    BY <1>3, <2>1
  <2>3. \A p \in Groups \ {NoNode} : \A m \in Nodes \ {v} : Has(kids, p, m) => Has(k, p, m)
    BY <1>3
  <2> QED
    BY <1>6, <2>1, <2>2, <2>3, TrailStays
<1>4. CASE n = v \/ \A p \in Groups : ~ Has(kids, p, n)
  <2>1. \A p \in Groups : ~ Has(k, p, n)
    BY <1>3, <1>4
  <2> QED
    BY <1>2, <1>6, <1>7, <2>1 DEF Here, Freed
<1>5. CASE n # v /\ ~ \A p \in Groups : ~ Has(kids, p, n)
  <2>1. n # NoNode /\ v \notin Groups /\ n \in Nodes /\ NoNode # Root /\ NoNode \notin Nodes
    BY NodesAssumption DEF Nodes
  <2>2. PICK f \in [Nat -> Nodes], l \in Nat : Trail(kids, f, l, n)
    BY <1>5, <2>1 DEF Here, Housed, Freed
  <2>3. Housed(k, n)
    BY <1>5, <1>6, <2>2 DEF Housed
  <2> QED
    BY <1>2, <1>5, <1>6, <2>3 DEF Here
<1> QED
  BY <1>4, <1>5, <1>7

LEMMA PlaylistDoneKeepsNodes ==
  ASSUME NInv, IInv', PlaylistDone
  PROVE  NInv'
<1>1. /\ job \in {"added", "unlooped"} /\ iter' = iter /\ saved' = saved
      /\ \/ NextEntry /\ UNCHANGED tree
         \/ Call("up", 1, FALSE, "unlooped") /\ UNCHANGED tree
         \/ ret = "entry" /\ RemoveVictim /\ NextSource(1) /\ NoCall
  BY Zenon DEF PlaylistDone, Returned
<1>2. CASE NextEntry /\ UNCHANGED tree
  <2>1. kids' = kids /\ ret' = "none" /\ job' = "next"
    BY <1>2 DEF NextEntry, Call, tree
  <2> QED
    BY <1>1, <2>1, RestKeepsNodes
<1>3. CASE Call("up", 1, FALSE, "unlooped") /\ UNCHANGED tree
  <2>1. kids' = kids /\ ret' = "none" /\ job' = "unlooped"
    BY <1>3 DEF Call, tree
  <2> QED
    BY <1>1, <2>1, RestKeepsNodes
<1>4. CASE ret = "entry" /\ RemoveVictim /\ NextSource(1) /\ NoCall
  <2>1. /\ kids' = [n \in Nodes |-> Kept(kids[n], Nodes \ {victim})]
        /\ ret' = "entry" /\ job' = "files"
    BY <1>4 DEF RemoveVictim, NextSource, NoCall, call
  <2>2. /\ kids \in [Nodes -> Seq(Nodes)] /\ OnePlace(kids) /\ saved.node = NoNode
        /\ Here(kids, iter.node) /\ iter.node \in Files /\ victim \in Files \cup {NoNode}
    BY <1>1, <1>4, Known, KidsTyped, NoIterTyped DEF NInv, Places, IInv, Calls
  <2>3. OnePlace(kids') /\ Here(kids', iter.node)
    BY <2>1, <2>2, RemovedPlaces
  <2>4. Places'
    BY <1>1, <2>2, <2>3 DEF Places, Here
  <2> QED
    BY <2>1, <2>4 DEF NInv, Crashed, Starts
<1> QED
  BY <1>1, <1>2, <1>3, <1>4

-----------------------------------------------------------------------------
LEMMA InitNodes ==
  ASSUME Init
  PROVE  NInv
<1>1. PICK t \in Trees : kids = t.kids
  BY DEF Init
<1>2. /\ iter.node = NoNode /\ saved.node = NoNode /\ ret = "none" /\ job = "boot"
      /\ played = {}
  BY NoIterTyped DEF Init
<1>3. OnePlace(t.kids)
  BY TreesAssumption, Zenon DEF OnePlace
<1>4. OnePlace(kids)
  BY <1>1, <1>3, Zenon
<1>5. Places
  BY <1>2, <1>4 DEF Places, Here
<1> QED
  BY <1>2, <1>5, InitHolds DEF NInv, Crashed, Starts

LEMMA NextNodes ==
  ASSUME NInv, [Next]_vars
  PROVE  NInv'
<1>1. IInv'
  BY NextHolds DEF NInv
<1>2. CASE Restful
  BY <1>1, <1>2, RestfulKeepsNodes
<1>3. CASE Iterate \/ Boot \/ OpenPlaylist \/ PlaylistDone \/ UNCHANGED vars
  BY <1>1, <1>3, IterateKeepsNodes, BootKeepsNodes, OpenPlaylistKeepsNodes,
     PlaylistDoneKeepsNodes, StutterKeepsNodes, Zenon
<1>4. CASE \E e \in Loads : Replaced(e)
  BY <1>1, <1>4, ReplacedKeepsNodes, Zenon
<1>5. CASE \E e \in NewEntries : LoadAppend(e)
  BY <1>1, <1>5, LoadAppendKeepsNodes, Zenon
<1>6. CASE \E e \in Loads : LoadIdle(e)
  BY <1>1, <1>6, LoadIdleKeepsNodes, Zenon
<1> QED
  BY <1>2, <1>3, <1>4, <1>5, <1>6, Zenon DEF Next, Proceed, Restful

(* With such an empty group in it the tree is not clean.                    *)
LEMMA Uncleaned ==
  ASSUME NInv, Emptiness(kids)
  PROVE  ~ Clean
<1>1. kids \in [Nodes -> Seq(Nodes)] /\ OnePlace(kids)
  BY KidsTyped DEF NInv, Places
<1>2. PICK p \in Groups \ {Root} : Housed(kids, p) /\ kids[p] = <<>>
  BY DEF Emptiness
<1>3. p \in Nodes /\ p \notin Files
  BY NodesAssumption DEF Nodes
<1>4. p \in InTree
  BY <1>1, <1>2, <1>3, HousedInTree
<1>5. p \notin Valid
  <2>1. ~ \E i \in DOMAIN kids[p] : kids[p][i] \in Valid
    BY <1>2
  <2> QED
    BY <1>1, <1>3, <2>1, ValidUnfolds
<1> QED
  BY <1>4, <1>5 DEF Clean

(* main takes the first entry of a new tree without a test for NULL: there  *)
(* is one, as play_tree_cleanup leaves nothing without a file in the tree,  *)
(* nor does a load bring such.  And play_tree_iter_step takes no group for  *)
(* an entry, unless a playlist that turned out to be empty left the group   *)
(* without a file: the first child of each group is all that it looks at.   *)
THEOREM FirstStepFindsEntry == Spec => []FirstStepFinds
<1>1. Init => NInv
  BY InitNodes
<1>2. NInv /\ [Next]_vars => NInv'
  BY NextNodes
<1>3. ASSUME NInv PROVE FirstStepFinds
  <2>1. Clean => ret # "crash"
    BY <1>3, Uncleaned DEF NInv, Crashed
  <2>2. Returned("start") => ret = "entry"
    BY <1>3 DEF NInv, Starts, Returned
  <2> QED
    BY <2>1, <2>2 DEF FirstStepFinds
<1> QED
  BY <1>1, <1>2, <1>3, PTL DEF Spec

-----------------------------------------------------------------------------
(* The options in force.                                                    *)

(* What a node makes of the value that holds around it.                     *)
ValueIn(pa, n, v) == IF pa[n] # Unset THEN pa[n] ELSE v

(* Above the level b there is one for each group on the way down, with what *)
(* that group makes of the level below.                                     *)
Inherited(pa, s, b, f, l) ==
  \A i \in 0..(l - 1) : s[b + i + 1] = ValueIn(pa, f[i], s[b + i])

Opens(k, pa, s, b, lo, n, q) ==
  \E f \in [Nat -> Nodes], l \in Nat :
    Trail(k, f, l, n) /\ Len(q) = l + lo /\ Inherited(pa, s, b + lo, f, l)

Opened ==
  Held.live /\ Held.node # NoNode =>
    \/ Freed(kids, Held.node)
    \/ Opens(kids, params, conf.slots, base, lost, Held.node, Held.stack)

(* An entry has its own value.                                              *)
Settled ==
  Arrived => conf.value = ValueIn(params, iter.node, conf.slots[base + Len(iter.stack)])

(* On a freed file the iterator only finds the end.                         *)
EndsSoon(n) ==
  Freed(kids, n) =>
    /\ n \in DOMAIN Contents
    /\ \/ job \in {"files", "playlist"}
       \/ /\ job \in {"added", "next", "filestep"}
          /\ (pc = "rest" /\ ret = "end") \/ (pc \in {"step", "up"} /\ dir \in {1, -1})

Strays == IF job = "peek" THEN ~ Freed(kids, saved.node) ELSE EndsSoon(iter.node)

(* Before the first step there are no levels yet.                           *)
Unstarted ==
  job # "peek" /\ iter.live /\ iter.node = NoNode =>
    job = "start" /\ pc = "step" /\ iter.stack = <<>> /\ lost = 0

(* Between entries the value is that of the top level.                      *)
Current ==
  job # "peek" /\ iter.live /\ ~iter.pushed /\ iter.node \notin {NoNode, Root} =>
    conf.value = Last(conf.slots)

(* Where the level of an entry is open, and where a file is no playlist.    *)
Marks ==
  /\ pc = "down" /\ job # "peek" => ~iter.pushed
  /\ ret = "entry" /\ Arrived => iter.pushed
  /\ job \in {"none", "files", "playlist"} /\ iter.live => iter.pushed
  /\ job = "none" /\ iter.live => iter.node \notin DOMAIN Contents
  /\ job = "peek" => saved.pushed /\ saved.node \notin DOMAIN Contents
  /\ job \in {"added", "unlooped"} => victim \in DOMAIN Contents

OInv == NInv /\ Opened /\ Settled /\ Strays /\ Unstarted /\ Current /\ Marks

-----------------------------------------------------------------------------
(* The levels, one by one.                                                  *)
LEMMA PushParamsSlots ==
  ASSUME NEW c \in Config, c.slots # <<>>, params \in [Nodes -> Values \cup {Unset}],
         NEW n \in Nodes
  PROVE  LET L == Len(c.slots)
             r == PushParams(c, n)
         IN /\ r \in Config /\ Len(r.slots) = L + 1
            /\ \A i \in 1..(L - 1) : r.slots[i] = c.slots[i]
            /\ r.slots[L] = c.value
            /\ r.slots[L + 1] = ValueIn(params, n, c.value)
            /\ r.value = ValueIn(params, n, c.value)
<1> DEFINE L == Len(c.slots)
           s == [c.slots EXCEPT ![L] = c.value]
           r == PushParams(c, n)
<1>1. /\ c.slots \in Seq(Values) /\ c.value \in Values /\ L \in Nat /\ L >= 1
  BY DEF Config
<1>2. /\ s \in Seq(Values) /\ Len(s) = L /\ s[L] = c.value
      /\ \A i \in 1..(L - 1) : s[i] = c.slots[i]
  BY <1>1
<1>3. Push(c) = [slots |-> Append(s, c.value), value |-> c.value]
  <2> HIDE DEF r
  <2>1. Push(c) = [c EXCEPT !.slots = Append(s, c.value)]
    BY Zenon DEF Push
  <2>2. c \in [slots : Seq(Values), value : Values]
    BY DEF Config
  <2> HIDE DEF s, L
  <2> QED
    BY <2>1, <2>2
<1> HIDE DEF s
<1> DEFINE t == Append(s, c.value)
<1>4. /\ t \in Seq(Values) /\ Len(t) = L + 1 /\ t[L + 1] = c.value
      /\ \A i \in 1..L : t[i] = s[i]
  BY <1>1, <1>2
<1>5. r \in Config /\ Len(r.slots) = L + 1
  BY PushParamsTyped
<1>6. CASE params[n] = Unset
  <2>1. r = [slots |-> t, value |-> c.value]
    BY <1>3, <1>6 DEF PushParams
  <2>2. ValueIn(params, n, c.value) = c.value
    BY <1>6 DEF ValueIn
  <2>3. r.slots = t /\ r.value = c.value
    BY <2>1
  <2> HIDE DEF r, t, L
  <2>4. (\A i \in 1..(L - 1) : r.slots[i] = c.slots[i]) /\ r.slots[L] = c.value
    BY <1>1, <1>2, <1>4, <2>3
  <2> QED
    BY <1>4, <1>5, <2>2, <2>3, <2>4 DEF r, L
<1>7. CASE params[n] # Unset
  <2>1. r = [slots |-> [t EXCEPT ![L + 1] = params[n]], value |-> params[n]]
    <3>1. Push(c).slots = t
      BY <1>3
    <3> QED
      BY <1>4, <1>7, <3>1 DEF PushParams
  <2>2. ValueIn(params, n, c.value) = params[n]
    BY <1>7 DEF ValueIn
  <2> DEFINE u == [t EXCEPT ![L + 1] = params[n]]
  <2>3. u[L + 1] = params[n] /\ \A i \in 1..L : u[i] = t[i]
    <3> HIDE DEF t, L
    <3> QED
      BY <1>1, <1>4
  <2>4. r.slots = u /\ r.value = params[n]
    BY <2>1
  <2> HIDE DEF r, t, L, u
  <2>5. (\A i \in 1..(L - 1) : r.slots[i] = c.slots[i]) /\ r.slots[L] = c.value
    BY <1>1, <1>2, <1>4, <2>3, <2>4
  <2> QED
    BY <1>5, <2>2, <2>3, <2>4, <2>5 DEF r, L
<1> QED
  BY <1>6, <1>7

LEMMA PopSlots ==
  ASSUME NEW c \in Config, Len(c.slots) >= 2
  PROVE  /\ \A i \in 1..(Len(c.slots) - 1) : Pop(c).slots[i] = c.slots[i]
         /\ Pop(c).value = Last(Pop(c).slots)
<1>1. c.slots \in Seq(Values)
  BY DEF Config
<1>2. Pop(c).slots = Front(c.slots) /\ Pop(c).value = Last(Front(c.slots))
  BY DEF Pop
<1> QED
  BY <1>1, <1>2 DEF Front

LEMMA LevelCount ==
  ASSUME OInv, job # "peek", iter.live
  PROVE  /\ iter \in Iterators /\ conf \in Config /\ base \in Nat /\ base >= 1 /\ lost \in Nat
         /\ conf.slots # <<>> /\ Len(iter.stack) \in Nat /\ iter.stack \in Seq(Int)
         /\ iter.pushed => Len(conf.slots) = base + Len(iter.stack) + 1
         /\ ~iter.pushed => Len(conf.slots) = base + Len(iter.stack)
<1>1. /\ iter \in Iterators /\ conf \in Config /\ base \in Nat /\ base >= 1 /\ lost \in Nat
      /\ conf.slots # <<>>
  BY Known DEF OInv, NInv, IInv, TypeOK, Balanced, Config
<1>2. iter.stack \in Seq(Int)
  BY <1>1, Fields
<1>3. Len(conf.slots) = base + Len(iter.stack) + (IF iter.pushed THEN 1 ELSE 0)
  BY DEF OInv, NInv, IInv, Balanced, LevelsPaired, Held
<1> QED
  BY <1>1, <1>2, <1>3

(* When the level of an entry is left, the others stay.                     *)
LEMMA LeftSlots ==
  ASSUME OInv, pc = "step", job # "peek"
  PROVE  /\ Len(LeftConf.slots) = base + Len(iter.stack)
         /\ \A i \in 1..(base + Len(iter.stack)) : LeftConf.slots[i] = conf.slots[i]
         /\ iter.node \notin {NoNode, Root} => LeftConf.value = Last(LeftConf.slots)
<1>1. iter.live /\ WithConfig
  BY DEF OInv, NInv, IInv, Calls, WithConfig
<1>2. Len(LeftConf.slots) = base + Len(iter.stack)
  BY LeftTyped DEF OInv, NInv
<1>3. CASE iter.pushed
  <2>1. LeftConf = Pop(conf) /\ Len(conf.slots) = base + Len(iter.stack) + 1
        /\ base \in Nat /\ base >= 1 /\ Len(iter.stack) \in Nat /\ conf \in Config
    BY <1>1, <1>3, LevelCount DEF LeftConf
  <2>2. Len(conf.slots) >= 2 /\ Len(conf.slots) - 1 = base + Len(iter.stack)
    BY <2>1
  <2> QED
    BY <1>2, <2>1, <2>2, PopSlots
<1>4. CASE ~iter.pushed
  <2>1. LeftConf = conf
    BY <1>4 DEF LeftConf
  <2> QED
    BY <1>1, <1>2, <1>4, <2>1 DEF OInv, Current
<1> QED
  BY <1>3, <1>4

LEMMA InheritedStays ==
  ASSUME NEW pa, NEW s, NEW t, NEW b \in Nat, NEW f, NEW g, NEW l \in Nat,
         Inherited(pa, s, b, f, l),
         \A i \in b..(b + l) : t[i] = s[i], \A i \in 0..(l - 1) : g[i] = f[i]
  PROVE  Inherited(pa, t, b, g, l)
<1>1. ASSUME NEW i \in 0..(l - 1) PROVE t[b + i + 1] = ValueIn(pa, g[i], t[b + i])
  <2>1. b + i + 1 \in b..(b + l) /\ b + i \in b..(b + l)
    OBVIOUS
  <2>2. t[b + i + 1] = s[b + i + 1] /\ t[b + i] = s[b + i] /\ g[i] = f[i]
    BY <2>1
  <2>3. s[b + i + 1] = ValueIn(pa, f[i], s[b + i])
    BY DEF Inherited
  <2> QED
    BY <2>2, <2>3
<1> QED
  BY <1>1 DEF Inherited

-----------------------------------------------------------------------------
(* Each step of a call.  A copy changes nothing but itself.                 *)
LEMMA PeekKeepsOptions ==
  ASSUME OInv, NInv', pc # "rest", job = "peek",
         UNCHANGED <<kids, params, job, saved, base, lost>>, conf' = conf
  PROVE  OInv'
<1>1. Held' = Held
  BY DEF Held
<1>2. Opened'
  BY <1>1, Zenon DEF OInv, Opened
<1>3. Settled'
  BY DEF Settled, Arrived
<1>4. Strays' /\ Unstarted' /\ Current'
  BY DEF OInv, Strays, Unstarted, Current
<1>5. Marks'
  BY DEF OInv, Marks, Arrived
<1> QED
  BY <1>2, <1>3, <1>4, <1>5 DEF OInv

LEMMA StepKeepsOptions ==
  ASSUME OInv, NInv', pc # "rest", job # "peek",
         UNCHANGED <<kids, params, job, victim, base, lost>>,
         iter'.live, iter'.node \in Nodes,
         \/ Freed(kids, iter'.node)
         \/ Opens(kids, params, conf'.slots, base, lost, iter'.node, iter'.stack),
         Freed(kids, iter'.node) =>
           /\ iter'.node = iter.node
           /\ (pc' = "rest" /\ ret' = "end") \/ (pc' \in {"step", "up"} /\ dir' \in {1, -1}),
         ret' = "entry" =>
           /\ iter'.pushed
           /\ conf'.value = ValueIn(params, iter'.node, conf'.slots[base + Len(iter'.stack)]),
         ~iter'.pushed /\ iter'.node # Root => conf'.value = Last(conf'.slots),
         pc' = "down" => ~iter'.pushed
  PROVE  OInv'
<1>0. job \notin {"none", "files", "playlist"}
  BY DEF OInv, NInv, IInv, Calls
<1>1. Held' = iter'
  BY DEF Held
<1>2. Opened'
  BY <1>1, Zenon DEF Opened
<1>3. Settled'
  BY DEF Settled, Arrived
<1>4. Strays'
  <2>1. EndsSoon(iter.node)
    BY DEF OInv, Strays
  <2>2. Freed(kids, iter'.node) =>
          iter.node \in DOMAIN Contents /\ job \in {"added", "next", "filestep"}
    BY <1>0, <2>1 DEF EndsSoon
  <2>3. (Freed(kids, iter.node))' => Freed(kids, iter'.node)
    BY DEF Freed, Has
  <2>4. Freed(kids', iter'.node) =>
          /\ iter'.node \in DOMAIN Contents /\ job' \in {"added", "next", "filestep"}
          /\ (pc' = "rest" /\ ret' = "end") \/ (pc' \in {"step", "up"} /\ dir' \in {1, -1})
    BY <2>2, <2>3
  <2> QED
    BY <2>4, Zenon DEF Strays, EndsSoon
<1>5. Unstarted'
  BY NodesAssumption DEF Unstarted
<1>6. Current'
  BY DEF Current
<1>7. Marks'
  BY <1>0 DEF OInv, Marks, Arrived
<1> QED
  BY <1>2, <1>3, <1>4, <1>5, <1>6, <1>7 DEF OInv

LEMMA SideOpens ==
  ASSUME OInv, pc = "step", job # "peek", iter.node \in Nodes, ~ Freed(kids, iter.node),
         NEW m \in ToSet(Siblings(iter.node))
  PROVE  /\ m \in Nodes /\ ~ Freed(kids, m)
         /\ Opens(kids, params, LeftConf.slots, base, lost, m, iter.stack)
         /\ m # Root => LeftConf.value = Last(LeftConf.slots)
<1>1. kids \in [Nodes -> Seq(Nodes)] /\ Topped(kids) /\ OnePlace(kids)
  BY KidsTyped DEF OInv, NInv, Places
<1>2. m \in Nodes /\ (m = iter.node \/ \E p \in Groups : Has(kids, p, iter.node) /\ Has(kids, p, m))
  BY <1>1, SiblingHas
<1>3. iter.live /\ iter.node # NoNode /\ Held = iter
  BY NodesAssumption DEF OInv, NInv, IInv, Calls, Held
<1>4. base \in Nat /\ base >= 1 /\ lost \in Nat
  BY <1>3, LevelCount
<1>5. PICK f \in [Nat -> Nodes], l \in Nat :
        /\ Trail(kids, f, l, iter.node) /\ Len(iter.stack) = l + lost
        /\ Inherited(params, conf.slots, base + lost, f, l)
  BY <1>3 DEF OInv, Opened, Opens
<1>6. \A i \in (base + lost)..(base + lost + l) : LeftConf.slots[i] = conf.slots[i]
  <2>1. \A i \in 1..(base + Len(iter.stack)) : LeftConf.slots[i] = conf.slots[i]
    BY LeftSlots
  <2> QED
    BY <1>4, <1>5, <2>1
<1>7. ASSUME NEW g \in [Nat -> Nodes], Trail(kids, g, l, m), \A i \in 0..(l - 1) : g[i] = f[i]
      PROVE  Opens(kids, params, LeftConf.slots, base, lost, m, iter.stack)
  <2>1. base + lost \in Nat
    BY <1>4
  <2>2. Inherited(params, LeftConf.slots, base + lost, g, l)
    BY <1>5, <1>6, <1>7, <2>1, InheritedStays
  <2> QED
    BY <1>5, <1>7, <2>2 DEF Opens
<1>8. CASE m = iter.node
  <2>1. m # Root => LeftConf.value = Last(LeftConf.slots)
    BY <1>3, <1>8, LeftSlots
  <2> QED
    BY <1>2, <1>5, <1>7, <1>8, <2>1
<1>9. CASE m # iter.node
  <2>1. PICK p \in Groups : Has(kids, p, iter.node) /\ Has(kids, p, m)
    BY <1>2, <1>9
  <2>2. iter.node # Root
    BY <1>1, <2>1 DEF Topped
  <2>3. LeftConf.value = Last(LeftConf.slots)
    BY <1>3, <2>2, LeftSlots
  <2> DEFINE g == [f EXCEPT ![l] = m]
  <2>4. g \in [Nat -> Nodes] /\ Trail(kids, g, l, m)
    BY <1>1, <1>2, <1>5, <2>1, SiblingTrail
  <2>5. \A i \in 0..(l - 1) : g[i] = f[i]
    BY <1>5
  <2> HIDE DEF g
  <2>6. Opens(kids, params, LeftConf.slots, base, lost, m, iter.stack)
    BY <1>7, <2>4, <2>5
  <2> QED
    BY <1>2, <2>1, <2>3, <2>6 DEF Freed
<1> QED
  BY <1>8, <1>9

(* A node without a list around it has no siblings.                         *)
LEMMA TopTargets ==
  ASSUME OInv, pc = "step", iter.node \in Nodes, ParentOf(iter.node) = NoNode
  PROVE  /\ ~Left.random
         /\ dir \in {1, -1} => \A t \in Targets : t.to = NoNode /\ t.left = dir
         /\ \A d \in Int : ~ Again(d)
<1>1. kids \in [Nodes -> Seq(Nodes)] /\ iter \in Iterators /\ shuffled \subseteq Groups
  BY KidsTyped, Known DEF OInv, NInv, IInv, TypeOK
<1>2. ParentOf(iter.node) = NoNode /\ Siblings(iter.node) = <<iter.node>>
  BY DEF Siblings
<1>4. ~Left.random
  <2>1. NoNode \notin shuffled
    BY <1>1, NodesAssumption DEF Nodes
  <2>2. Left.random = (NoNode \in shuffled)
    <3>1. iter = [live |-> iter.live, node |-> iter.node, loop |-> iter.loop, file |-> iter.file,
                  pushed |-> iter.pushed, random |-> iter.random, stack |-> iter.stack]
      BY <1>1, Fields
    <3>2. Left = [iter EXCEPT !.pushed = @ /\ ~WithConfig, !.file = -1,
                              !.random = NoNode \in shuffled]
      BY <1>2, Zenon DEF Left
    <3> QED
      BY <3>1, <3>2
  <2> QED
    BY <2>1, <2>2
<1>5. ASSUME NEW t \in Targets, dir \in {1, -1} PROVE t.to = NoNode /\ t.left = dir
  <2>1. Place(iter.node) = 1
    <3>1. Place(iter.node) \in DOMAIN Siblings(iter.node)
      BY <1>1, SiblingsTyped
    <3> QED
      BY <1>2, <3>1
  <2>2. t = Walk(<<iter.node>>, 1, dir)
    BY <1>2, <1>4, <2>1 DEF Targets
  <2>3. Len(<<iter.node>>) = 1 /\ DOMAIN <<iter.node>> = 1..1
    OBVIOUS
  <2> QED
    BY <1>5, <2>2, <2>3 DEF Walk
<1>6. \A d \in Int : ~ Again(d)
  BY <1>2 DEF Again
<1> QED
  BY <1>4, <1>5, <1>6

(* A step from a freed file only comes to the end of its list.              *)
LEMMA FreedTargets ==
  ASSUME OInv, pc = "step", job # "peek", Freed(kids, iter.node)
  PROVE  /\ iter.node \in Nodes /\ ParentOf(iter.node) = NoNode /\ ~Left.random
         /\ dir \in {1, -1}
         /\ \A t \in Targets : t.to = NoNode /\ t.left = dir
         /\ \A d \in Int : ~ Again(d)
<1>1. iter.node \in Nodes /\ dir \in {1, -1}
  <2>1. job \notin {"files", "playlist"}
    BY DEF OInv, NInv, IInv, Calls
  <2>2. EndsSoon(iter.node)
    BY DEF OInv, Strays
  <2> QED
    BY <2>1, <2>2 DEF EndsSoon, Freed, Nodes
<1>2. ParentOf(iter.node) = NoNode
  <2>1. kids \in [Nodes -> Seq(Nodes)]
    BY KidsTyped DEF OInv, NInv
  <2> QED
    BY <2>1, ParentHasIt DEF Freed, Has
<1> QED
  BY <1>1, <1>2, TopTargets

(* What a step of the iterator starts from, once the entry's level is left. *)
LEMMA StepOptions ==
  ASSUME OInv, Stepping, job # "peek", iter.node # NoNode
  PROVE  /\ pc = "step" /\ ret = "none" /\ WithConfig /\ iter.node \in Nodes
         /\ UNCHANGED <<kids, params, job, victim, base, lost>>
         /\ iter.node \in ToSet(Siblings(iter.node)) /\ dir \in Int
         /\ kids \in [Nodes -> Seq(Nodes)]
         /\ Left \in Iterators /\ Left.live /\ Left.node = iter.node
         /\ Left.stack = iter.stack /\ ~Left.pushed
         /\ \/ Freed(kids, iter.node)
            \/ Opens(kids, params, LeftConf.slots, base, lost, iter.node, iter.stack)
         /\ iter.node # Root => LeftConf.value = Last(LeftConf.slots)
<1>1. /\ pc = "step" /\ ret = "none" /\ iter.node \in Nodes /\ dir \in Int
      /\ iter.node \in ToSet(Siblings(iter.node)) /\ kids \in [Nodes -> Seq(Nodes)]
  BY StepFrom DEF OInv
<1>2. UNCHANGED <<kids, params, job, victim, base, lost>> /\ WithConfig
  BY DEF Stepping, hold, WithConfig
<1>3. /\ Left \in Iterators /\ Left.live /\ Left.node = iter.node
      /\ Left.stack = iter.stack /\ ~Left.pushed
  BY <1>1, LeftTyped DEF OInv, NInv
<1>4. \/ Freed(kids, iter.node)
      \/ Opens(kids, params, LeftConf.slots, base, lost, iter.node, iter.stack)
  BY <1>1, SideOpens
<1>5. iter.node # Root => LeftConf.value = Last(LeftConf.slots)
  BY <1>1, LeftSlots
<1> QED
  BY <1>1, <1>2, <1>3, <1>4, <1>5

LEMMA StayKeepsOptions ==
  ASSUME OInv, NInv', Stepping, job # "peek", iter.node # NoNode, iter' = Left, conf' = LeftConf,
         ret' # "entry", pc' # "down",
         Freed(kids, iter.node) => pc' \in {"step", "up"} /\ dir' \in {1, -1}
  PROVE  OInv'
<1>1. /\ pc = "step" /\ iter.node \in Nodes
      /\ UNCHANGED <<kids, params, job, victim, base, lost>>
      /\ Left.live /\ Left.node = iter.node /\ Left.stack = iter.stack /\ ~Left.pushed
      /\ \/ Freed(kids, iter.node)
         \/ Opens(kids, params, LeftConf.slots, base, lost, iter.node, iter.stack)
      /\ iter.node # Root => LeftConf.value = Last(LeftConf.slots)
  BY StepOptions
<1> QED
  BY <1>1, StepKeepsOptions

(* A move to a sibling, on which the iterator may stop if it is no entry.   *)
LEMMA SideKeepsOptions ==
  ASSUME OInv, NInv', Stepping, job # "peek", iter.node # NoNode, ~ Freed(kids, iter.node),
         NEW m \in ToSet(Siblings(iter.node)), iter'.node = m, iter'.live,
         iter'.stack = iter.stack, ~iter'.pushed, conf' = LeftConf, ret' # "entry"
  PROVE  OInv'
<1>1. /\ pc = "step" /\ iter.node \in Nodes
      /\ UNCHANGED <<kids, params, job, victim, base, lost>>
  BY StepOptions
<1>2. /\ m \in Nodes /\ ~ Freed(kids, m)
      /\ Opens(kids, params, LeftConf.slots, base, lost, m, iter.stack)
      /\ m # Root => LeftConf.value = Last(LeftConf.slots)
  BY <1>1, SideOpens
<1> QED
  BY <1>1, <1>2, StepKeepsOptions

LEMMA FirstStepKeepsOptions ==
  ASSUME OInv, NInv', FirstStep, job # "peek"
  PROVE  OInv'
<1>1. /\ pc = "step" /\ UNCHANGED <<kids, params, job, victim, base, lost>> /\ iter.node = NoNode
      /\ iter' = [iter EXCEPT !.node = Root] /\ pc' = "step" /\ ret' = ret /\ conf' = conf
  BY DEF FirstStep, Stepping, Goto, hold
<1>2. ret = "none" /\ iter.live
  BY <1>1 DEF OInv, NInv, IInv, Calls
<1>3. iter.stack = <<>> /\ lost = 0
  BY <1>1, <1>2 DEF OInv, Unstarted
<1>4. Root \in Nodes /\ Root \notin Files
  BY NodesAssumption DEF Nodes
<1>5. iter'.node = Root /\ iter'.live /\ iter'.stack = <<>>
  <2>1. iter \in Iterators /\ NodeIs(iter', iter, Root)
    BY <1>1, Known DEF OInv, NInv, NodeIs
  <2> QED
    BY <1>2, <1>3, <1>4, <2>1, NodeTyped
<1>6. Opens(kids, params, conf.slots, base, 0, Root, <<>>)
  <2> DEFINE f == [i \in Nat |-> Root]
  <2>1. f \in [Nat -> Nodes] /\ Trail(kids, f, 0, Root)
    BY <1>4 DEF Trail
  <2>2. Inherited(params, conf.slots, base + 0, f, 0)
    BY DEF Inherited
  <2>3. Len(<<>>) = 0 + 0 /\ 0 \in Nat
    OBVIOUS
  <2> QED
    BY <2>1, <2>2, <2>3 DEF Opens
<1>7. ~ Freed(kids, iter'.node)
  BY <1>4, <1>5 DEF Freed
<1>8. \/ Freed(kids, iter'.node)
      \/ Opens(kids, params, conf'.slots, base, lost, iter'.node, iter'.stack)
  BY <1>1, <1>3, <1>5, <1>6
<1> QED
  BY <1>1, <1>2, <1>4, <1>5, <1>7, <1>8, StepKeepsOptions

LEMMA PassEndsKeepsOptions ==
  ASSUME OInv, NInv', PassEnds, job # "peek"
  PROVE  OInv'
<1>1. /\ Stepping /\ iter.node # NoNode /\ Left.random /\ iter' = Left /\ conf' = LeftConf
      /\ ret' \in {"end", ret} /\ pc' # "down"
  BY DEF PassEnds, Return, Goto
<1>2. ret = "none" /\ pc = "step"
  BY <1>1, StepOptions
<1>3. ~ Freed(kids, iter.node)
  BY <1>1, <1>2, FreedTargets
<1> QED
  BY <1>1, <1>2, <1>3, StayKeepsOptions

LEMMA ListEndsKeepsOptions ==
  ASSUME OInv, NInv', ListEnds, job # "peek"
  PROVE  OInv'
<1>1. PICK t \in Targets :
        /\ t.to = NoNode
        /\ IF Again(t.left)
           THEN iter' = Rewind(t.left) /\ Goto("step", 0)
           ELSE iter' = Left /\ Goto("up", t.left)
  BY Zenon DEF ListEnds
<1>2. Stepping /\ iter.node # NoNode /\ conf' = LeftConf
  BY DEF ListEnds
<1>3. /\ pc = "step" /\ ret = "none" /\ iter.node \in Nodes /\ dir \in Int /\ ~Left.pushed
      /\ kids \in [Nodes -> Seq(Nodes)]
  BY <1>2, StepOptions
<1>4. ret' = ret
  BY <1>1 DEF Goto
<1>5. t.left \in Int
  BY <1>3, TargetsNear
<1>6. CASE Again(t.left)
  <2>1. PICK d \in Int : iter' = Rewind(d) /\ Again(d)
    BY <1>1, <1>5, <1>6
  <2>2. /\ iter'.live /\ iter'.stack = iter.stack /\ iter'.pushed = Left.pushed
        /\ iter'.node \in ToSet(Siblings(iter.node))
    BY <1>2, <1>3, <2>1, RewindTyped DEF OInv, NInv
  <2>3. ~ Freed(kids, iter.node)
    BY <1>3, <2>1, FreedTargets
  <2>4. PICK m \in ToSet(Siblings(iter.node)) : iter'.node = m
    BY <2>2
  <2> QED
    BY <1>2, <1>3, <1>4, <2>2, <2>3, <2>4, SideKeepsOptions
<1>7. CASE ~Again(t.left)
  <2>1. iter' = Left /\ pc' = "up" /\ dir' = t.left
    BY <1>1, <1>7 DEF Goto
  <2>2. Freed(kids, iter.node) => t.left \in {1, -1}
    BY <1>3, FreedTargets
  <2> QED
    BY <1>2, <1>3, <1>4, <2>1, <2>2, StayKeepsOptions
<1> QED
  BY <1>6, <1>7

LEMMA GroupKeepsOptions ==
  ASSUME OInv, NInv', Group, job # "peek"
  PROVE  OInv'
<1>1. PICK t \in Targets :
        /\ t.to \in Enterable
        /\ iter' = [Left EXCEPT !.node = t.to]
        /\ IF withNodes THEN Return("node") ELSE Goto("down", t.left)
  BY Zenon DEF Group
<1>2. Stepping /\ iter.node # NoNode /\ conf' = LeftConf
  BY DEF Group
<1>3. /\ pc = "step" /\ ret = "none" /\ iter.node \in Nodes /\ dir \in Int
      /\ kids \in [Nodes -> Seq(Nodes)]
      /\ Left \in Iterators /\ Left.live /\ Left.stack = iter.stack /\ ~Left.pushed
  BY <1>2, StepOptions
<1>4. t.to \in Nodes /\ t.to # NoNode
  BY <1>1, NodesAssumption, Zenon DEF Enterable, Nodes
<1>5. t.to \in ToSet(Siblings(iter.node))
  BY <1>3, <1>4, TargetsNear
<1>6. ~ Freed(kids, iter.node)
  BY <1>3, <1>4, FreedTargets
<1>7. iter'.node = t.to /\ iter'.live /\ iter'.stack = iter.stack /\ ~iter'.pushed
  <2>1. NodeIs(iter', Left, t.to)
    BY <1>1, Zenon DEF NodeIs
  <2>2. PICK n \in Nodes : n = t.to /\ NodeIs(iter', Left, n)
    BY <1>4, <2>1
  <2> QED
    BY <1>3, <2>2, NodeTyped
<1>8. ret' # "entry"
  BY <1>1, <1>3 DEF Return, Goto
<1> QED
  BY <1>2, <1>5, <1>6, <1>7, <1>8, SideKeepsOptions

LEMMA InvalidKeepsOptions ==
  ASSUME OInv, NInv', Invalid, job # "peek"
  PROVE  OInv'
<1>1. PICK t \in Targets :
        /\ t.to \in Nodes \ Valid
        /\ iter' = Left
        /\ IF t.left = 0 THEN Return("error") ELSE Goto("step", t.left)
  BY Zenon DEF Invalid
<1>2. Stepping /\ iter.node # NoNode /\ conf' = LeftConf
  BY DEF Invalid
<1>3. pc = "step" /\ ret = "none"
  BY <1>2, StepOptions
<1>4. ret' # "entry" /\ pc' # "down"
  BY <1>1, <1>3 DEF Return, Goto
<1>5. ~ Freed(kids, iter.node)
  BY <1>1, <1>3, FreedTargets, NodesAssumption
<1> QED
  BY <1>1, <1>2, <1>4, <1>5, StayKeepsOptions

(* A level that is opened leaves those below as they are.                   *)
Pushable(c, n, b, f, l) ==
  /\ c \in Config /\ c.slots # <<>> /\ params \in [Nodes -> Values \cup {Unset}]
  /\ n \in Nodes /\ b \in Nat /\ b >= 1 /\ l \in Nat
  /\ Len(c.slots) = b + l /\ Inherited(params, c.slots, b, f, l)
  /\ l >= 1 => c.value = Last(c.slots)

IsPushed(c, n, r, b, f, l) ==
  /\ Inherited(params, r.slots, b, f, l)
  /\ r.slots[b + l] = c.value /\ Len(r.slots) = b + l + 1
  /\ r.slots[b + l + 1] = ValueIn(params, n, c.value)
  /\ r.value = ValueIn(params, n, c.value) /\ r.value = Last(r.slots)

LEMMA PushedLevel ==
  ASSUME NEW c, NEW n, NEW b, NEW f, NEW l, Pushable(c, n, b, f, l)
  PROVE  IsPushed(c, n, PushParams(c, n), b, f, l)
<1> DEFINE L == Len(c.slots)
<1> USE DEF Pushable
<1> SUFFICES ASSUME NEW r, r = PushParams(c, n) PROVE IsPushed(c, n, r, b, f, l)
  OBVIOUS
<1> USE DEF IsPushed
<1>0. /\ r \in Config /\ Len(r.slots) = L + 1
      /\ \A i \in 1..(L - 1) : r.slots[i] = c.slots[i]
      /\ r.slots[L] = c.value
      /\ r.slots[L + 1] = ValueIn(params, n, c.value)
      /\ r.value = ValueIn(params, n, c.value)
  <2>1. /\ PushParams(c, n) \in Config /\ Len(PushParams(c, n).slots) = L + 1
        /\ \A i \in 1..(L - 1) : PushParams(c, n).slots[i] = c.slots[i]
        /\ PushParams(c, n).slots[L] = c.value
        /\ PushParams(c, n).slots[L + 1] = ValueIn(params, n, c.value)
        /\ PushParams(c, n).value = ValueIn(params, n, c.value)
    BY PushParamsSlots, Zenon
  <2> QED
    BY <2>1
<1>1. /\ r \in Config /\ Len(r.slots) = b + l + 1
      /\ \A i \in 1..(b + l - 1) : r.slots[i] = c.slots[i]
      /\ r.slots[b + l] = c.value
      /\ r.slots[b + l + 1] = ValueIn(params, n, c.value)
      /\ r.value = ValueIn(params, n, c.value)
  BY <1>0
<1>2. l >= 1 => c.slots[b + l] = c.value
  BY DEF Last
<1>3. CASE l = 0
  <2>1. Inherited(params, r.slots, b, f, l)
    BY <1>3 DEF Inherited
  <2> QED
    BY <1>1, <2>1 DEF Last
<1>4. CASE l >= 1
  <2>1. \A i \in b..(b + l) : r.slots[i] = c.slots[i]
    BY <1>1, <1>2, <1>4
  <2>2. Inherited(params, r.slots, b, f, l)
    BY <2>1, InheritedStays
  <2> QED
    BY <1>1, <2>2 DEF Last
<1> QED
  BY <1>3, <1>4

LEMMA EntryKeepsOptions ==
  ASSUME OInv, NInv', Entry, job # "peek"
  PROVE  OInv'
<1>1. PICK t \in Targets :
        /\ t.to \in Valid \ Enterable
        /\ iter' = [Left EXCEPT !.node = t.to, !.pushed = @ \/ WithConfig]
        /\ conf' = IF WithConfig THEN PushParams(LeftConf, t.to) ELSE LeftConf
        /\ Return(IF t.to \in Files THEN "entry" ELSE "crash")
  BY Zenon DEF Entry
<1>2. Stepping /\ iter.node # NoNode
  BY DEF Entry
<1>3. /\ pc = "step" /\ iter.node \in Nodes /\ dir \in Int /\ WithConfig
      /\ UNCHANGED <<kids, params, job, victim, base, lost>>
      /\ kids \in [Nodes -> Seq(Nodes)]
      /\ Left \in Iterators /\ Left.live /\ Left.stack = iter.stack
  BY <1>2, StepOptions
<1>4. t.to \in Nodes /\ t.to # NoNode
  BY <1>1, NodesAssumption DEF Valid
<1>5. PICK m \in Nodes : m = t.to
  BY <1>4
<1>6. m \in ToSet(Siblings(iter.node))
  BY <1>3, <1>4, <1>5, TargetsNear
<1>7. ~ Freed(kids, iter.node)
  BY <1>3, <1>4, FreedTargets
<1>8. /\ ~ Freed(kids, m)
      /\ Opens(kids, params, LeftConf.slots, base, lost, m, iter.stack)
      /\ m # Root => LeftConf.value = Last(LeftConf.slots)
  BY <1>3, <1>6, <1>7, SideOpens
<1>9. iter'.node = m /\ iter'.live /\ iter'.stack = iter.stack /\ iter'.pushed
  <2>1. EnteredIs(iter', Left, m)
    BY <1>1, <1>5, Zenon DEF EnteredIs
  <2> QED
    BY <1>3, <2>1, EnteredTyped
<1>10. /\ LeftConf \in Config /\ LeftConf.slots # <<>> /\ base \in Nat /\ base >= 1
       /\ lost \in Nat /\ params \in [Nodes -> Values \cup {Unset}]
       /\ Len(LeftConf.slots) = base + Len(iter.stack) /\ Topped(kids)
  BY <1>3, LeftTyped, KidsTyped DEF OInv, NInv, IInv, TypeOK, Balanced
<1>11. PICK f \in [Nat -> Nodes], l \in Nat :
         /\ Trail(kids, f, l, m) /\ Len(iter.stack) = l + lost
         /\ Inherited(params, LeftConf.slots, base + lost, f, l)
  BY <1>8 DEF Opens
<1>12. l >= 1 => m # Root
  <2> SUFFICES ASSUME l >= 1 PROVE m # Root
    OBVIOUS
  <2>1. l - 1 \in 0..(l - 1) /\ (l - 1) + 1 = l
    OBVIOUS
  <2>2. f[l - 1] \in Groups /\ Has(kids, f[l - 1], m)
    BY <1>11, <2>1 DEF Trail
  <2> QED
    BY <1>10, <2>2 DEF Topped
<1>13. PICK b \in Nat : b = base + lost /\ b >= 1 /\ Len(LeftConf.slots) = b + l
                        /\ b + l = base + Len(iter.stack)
  BY <1>10, <1>11
<1>14. conf' = PushParams(LeftConf, m)
  BY <1>1, <1>3, <1>5
<1>15. /\ Inherited(params, conf'.slots, b, f, l)
       /\ conf'.slots[b + l] = LeftConf.value
       /\ conf'.value = ValueIn(params, m, LeftConf.value)
  <2>1. PICK c \in Config : c = LeftConf
    BY <1>10
  <2>2. /\ c.slots # <<>> /\ Len(c.slots) = b + l /\ Inherited(params, c.slots, b, f, l)
        /\ l >= 1 => c.value = Last(c.slots)
    BY <1>8, <1>11, <1>12, <1>13, <2>1, <1>10
  <2>3. PICK r : r = PushParams(c, m)
    OBVIOUS
  <2>4. b \in Nat /\ b >= 1 /\ params \in [Nodes -> Values \cup {Unset}]
    BY <1>10, <1>13
  <2>5. /\ Inherited(params, r.slots, b, f, l)
        /\ r.slots[b + l] = c.value
        /\ r.value = ValueIn(params, m, c.value)
    <3>1. Pushable(c, m, b, f, l)
      BY <2>2, <2>4 DEF Pushable
    <3>2. IsPushed(c, m, PushParams(c, m), b, f, l)
      BY <3>1, PushedLevel
    <3>3. IsPushed(c, m, r, b, f, l)
      BY <2>3, <3>2
    <3> QED
      BY <3>3 DEF IsPushed
  <2>6. conf' = r
    BY <1>14, <2>1, <2>3
  <2> QED
    BY <2>1, <2>5, <2>6
<1>16. Opens(kids, params, conf'.slots, base, lost, iter'.node, iter'.stack)
  BY <1>9, <1>11, <1>13, <1>15 DEF Opens
<1>17. conf'.value = ValueIn(params, iter'.node, conf'.slots[base + Len(iter'.stack)])
  BY <1>9, <1>13, <1>15
<1>18. pc' # "down"
  BY <1>1 DEF Return
<1> QED
  BY <1>3, <1>8, <1>9, <1>16, <1>17, <1>18, StepKeepsOptions

(* A step up closes the level of a group.                                   *)
LEMMA UpKeepsOptions ==
  ASSUME OInv, NInv', Up, job # "peek"
  PROVE  OInv'
<1>1. /\ pc = "up" /\ UNCHANGED <<kids, params, job, victim, base, lost>>
  BY DEF Up, hold, history
<1>2. ret = "none" /\ iter \in Iterators /\ iter.live /\ WithConfig /\ Held = iter
      /\ kids \in [Nodes -> Seq(Nodes)] /\ Topped(kids) /\ OnePlace(kids)
  BY <1>1, Known, KidsTyped DEF OInv, NInv, IInv, Calls, Places, WithConfig, Held
<1>3. iter.node \in Nodes
  <2>1. iter.node # NoNode
    BY <1>1, <1>2 DEF OInv, Unstarted
  <2> QED
    BY <1>2, <2>1, Fields
<1>4. CASE ParentOf(iter.node) = NoNode
  <2>1. FileIs(iter', iter, -1) /\ pc' = "rest" /\ ret' = "end" /\ conf' = conf
    BY <1>4 DEF Up, FileIs, Return
  <2>2. /\ iter'.node = iter.node /\ iter'.live /\ iter'.stack = iter.stack
        /\ iter'.pushed = iter.pushed
    BY <1>2, <2>1, FileTyped
  <2>3. \/ Freed(kids, iter.node)
        \/ Opens(kids, params, conf.slots, base, lost, iter.node, iter.stack)
    BY <1>2, <1>3, NodesAssumption DEF OInv, Opened
  <2>4. ~iter.pushed /\ iter.node # Root => conf.value = Last(conf.slots)
    BY <1>2, <1>3, NodesAssumption DEF OInv, Current
  <2> QED
    BY <1>1, <1>3, <2>1, <2>2, <2>3, <2>4, StepKeepsOptions
<1>5. CASE ParentOf(iter.node) # NoNode
  <2>1. PICK p \in Groups : p = ParentOf(iter.node) /\ Has(kids, p, iter.node)
    BY <1>2, <1>5, ParentHasIt DEF Has
  <2>2. ~ Freed(kids, iter.node) /\ p \in Nodes /\ ~ Freed(kids, p)
    BY <2>1, NodesAssumption DEF Freed, Nodes
  <2>3. PICK f \in [Nat -> Nodes], l \in Nat :
          /\ Trail(kids, f, l, iter.node) /\ Len(iter.stack) = l + lost
          /\ Inherited(params, conf.slots, base + lost, f, l)
    BY <1>2, <1>3, <2>2, NodesAssumption DEF OInv, Opened, Opens
  <2>4. l >= 1 /\ Trail(kids, f, l - 1, p)
    BY <1>2, <1>3, <2>1, <2>3, ParentTrail
  <2>5. /\ iter'.live /\ iter'.node = p /\ iter'.stack = Front(iter.stack)
        /\ Len(iter'.stack) = Len(iter.stack) - 1 /\ iter'.pushed = iter.pushed
    BY <1>2, <1>5, <2>1, UpMoves DEF OInv, NInv
  <2>6. conf' = Pop(conf) /\ pc' = "step" /\ ret' = ret
    BY <1>2, <1>5 DEF Up, Goto
  <2>7. /\ conf \in Config /\ base \in Nat /\ base >= 1 /\ lost \in Nat
        /\ Len(conf.slots) \in {base + Len(iter.stack), base + Len(iter.stack) + 1}
        /\ Len(iter.stack) \in Nat
    BY <1>2, LevelCount
  <2>8. Len(conf.slots) >= 2
    BY <2>3, <2>4, <2>7
  <2>9. /\ \A i \in 1..(Len(conf.slots) - 1) : conf'.slots[i] = conf.slots[i]
        /\ conf'.value = Last(conf'.slots)
    BY <2>6, <2>7, <2>8, PopSlots
  <2>10. PICK j \in Nat : j = l - 1
    BY <2>4
  <2>11. PICK b \in Nat : b = base + lost /\ b >= 1
    BY <2>7
  <2>12. \A i \in b..(b + j) : conf'.slots[i] = conf.slots[i]
    <3>1. \A i \in b..(b + j) : i \in 1..(Len(conf.slots) - 1)
      BY <2>3, <2>7, <2>10, <2>11
    <3> QED
      BY <2>9, <3>1
  <2>13. Inherited(params, conf.slots, b, f, j)
    BY <2>3, <2>10, <2>11 DEF Inherited
  <2>14. Inherited(params, conf'.slots, b, f, j)
    BY <2>12, <2>13, InheritedStays
  <2>15. Len(iter'.stack) = j + lost /\ Trail(kids, f, j, p)
    BY <2>3, <2>4, <2>5, <2>7, <2>10
  <2>16. Opens(kids, params, conf'.slots, base, lost, iter'.node, iter'.stack)
    BY <2>5, <2>11, <2>14, <2>15 DEF Opens
  <2> QED
    BY <1>1, <1>2, <2>2, <2>5, <2>6, <2>9, <2>16, StepKeepsOptions
<1> QED
  BY <1>4, <1>5

(* A step down opens one.                                                   *)
LEMMA DownKeepsOptions ==
  ASSUME OInv, NInv', Down, job # "peek"
  PROVE  OInv'
<1>1. /\ pc = "down" /\ UNCHANGED <<kids, params, job, victim, base, lost>>
      /\ pc' = "step" /\ ret' = ret
  BY DEF Down, hold, history, Goto, tree
<1>2. /\ ret = "none" /\ iter.live /\ WithConfig /\ Held = iter /\ ~iter.pushed
      /\ kids \in [Nodes -> Seq(Nodes)] /\ Topped(kids)
      /\ params \in [Nodes -> Values \cup {Unset}]
  BY <1>1, KidsTyped DEF OInv, NInv, IInv, TypeOK, Calls, WithConfig, Held, Marks
<1>3. conf' = PushParams(conf, iter.node)
  BY <1>2 DEF Down
<1>4. /\ iter.node \in Groups /\ kids[iter.node] # <<>> /\ iter'.live
      /\ iter'.node \in {Head(kids[iter.node]), Last(kids[iter.node])}
      /\ iter'.stack = Append(iter.stack, iter.loop) /\ ~iter'.pushed
  BY <1>2, DownMoves DEF OInv, NInv
<1>5. PICK p \in Groups : p = iter.node
  BY <1>4
<1>6. PICK n \in Nodes : n = iter'.node /\ Has(kids, p, n)
  BY <1>2, <1>4, <1>5, ChildHas
<1>7. p \in Nodes /\ p # NoNode /\ ~ Freed(kids, p) /\ ~ Freed(kids, n)
  BY <1>6, NodesAssumption DEF Freed, Nodes
<1>8. PICK f \in [Nat -> Nodes], l \in Nat :
        /\ Trail(kids, f, l, p) /\ Len(iter.stack) = l + lost
        /\ Inherited(params, conf.slots, base + lost, f, l)
  BY <1>2, <1>5, <1>7 DEF OInv, Opened, Opens
<1>9. /\ conf \in Config /\ conf.slots # <<>> /\ base \in Nat /\ base >= 1 /\ lost \in Nat
      /\ Len(conf.slots) = base + Len(iter.stack) /\ Len(iter.stack) \in Nat
      /\ iter.stack \in Seq(Int)
  BY <1>2, LevelCount
<1>10. Len(iter'.stack) = Len(iter.stack) + 1
  <2>1. iter \in Iterators
    BY Known DEF OInv, NInv, IInv
  <2> QED
    BY <1>4, <1>9, <2>1, Fields
<1>11. l >= 1 => conf.value = Last(conf.slots)
  <2> SUFFICES ASSUME l >= 1 PROVE conf.value = Last(conf.slots)
    OBVIOUS
  <2>1. l - 1 \in 0..(l - 1) /\ (l - 1) + 1 = l
    OBVIOUS
  <2>2. f[l - 1] \in Groups /\ Has(kids, f[l - 1], p)
    BY <1>8, <2>1 DEF Trail
  <2>3. p # Root
    BY <1>2, <2>2 DEF Topped
  <2> QED
    BY <1>2, <1>5, <1>7, <2>3 DEF OInv, Current
<1>12. PICK b \in Nat : b = base + lost /\ b >= 1 /\ Len(conf.slots) = b + l
  BY <1>8, <1>9
<1>13. /\ Inherited(params, conf'.slots, b, f, l)
       /\ conf'.slots[b + l] = conf.value
       /\ conf'.slots[b + l + 1] = ValueIn(params, p, conf.value)
       /\ conf'.value = Last(conf'.slots)
  <2>1. Inherited(params, conf.slots, b, f, l)
    BY <1>8, <1>12
  <2>2. PICK r : r = PushParams(conf, p)
    OBVIOUS
  <2>3. PICK c \in Config : c = conf
    BY <1>9
  <2>4. /\ c.slots # <<>> /\ params \in [Nodes -> Values \cup {Unset}]
        /\ p \in Nodes /\ b >= 1 /\ Len(c.slots) = b + l
    BY <1>2, <1>7, <1>9, <1>12, <2>3
  <2>5. Inherited(params, c.slots, b, f, l) /\ (l >= 1 => c.value = Last(c.slots))
        /\ r = PushParams(c, p)
    BY <1>11, <2>1, <2>2, <2>3
  <2>6. /\ Inherited(params, r.slots, b, f, l)
        /\ r.slots[b + l] = c.value
        /\ r.slots[b + l + 1] = ValueIn(params, p, c.value)
        /\ r.value = Last(r.slots)
    <3>1. Pushable(c, p, b, f, l)
      BY <1>12, <2>4, <2>5 DEF Pushable
    <3>2. IsPushed(c, p, PushParams(c, p), b, f, l)
      BY <3>1, PushedLevel
    <3>3. IsPushed(c, p, r, b, f, l)
      BY <2>2, <2>5, <3>2
    <3> QED
      BY <3>3 DEF IsPushed
  <2>7. conf' = r
    BY <1>3, <1>5, <2>2
  <2> QED
    BY <2>3, <2>6, <2>7
<1> DEFINE g == [f EXCEPT ![l + 1] = n]
<1>14. g \in [Nat -> Nodes] /\ Trail(kids, g, l + 1, n)
  BY <1>6, <1>8, ChildTrail
<1>15. f[l] = p /\ g[l] = p /\ \A i \in 0..(l - 1) : g[i] = f[i]
  BY <1>8 DEF Trail
<1> HIDE DEF g
<1>16. Inherited(params, conf'.slots, b, g, l)
  BY <1>13, <1>15, InheritedStays
<1>17. ASSUME NEW i \in 0..l
       PROVE  conf'.slots[b + i + 1] = ValueIn(params, g[i], conf'.slots[b + i])
  <2>1. CASE i = l
    BY <1>13, <1>15, <2>1
  <2>2. CASE i # l
    <3>1. i \in 0..(l - 1)
      BY <2>2
    <3> QED
      BY <1>16, <3>1 DEF Inherited
  <2> QED
    BY <2>1, <2>2
<1>18. Inherited(params, conf'.slots, b, g, l + 1)
  <2>1. (l + 1) - 1 = l
    OBVIOUS
  <2> QED
    BY <1>17, <2>1 DEF Inherited
<1>19. Len(iter'.stack) = (l + 1) + lost /\ l + 1 \in Nat
  BY <1>8, <1>9, <1>10
<1>20. Opens(kids, params, conf'.slots, base, lost, iter'.node, iter'.stack)
  BY <1>6, <1>12, <1>14, <1>18, <1>19 DEF Opens
<1> QED
  BY <1>1, <1>2, <1>4, <1>6, <1>7, <1>13, <1>20, StepKeepsOptions

LEMMA IterateKeepsOptions ==
  ASSUME OInv, NInv', Iterate
  PROVE  OInv'
<1>1. CASE job # "peek"
  BY <1>1, FirstStepKeepsOptions, PassEndsKeepsOptions, ListEndsKeepsOptions, GroupKeepsOptions,
     InvalidKeepsOptions, EntryKeepsOptions, UpKeepsOptions, DownKeepsOptions, Zenon DEF Iterate
<1>2. CASE job = "peek"
  <2>1. ~WithConfig /\ LeftConf = conf
    BY <1>2 DEF WithConfig, LeftConf
  <2>2. CASE Stepping
    <3>1. pc # "rest" /\ UNCHANGED <<kids, params, job, saved, base, lost>>
      BY <2>2 DEF Stepping, hold
    <3>2. conf' = conf
      BY <2>1, <2>2, Zenon
      DEF Iterate, FirstStep, PassEnds, ListEnds, Group, Invalid, Entry, Up, Down,
         Stepping
    <3> QED
      BY <1>2, <3>1, <3>2, PeekKeepsOptions
  <2>3. CASE Up
    <3>1. pc # "rest" /\ UNCHANGED <<kids, params, job, saved, base, lost>> /\ conf' = conf
      BY <2>1, <2>3 DEF Up, hold, history
    <3> QED
      BY <1>2, <3>1, PeekKeepsOptions
  <2>4. CASE Down
    <3>1. pc # "rest" /\ UNCHANGED <<kids, params, job, saved, base, lost>> /\ conf' = conf
      BY <2>1, <2>4 DEF Down, hold, history, tree
    <3> QED
      BY <1>2, <3>1, PeekKeepsOptions
  <2> QED
    BY <2>2, <2>3, <2>4, Zenon DEF Iterate, FirstStep, PassEnds, ListEnds, Group, Invalid, Entry
<1> QED
  BY <1>1, <1>2

-----------------------------------------------------------------------------
(* The steps of the main loop.                                              *)
LEMMA LoopKeepsOptions ==
  ASSUME OInv, NInv', pc = "rest", job # "peek", job' # "peek",
         UNCHANGED <<kids, params, conf, base, lost>>,
         iter'.live = iter.live, iter'.node = iter.node, iter'.stack = iter.stack,
         iter'.pushed = iter.pushed, pc' # "down", ~ Arrived',
         job' \in {"none", "files", "playlist"} => iter.pushed,
         job' = "none" => iter.node \notin DOMAIN Contents,
         job' \in {"added", "unlooped"} => victim' \in DOMAIN Contents,
         Freed(kids, iter.node) =>
           \/ job' \in {"files", "playlist"}
           \/ job' \in {"added", "next", "filestep"} /\ pc' \in {"step", "up"} /\ dir' \in {1, -1}
  PROVE  OInv'
<1>1. Held = iter /\ Held' = iter'
  BY DEF Held
<1>2. Opened'
  BY <1>1 DEF OInv, Opened
<1>3. Settled'
  BY DEF Settled
<1>4. Strays'
  <2>1. EndsSoon(iter.node)
    BY DEF OInv, Strays
  <2>2. (Freed(kids, iter.node))' => Freed(kids, iter.node)
    BY DEF Freed, Has
  <2> QED
    BY <2>1, <2>2 DEF Strays, EndsSoon
<1>5. Unstarted'
  BY DEF OInv, Unstarted
<1>6. Current'
  BY DEF OInv, Current
<1>7. Marks'
  BY DEF Marks
<1> QED
  BY <1>2, <1>3, <1>4, <1>5, <1>6, <1>7 DEF OInv

(* The iterator that is called, or keeps still, is the same.                *)
LEMMA SameKeepsOptions ==
  ASSUME OInv, NInv', pc = "rest", job # "peek", job' # "peek",
         UNCHANGED <<kids, params, conf, base, lost, iter>>, pc' # "down", ~ Arrived',
         job' \in {"none", "files", "playlist"} => iter.pushed,
         job' = "none" => iter.node \notin DOMAIN Contents,
         job' \in {"added", "unlooped"} => victim' \in DOMAIN Contents,
         Freed(kids, iter.node) =>
           \/ job' \in {"files", "playlist"}
           \/ job' \in {"added", "next", "filestep"} /\ pc' \in {"step", "up"} /\ dir' \in {1, -1}
  PROVE  OInv'
BY LoopKeepsOptions

(* At rest only a search from a freed file is not over.                     *)
LEMMA FreedAtRest ==
  ASSUME OInv, pc = "rest", job # "peek", Freed(kids, iter.node)
  PROVE  /\ iter.node \in DOMAIN Contents
         /\ \/ job \in {"files", "playlist"}
            \/ job \in {"added", "next", "filestep"} /\ ret = "end"
BY DEF OInv, Strays, EndsSoon

LEMMA FreeKeepsOptions ==
  ASSUME OInv, NInv', Free, pc = "rest", NoCall
  PROVE  OInv'
<1>1. iter' = NoIter /\ job' = "none" /\ pc' = "rest"
  BY DEF Free, NoCall, call
<1>2. ~iter'.live /\ iter'.node = NoNode
  BY <1>1, NoIterTyped
<1>3. Opened'
  BY <1>1, <1>2 DEF Opened, Held
<1>4. Settled'
  BY <1>1 DEF Settled, Arrived
<1>5. Strays'
  <2>1. ~ (Freed(kids, iter.node))'
    BY <1>2, NodesAssumption DEF Freed, Nodes
  <2> QED
    BY <1>1, <2>1 DEF Strays, EndsSoon
<1>6. Unstarted' /\ Current'
  BY <1>2 DEF Unstarted, Current
<1>7. Marks'
  BY <1>1, <1>2 DEF Marks, Arrived
<1> QED
  BY <1>3, <1>4, <1>5, <1>6, <1>7 DEF OInv

LEMMA PlayKeepsOptions ==
  ASSUME OInv, NInv', NEW d \in Int, Play(d), pc = "rest", job # "peek", iter.pushed, NoCall,
         UNCHANGED <<kids, params, conf, base, lost>>
  PROVE  OInv'
<1>1. iter \in Iterators /\ iter' = [iter EXCEPT !.file = NextFile(d)] /\ pc' = "rest"
      /\ job' = IF iter.node \in DOMAIN Contents THEN "playlist" ELSE "none"
  BY Known DEF OInv, NInv, Play, NoCall, call
<1>2. /\ iter'.live = iter.live /\ iter'.node = iter.node /\ iter'.stack = iter.stack
      /\ iter'.pushed = iter.pushed
  <2>1. PICK x : iter' = [iter EXCEPT !.file = x]
    BY <1>1
  <2>2. iter = [live |-> iter.live, node |-> iter.node, loop |-> iter.loop, file |-> iter.file,
                pushed |-> iter.pushed, random |-> iter.random, stack |-> iter.stack]
    BY <1>1, Fields
  <2>3. iter' = [live |-> iter.live, node |-> iter.node, loop |-> iter.loop, file |-> x,
                 pushed |-> iter.pushed, random |-> iter.random, stack |-> iter.stack]
    BY <2>1, <2>2
  <2> QED
    BY <2>3, Zenon
<1>3. ~ Arrived'
  BY <1>1 DEF Arrived
<1>4. Freed(kids, iter.node) => job' = "playlist"
  BY <1>1, FreedAtRest
<1>5. job' = "none" => iter.node \notin DOMAIN Contents
  BY <1>1
<1>6. job' \in {"none", "playlist"}
  BY <1>1
<1> QED
  BY <1>1, <1>2, <1>3, <1>4, <1>5, <1>6, LoopKeepsOptions

LEMMA ArrivedPushed ==
  ASSUME OInv, pc = "rest", ret = "entry",
         job \in {"start", "next", "filestep", "head", "added", "unlooped"}
  PROVE  iter.pushed /\ ~ Freed(kids, iter.node)
<1>1. Arrived /\ job # "peek"
  BY DEF Arrived
<1> QED
  BY <1>1, FreedAtRest DEF OInv, Marks

LEMMA PlayingKnown ==
  ASSUME OInv, Playing
  PROVE  /\ pc = "rest" /\ job = "none" /\ iter.live /\ iter.pushed
         /\ iter.node \in Nodes /\ iter.node \notin DOMAIN Contents /\ ~ Freed(kids, iter.node)
<1>1. pc = "rest" /\ job = "none" /\ iter.live
  BY DEF Playing, Returned
<1> QED
  BY <1>1, FreedAtRest DEF OInv, Marks, NInv, IInv, Calls, Nodes

LEMMA MoveKeepsOptions ==
  ASSUME OInv, NInv', NEW where \in {"step", "up"}, NEW n, NEW force, Move(where, n, force)
  PROVE  OInv'
<1>1. /\ pc = "rest" /\ job = "none" /\ iter.live /\ iter.pushed
      /\ iter.node \in Nodes /\ iter.node \notin DOMAIN Contents /\ ~ Freed(kids, iter.node)
  BY PlayingKnown DEF Move
<1>2. /\ UNCHANGED <<kids, params, iter, conf, base, lost>> /\ pc' = where /\ ret' = "none"
      /\ job' \in {"next", "peek"}
      /\ job' = "peek" => saved' = iter
  BY DEF Move, Leave, Call, tree
<1>3. ~ Arrived'
  BY <1>2 DEF Arrived
<1>4. CASE job' = "next"
  BY <1>1, <1>2, <1>3, <1>4, SameKeepsOptions
<1>5. CASE job' = "peek"
  <2>1. Held = iter /\ Held' = iter /\ saved' = iter
    BY <1>1, <1>2, <1>5 DEF Held
  <2>2. Opened'
    BY <1>2, <2>1 DEF OInv, Opened
  <2>3. Settled'
    BY <1>3 DEF Settled
  <2>4. Strays'
    BY <1>1, <1>2, <1>5, <2>1 DEF Strays, Freed, Has
  <2>5. Unstarted' /\ Current'
    BY <1>5 DEF Unstarted, Current
  <2>6. Marks'
    BY <1>1, <1>3, <1>5, <2>1 DEF Marks
  <2> QED
    BY <2>2, <2>3, <2>4, <2>5, <2>6 DEF OInv
<1> QED
  BY <1>2, <1>4, <1>5

LEMMA PeekedKeepsOptions ==
  ASSUME OInv, NInv', Peeked
  PROVE  OInv'
<1>1. /\ pc = "rest" /\ job = "peek" /\ iter' = saved /\ job' \in {"next", "none"}
      /\ UNCHANGED <<kids, params, conf, base, lost>>
      /\ \/ pc' = wanted.at /\ ret' = "none"
         \/ pc' = pc /\ ret' = ret /\ job' = "none"
  BY DEF Peeked, Returned, Call, NoCall, call, tree
<1>2. saved.live /\ saved.node \in Nodes /\ saved.pushed /\ saved.node \notin DOMAIN Contents
      /\ ~ Freed(kids, saved.node) /\ wanted.at \in {"step", "up"}
  <2>1. wanted \in [at : {"step", "up"}, d : Int]
    BY Known DEF OInv, NInv
  <2> QED
    BY <1>1, <2>1 DEF OInv, NInv, IInv, Calls, Marks, Strays, Nodes
<1>3. pc' # "down" /\ ~ Arrived'
  BY <1>1, <1>2 DEF Arrived
<1>4. Held = saved /\ Held' = saved
  BY <1>1 DEF Held
<1>5. Opened'
  BY <1>1, <1>4 DEF OInv, Opened
<1>6. Settled'
  BY <1>3 DEF Settled
<1>7. Strays'
  BY <1>1, <1>2 DEF Strays, EndsSoon, Freed, Has
<1>8. Unstarted' /\ Current'
  BY <1>1, <1>2, NodesAssumption DEF Unstarted, Current
<1>9. Marks'
  BY <1>1, <1>2, <1>3 DEF Marks
<1> QED
  BY <1>5, <1>6, <1>7, <1>8, <1>9 DEF OInv

LEMMA SetOptionKeepsOptions ==
  ASSUME OInv, NInv', NEW v \in Values, SetOption(v)
  PROVE  OInv'
<1>1. /\ UNCHANGED <<kids, params, iter, base, lost, pc, dir, ret, job, saved, victim>>
      /\ pc = "rest" /\ job = "none" /\ conf' = [conf EXCEPT !.value = v]
  BY DEF SetOption, Returned, tree, call, hold, history
<1>2. conf'.slots = conf.slots
  <2>1. conf \in [slots : Seq(Values), value : Values]
    BY DEF OInv, NInv, IInv, TypeOK
  <2> QED
    BY <1>1, <2>1
<1>3. Held = iter /\ Held' = iter
  BY <1>1 DEF Held
<1>4. Opened'
  BY <1>1, <1>2, <1>3 DEF OInv, Opened
<1>5. Settled'
  BY <1>1 DEF Settled, Arrived
<1>6. Strays'
  BY <1>1, FreedAtRest DEF Strays, EndsSoon, Freed, Has
<1>7. Unstarted' /\ Current'
  BY <1>1 DEF OInv, Unstarted, Current, Marks
<1>8. Marks'
  BY <1>1 DEF OInv, Marks, Arrived
<1> QED
  BY <1>4, <1>5, <1>6, <1>7, <1>8 DEF OInv

LEMMA RestfulKeepsOptions ==
  ASSUME OInv, NInv', Restful
  PROVE  OInv'
<1>0. eof \in {-1, 1} /\ eof \in Int /\ 1 \in Int
  BY Known DEF OInv, NInv
<1>1. CASE Started
  <2>1. /\ pc = "rest" /\ job = "start" /\ UNCHANGED <<kids, params, conf>> /\ NoCall
        /\ IF ret = "entry" THEN Play(1) /\ UNCHANGED <<base, lost>> ELSE Free
    BY <1>1 DEF Started, Returned, tree
  <2>2. CASE ret = "entry"
    BY <1>0, <2>1, <2>2, ArrivedPushed, PlayKeepsOptions
  <2>3. CASE ret # "entry"
    BY <2>1, <2>3, FreeKeepsOptions
  <2> QED
    BY <2>2, <2>3
<1>2. CASE NextDone
  <2>1. pc = "rest" /\ job = "next" /\ UNCHANGED <<kids, params, conf>> /\ NoCall
    BY <1>2 DEF NextDone, Returned, tree
  <2>2. CASE ret = "entry"
    <3>1. UNCHANGED <<iter, base, lost>> /\ job' = "files" /\ pc' = "rest"
      BY <1>2, <2>1, <2>2 DEF NextDone, NextSource, history, NoCall, call
    <3>2. ~ Arrived'
      BY <3>1 DEF Arrived
    <3> QED
      BY <2>1, <2>2, <3>1, <3>2, ArrivedPushed, SameKeepsOptions
  <2>3. CASE ret # "entry"
    BY <1>2, <2>1, <2>3, FreeKeepsOptions DEF NextDone
  <2> QED
    BY <2>2, <2>3
<1>3. CASE FindFile
  <2>1. /\ pc = "rest" /\ job = "files" /\ UNCHANGED <<kids, params, conf, base, lost>>
        /\ \/ Play(eof) /\ NoCall
           \/ Call("step", eof, FALSE, "filestep") /\ UNCHANGED iter
    BY <1>3 DEF FindFile, Returned, tree, history
  <2>2. iter.pushed
    BY <2>1 DEF OInv, Marks, NInv, IInv, Calls
  <2>3. CASE Play(eof) /\ NoCall
    BY <1>0, <2>1, <2>2, <2>3, PlayKeepsOptions
  <2>4. CASE Call("step", eof, FALSE, "filestep") /\ UNCHANGED iter
    <3>1. pc' = "step" /\ dir' = eof /\ job' = "filestep" /\ iter' = iter
      BY <2>4 DEF Call
    <3>2. ~ Arrived'
      BY <3>1 DEF Arrived
    <3> QED
      BY <1>0, <2>1, <3>1, <3>2, SameKeepsOptions
  <2> QED
    BY <2>1, <2>3, <2>4
<1>4. CASE FileStepDone
  <2>1. pc = "rest" /\ job = "filestep" /\ UNCHANGED <<kids, params, conf>> /\ NoCall
    BY <1>4 DEF FileStepDone, Returned, tree
  <2>2. CASE ret = "entry"
    <3>1. UNCHANGED <<iter, base, lost>> /\ job' = "files" /\ pc' = "rest"
      BY <1>4, <2>1, <2>2 DEF FileStepDone, history, NoCall, call
    <3>2. ~ Arrived'
      BY <3>1 DEF Arrived
    <3> QED
      BY <2>1, <2>2, <3>1, <3>2, ArrivedPushed, SameKeepsOptions
  <2>3. CASE ret # "entry"
    BY <1>4, <2>1, <2>3, FreeKeepsOptions DEF FileStepDone
  <2> QED
    BY <2>2, <2>3
<1>5. CASE Peeked
  BY <1>5, PeekedKeepsOptions
<1>6. CASE NotYetAtTop
  <2>1. /\ pc = "rest" /\ job \in {"stop", "replace"} /\ job' = job /\ pc' = "up"
        /\ UNCHANGED <<kids, params, conf, base, lost, iter>>
    BY <1>6 DEF NotYetAtTop, Returned, Call, tree, history
  <2>2. ~ Arrived' /\ ~ Freed(kids, iter.node)
    BY <2>1, FreedAtRest DEF Arrived
  <2> QED
    BY <2>1, <2>2, SameKeepsOptions
<1>7. CASE Stopped
  BY <1>7, FreeKeepsOptions DEF Stopped, Returned
<1>8. CASE HeadFound
  <2>1. /\ pc = "rest" /\ job = "head" /\ job' = "files" /\ pc' = "rest"
        /\ UNCHANGED <<kids, params, conf, base, lost, iter>>
    BY <1>8 DEF HeadFound, Returned, NextSource, tree, history, NoCall, call
  <2>2. ret = "entry"
    BY <2>1 DEF OInv, NInv, IInv, HeadAhead
  <2>3. ~ Arrived' /\ iter.pushed
    BY <2>1, <2>2, ArrivedPushed DEF Arrived
  <2> QED
    BY <2>1, <2>3, SameKeepsOptions
<1>9. CASE EndOfFile \/ Stop \/ LoadReplace
  <2>1. /\ Playing /\ job' \in {"next", "stop", "replace"} /\ pc' \in {"step", "up"}
        /\ UNCHANGED <<kids, params, conf, base, lost, iter>>
    BY <1>9 DEF EndOfFile, NextEntry, Stop, LoadReplace, GoToTop, Call, Leave, tree
  <2>2. ~ Arrived'
    BY <2>1 DEF Arrived
  <2> QED
    BY <2>1, <2>2, PlayingKnown, SameKeepsOptions
<1>10. ASSUME NEW where \in {"step", "up"}, NEW n, NEW force, Move(where, n, force) PROVE OInv'
  BY <1>10, MoveKeepsOptions
<1>11. ASSUME NEW v, NEW opening, AltSource(v, opening) PROVE OInv'
  <2>1. /\ Playing /\ job' = "files" /\ pc' = pc
        /\ UNCHANGED <<kids, params, conf, base, lost, iter>>
    BY <1>11 DEF AltSource, NextSource, Leave, tree, NoCall, call
  <2>2. ~ Arrived'
    BY <2>1 DEF Arrived
  <2> QED
    BY <2>1, <2>2, PlayingKnown, SameKeepsOptions
<1>12. ASSUME NEW v \in Values, SetOption(v) PROVE OInv'
  BY <1>12, SetOptionKeepsOptions
<1>13. "step" \in {"step", "up"} /\ "up" \in {"step", "up"}
  OBVIOUS
<1> QED
  BY <1>1, <1>2, <1>3, <1>4, <1>5, <1>6, <1>7, <1>8, <1>9, <1>10, <1>11, <1>12, <1>13, Zenon
  DEF Restful, PlayTreeStep, UpStep

LEMMA StutterKeepsOptions ==
  ASSUME OInv, NInv', UNCHANGED vars
  PROVE  OInv'
<1>1. UNCHANGED <<kids, params, iter, conf, pc, dir, ret, job, saved, victim, base, lost>>
  BY DEF vars, tree, call, hold, history
<1>2. Held' = Held /\ (Arrived' <=> Arrived)
  BY <1>1 DEF Held, Arrived
<1>3. Opened' /\ Settled' /\ Unstarted' /\ Current'
  BY <1>1, <1>2 DEF OInv, Opened, Settled, Unstarted, Current
<1>4. Marks'
  BY <1>1, <1>2 DEF OInv, Marks
<1>5. Strays'
  BY <1>1 DEF OInv, Strays, EndsSoon, Freed, Has
<1> QED
  BY <1>3, <1>4, <1>5 DEF OInv

-----------------------------------------------------------------------------
(* The steps that change the tree.                                          *)

(* A new iterator has opened nothing.                                       *)
LEMMA StartKeepsOptions ==
  ASSUME NInv', Start
  PROVE  OInv'
<1>1. iter' = NewIter /\ lost' = 0 /\ pc' = "step" /\ ret' = "none" /\ job' = "start"
  BY DEF Start, Call
<1>2. iter'.node = NoNode /\ iter'.stack = <<>>
  BY <1>1, NoIterTyped
<1>3. Opened'
  BY <1>1, <1>2 DEF Opened, Held
<1>4. Settled'
  BY <1>1 DEF Settled, Arrived
<1>5. Strays'
  <2>1. ~ (Freed(kids, iter.node))'
    BY <1>2, NodesAssumption DEF Freed, Nodes
  <2> QED
    BY <1>1, <2>1 DEF Strays, EndsSoon
<1>6. Unstarted' /\ Current'
  BY <1>1, <1>2 DEF Unstarted, Current
<1>7. Marks'
  BY <1>1 DEF Marks, Arrived
<1> QED
  BY <1>3, <1>4, <1>5, <1>6, <1>7 DEF OInv

LEMMA BootKeepsOptions ==
  ASSUME OInv, NInv', Boot
  PROVE  OInv'
<1>1. CASE Root \in Valid
  BY <1>1, StartKeepsOptions DEF Boot
<1>2. CASE Root \notin Valid
  <2>1. job' = "none" /\ iter' = iter /\ pc' = "rest" /\ iter = NoIter
    BY <1>2 DEF Boot, Returned, call, OInv, NInv, IInv, Calls
  <2>2. ~iter'.live /\ iter'.node = NoNode
    BY <2>1, NoIterTyped
  <2>3. Opened' /\ Settled'
    BY <2>1, <2>2 DEF Opened, Held, Settled, Arrived
  <2>4. Strays'
    <3>1. ~ (Freed(kids, iter.node))'
      BY <2>2, NodesAssumption DEF Freed, Nodes
    <3> QED
      BY <2>1, <3>1 DEF Strays, EndsSoon
  <2>5. Unstarted' /\ Current'
    BY <2>2 DEF Unstarted, Current
  <2>6. Marks'
    BY <2>1, <2>2 DEF Marks, Arrived
  <2> QED
    BY <2>3, <2>4, <2>5, <2>6 DEF OInv
<1> QED
  BY <1>1, <1>2

(* At the root of a new tree all levels that are left are lost.             *)
LEMMA ReplacedKeepsOptions ==
  ASSUME OInv, NInv', NEW e \in Loads, Replaced(e)
  PROVE  OInv'
<1>1. /\ iter' = [iter EXCEPT !.node = Root] /\ lost' = Len(iter.stack) /\ pc' = "step"
      /\ ret' = "none" /\ job' = "head"
  BY DEF Replaced, Call
<1>2. Root \in Nodes /\ Root \notin Files
  BY NodesAssumption DEF Nodes
<1>3. iter'.node = Root /\ iter'.stack = iter.stack /\ iter.stack \in Seq(Int)
  <2>1. iter \in Iterators /\ NodeIs(iter', iter, Root)
    BY <1>1, Known DEF OInv, NInv, NodeIs
  <2> QED
    BY <1>2, <2>1, NodeTyped, Fields
<1>4. Opened'
  <2> DEFINE f == [i \in Nat |-> Root]
  <2>1. f \in [Nat -> Nodes] /\ Trail(kids', f, 0, Root)
    BY <1>2 DEF Trail
  <2>2. Inherited(params', conf'.slots, base' + lost', f, 0)
    BY DEF Inherited
  <2>3. Len(iter'.stack) = 0 + lost' /\ 0 \in Nat
    BY <1>1, <1>3
  <2>4. Opens(kids', params', conf'.slots, base', lost', Root, iter'.stack)
    BY <2>1, <2>2, <2>3 DEF Opens
  <2>5. Held' = iter'
    BY <1>1 DEF Held
  <2> QED
    BY <1>3, <2>4, <2>5 DEF Opened
<1>5. Settled'
  BY <1>1 DEF Settled, Arrived
<1>6. Strays'
  <2>1. ~ (Freed(kids, iter.node))'
    BY <1>2, <1>3 DEF Freed
  <2> QED
    BY <1>1, <2>1 DEF Strays, EndsSoon
<1>7. Unstarted' /\ Current'
  BY <1>2, <1>3, NodesAssumption DEF Unstarted, Current, Nodes
<1>8. Marks'
  BY <1>1 DEF Marks, Arrived
<1> QED
  BY <1>4, <1>5, <1>6, <1>7, <1>8 DEF OInv

(* What opened the levels is on the way, where no parameter changes.        *)
LEMMA OpensStays ==
  ASSUME NEW k, NEW k2, NEW pa, NEW pa2, NEW s, NEW b, NEW lo, NEW n, NEW q,
         Opens(k, pa, s, b, lo, n, q),
         \A f \in [Nat -> Nodes], l \in Nat : Trail(k, f, l, n) =>
           /\ Trail(k2, f, l, n)
           /\ \A i \in 0..(l - 1) : pa2[f[i]] = pa[f[i]]
  PROVE  Opens(k2, pa2, s, b, lo, n, q)
<1>1. PICK f \in [Nat -> Nodes], l \in Nat :
        Trail(k, f, l, n) /\ Len(q) = l + lo /\ Inherited(pa, s, b + lo, f, l)
  BY DEF Opens
<1>2. Trail(k2, f, l, n) /\ \A i \in 0..(l - 1) : pa2[f[i]] = pa[f[i]]
  BY <1>1
<1>3. Inherited(pa2, s, b + lo, f, l)
  BY <1>1, <1>2 DEF Inherited, ValueIn
<1> QED
  BY <1>1, <1>2, <1>3 DEF Opens

(* A node on a trail is not freed, and none of them is without a place.     *)
LEMMA TrailNodes ==
  ASSUME NEW k, NEW f \in [Nat -> Nodes], NEW l \in Nat, NEW n \in Nodes, Trail(k, f, l, n)
  PROVE  /\ ~ Freed(k, n)
         /\ \A i \in 0..l : f[i] = Root \/ \E q \in Groups : Has(k, q, f[i])
         /\ \A i \in 0..(l - 1) : f[i] \in Groups
<1>1. ASSUME NEW i \in 0..l PROVE f[i] = Root \/ \E q \in Groups : Has(k, q, f[i])
  <2>1. CASE i = 0
    BY <2>1 DEF Trail
  <2>2. CASE i # 0
    <3>1. i - 1 \in 0..(l - 1) /\ (i - 1) + 1 = i
      BY <2>2
    <3> QED
      BY <3>1 DEF Trail
  <2> QED
    BY <2>1, <2>2
<1>2. f[l] = n /\ l \in 0..l
  BY DEF Trail
<1>3. ~ Freed(k, n)
  BY <1>1, <1>2, NodesAssumption DEF Freed
<1> QED
  BY <1>1, <1>3 DEF Trail

LEMMA GrewKeepsOptions ==
  ASSUME OInv, NInv', NEW e, Grew(e), pc = "rest", job \in {"none", "playlist"}, iter.live,
         iter.node \in Nodes,
         UNCHANGED <<iter, conf, base, lost>>,
         \A n \in Nodes \ {e.top} : params'[n] = params[n],
         \/ job' = job /\ ret' = ret /\ pc' = pc /\ job = "none"
         \/ job' = "added" /\ ret' = "none" /\ pc' = "step" /\ dir' = 1 /\ job = "playlist",
         job' = "added" => victim' \in DOMAIN Contents
  PROVE  OInv'
<1>1. Held = iter /\ Held' = iter /\ iter.node # NoNode /\ ~ Arrived'
  BY NodesAssumption DEF Held, Nodes, Arrived
<1>2. CASE Freed(kids, iter.node)
  <2>1. Freed(kids', iter'.node) /\ Freed(kids', Held'.node)
    BY <1>1, <1>2 DEF Grew
  <2> QED
    BY <1>1, <1>2, <2>1 DEF OInv, Opened, Settled, Strays, EndsSoon, Unstarted, Current, Marks
<1>3. CASE ~ Freed(kids, iter.node)
  <2>1. Opens(kids, params, conf.slots, base, lost, iter.node, iter.stack)
    BY <1>1, <1>3 DEF OInv, Opened
  <2>2. ASSUME NEW f \in [Nat -> Nodes], NEW l \in Nat, Trail(kids, f, l, iter.node)
        PROVE  /\ Trail(kids', f, l, iter.node)
               /\ \A i \in 0..(l - 1) : params'[f[i]] = params[f[i]]
    <3>1. Trail(kids', f, l, iter.node)
      BY <2>2 DEF Grew
    <3>2. ASSUME NEW i \in 0..(l - 1) PROVE f[i] \in Nodes \ {e.top}
      <4>1. i \in 0..l
        OBVIOUS
      <4>2. f[i] = Root \/ \E q \in Groups : Has(kids, q, f[i])
        BY <2>2, <4>1, TrailNodes
      <4> QED
        BY <4>2 DEF Grew
    <3> QED
      BY <3>1, <3>2
  <2>3. Opens(kids', params', conf.slots, base, lost, iter.node, iter.stack)
    BY <2>1, <2>2, OpensStays
  <2>4. Opened'
    BY <1>1, <2>3 DEF Opened
  <2>5. ~ Freed(kids', iter.node)
    <3>1. PICK f \in [Nat -> Nodes], l \in Nat : Trail(kids', f, l, iter.node)
      BY <2>3 DEF Opens
    <3> QED
      BY <3>1, TrailNodes
  <2>6. Settled' /\ Unstarted' /\ Current'
    BY <1>1 DEF OInv, Settled, Unstarted, Current
  <2>7. Strays'
    BY <2>5 DEF Strays, EndsSoon
  <2>8. Marks'
    BY <1>1 DEF OInv, Marks
  <2> QED
    BY <2>4, <2>6, <2>7, <2>8 DEF OInv
<1> QED
  BY <1>2, <1>3

LEMMA LoadAppendKeepsOptions ==
  ASSUME OInv, NInv', NEW e \in NewEntries, LoadAppend(e)
  PROVE  OInv'
<1>1. /\ Playing /\ UNCHANGED <<params, iter, conf, base, lost>>
      /\ job' = job /\ ret' = ret /\ pc' = pc
  BY DEF LoadAppend, call, history
<1>2. Grew(e)
  BY LoadAppendGrows DEF OInv
<1> QED
  BY <1>1, <1>2, PlayingKnown, GrewKeepsOptions

LEMMA OpenPlaylistKeepsOptions ==
  ASSUME OInv, NInv', OpenPlaylist
  PROVE  OInv'
<1>1. /\ pc = "rest" /\ job = "playlist" /\ UNCHANGED <<iter, conf, base, lost>>
      /\ victim' = iter.node
      /\ job' = "added" /\ ret' = "none" /\ pc' = "step" /\ dir' = 1
  BY DEF OpenPlaylist, Returned, Call, history
<1>2. iter.live /\ iter.node \in Nodes /\ iter.node \in DOMAIN Contents
      /\ params \in [Nodes -> Values \cup {Unset}]
  BY <1>1 DEF OInv, NInv, IInv, TypeOK, Calls, Nodes
<1>3. CASE Contents[iter.node] = NoEntry
  <2>1. kids' = kids /\ params' = params
    BY <1>3 DEF OpenPlaylist
  <2>2. ~ Arrived'
    BY <1>1 DEF Arrived
  <2> QED
    BY <1>1, <1>2, <2>1, <2>2, SameKeepsOptions
<1>4. CASE Contents[iter.node] # NoEntry
  <2> DEFINE e == Contents[iter.node]
  <2>1. Grew(e)
    BY <1>4, OpenPlaylistGrows DEF OInv
  <2>2. params' = [params EXCEPT ![e.top] = params[iter.node]]
    BY <1>4 DEF OpenPlaylist
  <2> HIDE DEF e
  <2>3. \A n \in Nodes \ {e.top} : params'[n] = params[n]
    BY <1>2, <2>2
  <2> QED
    BY <1>1, <1>2, <2>1, <2>3, GrewKeepsOptions
<1> QED
  BY <1>3, <1>4

LEMMA PlaylistDoneKeepsOptions ==
  ASSUME OInv, NInv', PlaylistDone
  PROVE  OInv'
<1>1. /\ pc = "rest" /\ job \in {"added", "unlooped"} /\ UNCHANGED <<iter, conf, base, lost>>
      /\ \/ NextEntry /\ UNCHANGED tree
         \/ ret = "entry" /\ Call("up", 1, FALSE, "unlooped") /\ UNCHANGED <<tree, victim>>
         \/ ret = "entry" /\ RemoveVictim /\ NextSource(1) /\ NoCall
  BY Zenon DEF PlaylistDone, Returned, history
<1>2. CASE NextEntry /\ UNCHANGED tree
  <2>1. /\ UNCHANGED <<kids, params>> /\ job' = "next" /\ ret' = "none" /\ pc' = "step"
        /\ dir' = 1
    BY <1>2 DEF NextEntry, Call, tree
  <2>2. ~ Arrived'
    BY <2>1 DEF Arrived
  <2> QED
    BY <1>1, <2>1, <2>2, SameKeepsOptions
<1>3. CASE ret = "entry" /\ Call("up", 1, FALSE, "unlooped") /\ UNCHANGED <<tree, victim>>
  <2>1. /\ UNCHANGED <<kids, params>> /\ job' = "unlooped" /\ ret' = "none" /\ pc' = "up"
        /\ victim' = victim /\ victim \in DOMAIN Contents
    BY <1>1, <1>3 DEF Call, tree, OInv, Marks
  <2>2. ~ Arrived'
    BY <2>1 DEF Arrived
  <2> QED
    BY <1>1, <1>3, <2>1, <2>2, ArrivedPushed, SameKeepsOptions
<1>4. CASE ret = "entry" /\ RemoveVictim /\ NextSource(1) /\ NoCall
  <2>1. /\ kids' = [n \in Nodes |-> Kept(kids[n], Nodes \ {victim})]
        /\ params' = [params EXCEPT ![victim] = Unset]
        /\ job' = "files" /\ pc' = "rest"
    BY <1>1, <1>4 DEF RemoveVictim, NextSource, NoCall, call
  <2>2. /\ kids \in [Nodes -> Seq(Nodes)] /\ OnePlace(kids) /\ Here(kids, iter.node)
        /\ params \in [Nodes -> Values \cup {Unset}]
        /\ iter.live /\ iter.node \in Files /\ victim \in Files \cup {NoNode}
        /\ victim \in DOMAIN Contents
    BY <1>1, <1>4, Known, KidsTyped DEF OInv, Marks, NInv, Places, IInv, TypeOK, Calls
  <2>3. iter.node \in Nodes /\ iter.node # NoNode /\ victim \notin Groups
    BY <2>2, NodesAssumption DEF Nodes
  <2>4. iter.pushed /\ ~ Freed(kids, iter.node)
    BY <1>1, <1>4, ArrivedPushed
  <2>5. /\ iter.node = victim => Freed(kids', iter.node)
        /\ \A f \in [Nat -> Nodes], l \in Nat :
             iter.node # victim /\ Trail(kids, f, l, iter.node) => Trail(kids', f, l, iter.node)
    BY <2>1, <2>2, RemovedPlaces
  <2>6. Held = iter /\ Held' = iter /\ ~ Arrived'
    BY <1>1, <2>1 DEF Held, Arrived
  <2>7. Opens(kids, params, conf.slots, base, lost, iter.node, iter.stack)
    BY <2>2, <2>3, <2>4, <2>6 DEF OInv, Opened
  <2>8. ASSUME iter.node # victim
        PROVE  Opens(kids', params', conf.slots, base, lost, iter.node, iter.stack)
    <3>1. ASSUME NEW f \in [Nat -> Nodes], NEW l \in Nat, Trail(kids, f, l, iter.node)
          PROVE  /\ Trail(kids', f, l, iter.node)
                 /\ \A i \in 0..(l - 1) : params'[f[i]] = params[f[i]]
      <4>1. \A i \in 0..(l - 1) : f[i] \in Nodes \ {victim}
        BY <2>3, <3>1, TrailNodes
      <4> QED
        BY <2>1, <2>2, <2>5, <2>8, <3>1, <4>1
    <3> QED
      BY <2>7, <3>1, OpensStays
  <2>9. Opened'
    BY <1>1, <2>5, <2>6, <2>8 DEF Opened
  <2>10. Freed(kids', iter.node) => iter.node \in DOMAIN Contents
    <3>1. CASE iter.node = victim
      BY <2>2, <3>1
    <3>2. CASE iter.node # victim
      <4>1. PICK f \in [Nat -> Nodes], l \in Nat : Trail(kids', f, l, iter.node)
        BY <2>8, <3>2 DEF Opens
      <4> QED
        BY <2>3, <4>1, TrailNodes
    <3> QED
      BY <3>1, <3>2
  <2>11. Strays'
    BY <1>1, <2>1, <2>10 DEF Strays, EndsSoon
  <2>12. Settled' /\ Unstarted' /\ Current'
    BY <1>1, <2>1, <2>3, <2>4, <2>6 DEF Settled, Unstarted, Current
  <2>13. Marks'
    BY <1>1, <2>1, <2>4, <2>6 DEF Marks
  <2> QED
    BY <2>9, <2>11, <2>12, <2>13 DEF OInv
<1> QED
  BY <1>1, <1>2, <1>3, <1>4

-----------------------------------------------------------------------------
LEMMA InitOptions ==
  ASSUME Init
  PROVE  OInv
<1>1. iter.node = NoNode /\ ~iter.live /\ job = "boot" /\ ret = "none" /\ pc = "rest"
  BY NoIterTyped DEF Init
<1>2. Opened /\ Settled /\ Unstarted /\ Current /\ Marks
  BY <1>1 DEF Opened, Held, Settled, Arrived, Unstarted, Current, Marks
<1>3. Strays
  <2>1. ~ Freed(kids, iter.node)
    BY <1>1, NodesAssumption DEF Freed, Nodes
  <2> QED
    BY <1>1, <2>1 DEF Strays, EndsSoon
<1> QED
  BY <1>2, <1>3, InitNodes DEF OInv

LEMMA NextOptions ==
  ASSUME OInv, [Next]_vars
  PROVE  OInv'
<1>1. NInv'
  BY NextNodes DEF OInv
<1>2. CASE Restful
  BY <1>1, <1>2, RestfulKeepsOptions
<1>3. CASE Iterate \/ Boot \/ OpenPlaylist \/ PlaylistDone \/ UNCHANGED vars
  BY <1>1, <1>3, IterateKeepsOptions, BootKeepsOptions, OpenPlaylistKeepsOptions,
     PlaylistDoneKeepsOptions, StutterKeepsOptions, Zenon
<1>4. CASE \E e \in Loads : Replaced(e)
  BY <1>1, <1>4, ReplacedKeepsOptions, Zenon
<1>5. CASE \E e \in NewEntries : LoadAppend(e)
  BY <1>1, <1>5, LoadAppendKeepsOptions, Zenon
<1>6. CASE \E e \in Loads : LoadIdle(e)
  BY <1>1, <1>6, StartKeepsOptions, Zenon DEF LoadIdle
<1> QED
  BY <1>2, <1>3, <1>4, <1>5, <1>6, Zenon DEF Next, Proceed, Restful

(* The value in force in a node, from what its parent has: there is such a  *)
(* function, for parents are higher up.                                     *)
Around(v, out) ==
  [n \in Nodes \cup {NoNode} |-> IF n = NoNode THEN out
                                 ELSE IF params[n] # Unset THEN params[n] ELSE v[ParentOf(n)]]

LEMMA AroundFits ==
  ASSUME kids \in [Nodes -> Seq(Nodes)], Levels, NEW out
  PROVE  \E v : v = Around(v, out)
<1>1. PICK d \in [Nodes -> Nat] : Graded(kids, d)
  BY Zenon DEF Levels
<1>2. PICK D \in Nat : \A p \in Groups : d[p] <= D
  BY Bounded
<1>3. NoNode \notin Nodes /\ Groups \subseteq Nodes
  BY NodesAssumption DEF Nodes
<1>4. ASSUME NEW n \in Nodes, ParentOf(n) # NoNode
      PROVE  ParentOf(n) \in Groups /\ d[n] = d[ParentOf(n)] + 1
  <2>1. ParentOf(n) \in Groups /\ Has(kids, ParentOf(n), n)
    BY <1>4, ParentHasIt DEF Has
  <2> QED
    BY <1>1, <2>1 DEF Graded, Has
<1> DEFINE S == Nodes \cup {NoNode}
           Low(k) == {NoNode} \cup {n \in Groups : d[n] < k}
           Good(v, k) == \A n \in Low(k) : v[n] = Around(v, out)[n]
           U == {k \in Nat : \E v : v = [n \in S |-> v[n]] /\ Good(v, k)}
<1>5. 0 \in U
  <2> DEFINE w == [n \in S |-> out]
  <2>1. w = [n \in S |-> w[n]]
    OBVIOUS
  <2>2. ASSUME NEW n \in Low(0) PROVE n = NoNode
    <3>1. n \in Groups => d[n] \in Nat
      BY <1>3
    <3> QED
      BY <3>1
  <2>3. w[NoNode] = Around(w, out)[NoNode]
    BY DEF Around
  <2>4. Good(w, 0)
    BY <2>2, <2>3
  <2> HIDE DEF w, Good
  <2> QED
    BY <2>1, <2>4
(* Once more over the function, and the next nodes are right as well.       *)
<1>6. ASSUME NEW k \in Nat, NEW v, Good(v, k), NEW n \in S,
             n = NoNode \/ ParentOf(n) \in Low(k)
      PROVE  Around(v, out)[n] = Around(Around(v, out), out)[n]
  <2>1. CASE n = NoNode
    BY <2>1 DEF Around
  <2>2. CASE n # NoNode
    <3>1. v[ParentOf(n)] = Around(v, out)[ParentOf(n)]
      BY <1>6, <2>2
    <3> DEFINE w == Around(v, out)
    <3>2. w[n] = IF params[n] # Unset THEN params[n] ELSE v[ParentOf(n)]
      BY <2>2 DEF Around
    <3>3. v[ParentOf(n)] = w[ParentOf(n)]
      BY <3>1
    <3> HIDE DEF w
    <3>4. Around(w, out)[n] = IF params[n] # Unset THEN params[n] ELSE w[ParentOf(n)]
      BY <2>2 DEF Around
    <3>5. w[n] = Around(w, out)[n]
      BY <3>2, <3>3, <3>4
    <3> QED
      BY <3>5 DEF w
  <2> QED
    BY <2>1, <2>2
<1>7. ASSUME NEW k \in U PROVE k + 1 \in U
  <2>1. PICK v : v = [n \in S |-> v[n]] /\ Good(v, k)
    OBVIOUS
  <2> DEFINE w == Around(v, out)
  <2>2. w = [n \in S |-> w[n]]
    BY DEF Around
  <2>3. ASSUME NEW n \in Low(k + 1) PROVE w[n] = Around(w, out)[n]
    <3>1. n \in S /\ k \in Nat
      BY <1>3
    <3>2. n = NoNode \/ ParentOf(n) \in Low(k)
      <4>1. CASE n = NoNode
        BY <4>1
      <4>2. CASE n # NoNode
        <5>1. n \in Nodes /\ d[n] < k + 1 /\ d[n] \in Nat
          BY <1>3, <4>2
        <5>2. CASE ParentOf(n) = NoNode
          BY <5>2
        <5>3. CASE ParentOf(n) # NoNode
          <6>1. ParentOf(n) \in Groups /\ d[n] = d[ParentOf(n)] + 1 /\ d[ParentOf(n)] \in Nat
            BY <1>3, <1>4, <5>1, <5>3
          <6> QED
            BY <3>1, <5>1, <6>1
        <5> QED
          BY <5>2, <5>3
      <4> QED
        BY <4>1, <4>2
    <3> HIDE DEF Low, Good, S
    <3> QED
      BY <1>6, <2>1, <3>1, <3>2
  <2>4. Good(w, k + 1)
    BY <2>3
  <2>5. k + 1 \in Nat
    OBVIOUS
  <2> HIDE DEF w, Good, S
  <2> QED
    BY <2>2, <2>4, <2>5
<1>8. D + 1 \in U
  <2>1. U \in SUBSET Nat
    OBVIOUS
  <2> HIDE DEF U
  <2>2. U = Nat
    BY <1>5, <1>7, <2>1, Induct
  <2> QED
    BY <2>2
<1>9. PICK v : Good(v, D + 1)
  <2> HIDE DEF Good
  <2> QED
    BY <1>8
<1>10. Low(D + 1) = Groups \cup {NoNode}
  <2>1. \A p \in Groups : d[p] \in Nat /\ d[p] < D + 1
    BY <1>2, <1>3
  <2> QED
    BY <2>1
<1> DEFINE w == Around(v, out)
<1>11. \A n \in S : w[n] = Around(w, out)[n]
  <2> TAKE n \in S
  <2>1. n = NoNode \/ ParentOf(n) \in Low(D + 1)
    BY <1>4, <1>10
  <2>2. D + 1 \in Nat
    OBVIOUS
  <2> HIDE DEF Good, Low, S
  <2> QED
    BY <1>6, <1>9, <2>1, <2>2
<1>12. w = [n \in S |-> w[n]] /\ Around(w, out) = [n \in S |-> Around(w, out)[n]]
  BY DEF Around
<1> HIDE DEF w, S
<1>13. w = Around(w, out)
  BY <1>11, <1>12
<1> QED
  BY <1>13

LEMMA OpensInForce ==
  ASSUME kids \in [Nodes -> Seq(Nodes)], OnePlace(kids), Topped(kids), NEW v, NEW n \in Nodes,
         conf \in Config, base \in Nat, lost \in Nat,
         v = Around(v, conf.slots[base + lost]), NEW q,
         Opens(kids, params, conf.slots, base, lost, n, q)
  PROVE  v[n] = ValueIn(params, n, conf.slots[base + Len(q)])
<1>1. PICK f \in [Nat -> Nodes], l \in Nat :
        /\ Trail(kids, f, l, n) /\ Len(q) = l + lost
        /\ Inherited(params, conf.slots, base + lost, f, l)
  BY DEF Opens
<1> DEFINE Outside(i) == conf.slots[base + lost + i]
           U == {i \in Nat : i <= l => v[f[i]] = ValueIn(params, f[i], Outside(i))}
<1>2. ASSUME NEW m \in Nodes PROVE v[m] = ValueIn(params, m, v[ParentOf(m)])
  <2>1. m # NoNode /\ m \in Nodes \cup {NoNode}
    BY NodesAssumption DEF Nodes
  <2> QED
    BY <2>1 DEF Around, ValueIn
<1>3. v[NoNode] = Outside(0)
  <2>1. v[NoNode] = conf.slots[base + lost]
    BY DEF Around
  <2>2. base + lost + 0 = base + lost
    OBVIOUS
  <2> QED
    BY <2>1, <2>2, Zenon
<1>4. 0 \in U
  <2>1. f[0] = Root /\ Root \in Nodes
    BY <1>1, NodesAssumption DEF Trail, Nodes
  <2>2. ParentOf(Root) = NoNode
    <3>1. ParentOf(Root) # NoNode => ParentOf(Root) \in Groups /\ Has(kids, ParentOf(Root), Root)
      BY <2>1, ParentHasIt DEF Has
    <3> QED
      BY <3>1 DEF Topped
  <2>3. v[f[0]] = ValueIn(params, f[0], Outside(0))
    BY <1>2, <1>3, <2>1, <2>2
  <2> QED
    BY <2>3
<1>5. ASSUME NEW i \in U PROVE i + 1 \in U
  <2>1. i \in Nat
    OBVIOUS
  <2>2. i + 1 \in Nat
    BY <2>1
  <2>3. ASSUME i + 1 <= l PROVE v[f[i + 1]] = ValueIn(params, f[i + 1], Outside(i + 1))
    <3>1. i \in 0..(l - 1) /\ f[i + 1] \in Nodes /\ i <= l
      BY <2>1, <2>3
    <3>2. f[i] \in Groups /\ Has(kids, f[i], f[i + 1])
      BY <1>1, <3>1 DEF Trail
    <3>3. ParentOf(f[i + 1]) = f[i]
      BY <3>2, ParentIs
    <3>4. v[f[i]] = ValueIn(params, f[i], Outside(i))
      BY <3>1, Zenon
    <3>5. Outside(i + 1) = ValueIn(params, f[i], Outside(i))
      <4>1. conf.slots[base + lost + i + 1] = ValueIn(params, f[i], conf.slots[base + lost + i])
        BY <1>1, <3>1 DEF Inherited
      <4>2. base + lost + (i + 1) = base + lost + i + 1
        BY <2>1
      <4> QED
        BY <4>1, <4>2, Zenon
    <3> HIDE DEF Outside
    <3> QED
      BY <1>2, <3>1, <3>3, <3>4, <3>5, Zenon
  <2> HIDE DEF Outside
  <2> QED
    BY <2>2, <2>3, Zenon
<1>6. l \in U
  <2>1. U \in SUBSET Nat
    OBVIOUS
  <2> HIDE DEF U
  <2>2. U = Nat
    BY <1>4, <1>5, <2>1, Induct
  <2> QED
    BY <2>2
<1>7. v[f[l]] = ValueIn(params, f[l], Outside(l))
  BY <1>6
<1>8. base + Len(q) = base + lost + l /\ f[l] = n
  BY <1>1 DEF Trail
<1> QED
  BY <1>7, <1>8

(* Each entry starts with the parameter of the nearest group around it that *)
(* has one, its own first, else with what was set outside of the tree:      *)
(* play_tree_iter_step, play_tree_iter_up_step and _down_step push and pop  *)
(* the levels of the groups in step with the way they go through the tree,  *)
(* whatever is loaded, appended, opened, shuffled or set meanwhile.         *)
THEOREM EntryHasItsOptions == Spec => []OptionsInForce
<1>1. Init => OInv
  BY InitOptions
<1>2. OInv /\ [Next]_vars => OInv'
  BY NextOptions
<1>3. ASSUME OInv PROVE OptionsInForce
  <2> DEFINE out == conf.slots[base + lost]
             v == CHOOSE h : h = Around(h, out)
  <2>1. kids \in [Nodes -> Seq(Nodes)] /\ OnePlace(kids) /\ Levels /\ Topped(kids)
    BY <1>3, KidsTyped, LevelsTop DEF OInv, NInv, Places, IInv
  <2>2. v = Around(v, out)
    <3>1. \E h : h = Around(h, out)
      BY <2>1, AroundFits
    <3> HIDE DEF out
    <3> QED
      BY <3>1
  <2>3. OptionsInForce <=> (Arrived => conf.value = v[iter.node])
    BY Zenon DEF OptionsInForce, Around
  <2> HIDE DEF v, out
  <2>4. ASSUME Arrived PROVE conf.value = v[iter.node]
    <3>1. iter.pushed /\ ~ Freed(kids, iter.node) /\ job # "peek" /\ job \notin {"none", "boot"}
      BY <1>3, <2>4, ArrivedPushed DEF Arrived
    <3>2. iter.node \in Nodes /\ iter.node # NoNode /\ iter.live
      BY <1>3, <2>4, <3>1, NodesAssumption DEF Arrived, OInv, NInv, IInv, Calls, Nodes
    <3>3. Opens(kids, params, conf.slots, base, lost, iter.node, iter.stack)
      BY <1>3, <3>1, <3>2 DEF OInv, Opened, Held
    <3>4. conf \in Config /\ base \in Nat /\ lost \in Nat
      BY <1>3 DEF OInv, NInv, IInv, TypeOK, Config
    <3>5. v[iter.node] = ValueIn(params, iter.node, conf.slots[base + Len(iter.stack)])
      <4>1. v = Around(v, conf.slots[base + lost])
        BY <2>2 DEF out
      <4> DEFINE n == iter.node
                 q == iter.stack
      <4>2. /\ n \in Nodes /\ kids \in [Nodes -> Seq(Nodes)] /\ OnePlace(kids) /\ Topped(kids)
            /\ Opens(kids, params, conf.slots, base, lost, n, q)
        BY <2>1, <3>2, <3>3
      <4> HIDE DEF n, q
      <4>3. v[n] = ValueIn(params, n, conf.slots[base + Len(q)])
        BY <3>4, <4>1, <4>2, OpensInForce, Zenon
      <4> QED
        BY <4>3 DEF n, q
    <3> QED
      BY <1>3, <2>4, <3>5 DEF OInv, Settled
  <2> QED
    BY <2>3, <2>4
<1> QED
  BY <1>1, <1>2, <1>3, PTL DEF Spec

-----------------------------------------------------------------------------
(* Where the iterator is when playlists and loads change the tree.          *)

(* On the way down to a node, from the i-th on, each is the last of its     *)
(* list, or the only one.                                                   *)
LastDown(k, f, i, l) == \A j \in i..(l - 1) : Last(k[f[j]]) = f[j + 1]

AloneDown(k, f, i, l) == \A j \in i..(l - 1) : k[f[j]] = <<f[j + 1]>>

(* The list that the i-th is in brings the iterator back to it.             *)
Brings(k, lo, sh, f, i) == f[i - 1] \in sh \/ (k[f[i - 1]] = <<f[i]>> /\ lo[f[i - 1]] # 0)

(* The iterator, on the i-th, was brought back on the way to the victim of  *)
(* the job w.                                                               *)
BackAt(k, lo, sh, w, f, l, i) ==
  \E h \in 1..i :
    /\ w = "unlooped" => h < l
    /\ Brings(k, lo, sh, f, h) /\ LastDown(k, f, h, l) /\ AloneDown(k, f, h, i)

(* It is still on its way up from the victim, at n, the i-th.               *)
ClimbsAt(k, w, p, n, f, l, i) ==
  /\ n = f[i]
  /\ p = "step" /\ i >= 1 => LastDown(k, f, i, l)
  /\ p = "up" /\ i >= 2 => LastDown(k, f, i - 1, l)
  /\ w = "unlooped" /\ p = "step" => i < l

(* It goes down from a sibling of one of those that it was on.              *)
Beside(n, f, l) == \A j \in 0..l : n # f[j]

(* The entries of the playlist v follow it, and can be chosen.              *)
Followed(k, sh, pl, v, p) ==
  /\ Last(k[p]) # v
  /\ p \in sh => v \in pl /\ \E m \in Nodes : Has(k, p, m) /\ m \notin pl

Climbing(f, l) ==
  /\ pc \in {"step", "up"} /\ dir = 1
  /\ IF Contents[victim] = NoEntry
     THEN \E i \in 0..l : ClimbsAt(kids, job, pc, iter.node, f, l, i)
     ELSE /\ job = "added" /\ pc = "step" /\ iter.node = victim
          /\ Followed(kids, shuffled, played, victim, f[l - 1])

Descending(f, l) ==
  /\ (pc = "step" /\ dir = 0) \/ (pc = "down" /\ dir \in {0, 1})
  /\ \/ Beside(iter.node, f, l) /\ (pc = "step" => ParentOf(iter.node) \notin shuffled)
     \/ /\ Contents[victim] = NoEntry
        /\ \E i \in 1..l : /\ iter.node = f[i]
                           /\ BackAt(kids, loops, shuffled, job, f, l, i)

Found(f, l) ==
  /\ pc = "rest"
  /\ ret = "entry" /\ iter.node = victim =>
       Contents[victim] = NoEntry /\ BackAt(kids, loops, shuffled, job, f, l, l)

(* The step from a playlist, to what replaces it or, if nothing does, to    *)
(* what follows, comes back to it only where a list is shuffled or looped   *)
(* around nothing else.                                                     *)
Hunts ==
  job \in {"added", "unlooped"} /\ shuffled \subseteq {Root} /\ ~ Freed(kids, victim) =>
    \E f \in [Nat -> Nodes], l \in Nat :
      /\ l >= 1 /\ Trail(kids, f, l, victim)
      /\ Climbing(f, l) \/ Descending(f, l) \/ Found(f, l)

(* So a file is freed under the iterator only below a group that Returns.   *)
Loses(n) == Contents[n] = NoEntry /\ \E m \in Emptied \ {Root} : Returns(m)

Gone ==
  job # "peek" /\ iter.live /\ Freed(kids, iter.node) =>
    ~ (shuffled \subseteq {Root}) \/ Loses(iter.node)

(* What was played of a shuffled list has its place, and so has a playlist  *)
(* that was opened.                                                         *)
PlayedPlaced == \A n \in played : Housed(kids, n)

PlayingPlayed ==
  /\ job # "peek" /\ iter.live /\ iter.pushed /\ pc = "rest"
  /\ iter.node \in DOMAIN Contents /\ Has(kids, Root, iter.node) /\ Root \in shuffled
  => iter.node \in played

(* When a search has given up in a tree without shuffled lists and empty    *)
(* groups, it was at the root, and no level is open.                        *)
Spent == shuffled # {} \/ ~Clean \/ Len(conf.slots) = base + lost

GivesUp ==
  /\ pc = "rest" /\ (job \in {"next", "filestep"} /\ ret # "entry") => Spent
  /\ pc = "rest" /\ (job = "stop" /\ ret = "end") => Spent
  /\ Idle => Spent
  /\ job = "boot" => Len(conf.slots) = base + lost

(* Only the way to the top stops on groups.                                 *)
Nodeless == pc # "rest" /\ job \notin {"stop", "replace"} => ~withNodes

(* A level beyond those of the groups is that of a file.                    *)
OwnLevel ==
  job # "peek" /\ iter.live /\ iter.pushed /\ pc \in {"rest", "up"} =>
    iter.node \in Files \/ ~Clean

PInv == OInv /\ Nodeless /\ OwnLevel /\ GivesUp /\ PlayedPlaced /\ PlayingPlayed /\ Gone /\ Hunts

-----------------------------------------------------------------------------
(* Trails.                                                                  *)

(* The depth of what is on a trail.                                         *)
LEMMA TrailDepth ==
  ASSUME NEW k, NEW d \in [Nodes -> Nat], Graded(k, d), NEW f \in [Nat -> Nodes], NEW l \in Nat,
         NEW n, Trail(k, f, l, n), NEW i \in 0..l
  PROVE  d[f[i]] = i
<1> DEFINE U == {j \in Nat : j <= l => d[f[j]] = j}
<1>1. 0 \in U
  BY DEF Trail, Graded
<1>2. ASSUME NEW j \in U PROVE j + 1 \in U
  <2> SUFFICES ASSUME j + 1 <= l PROVE d[f[j + 1]] = j + 1
    OBVIOUS
  <2>1. j \in 0..(l - 1) /\ d[f[j]] = j
    OBVIOUS
  <2>2. f[j] \in Groups /\ Has(k, f[j], f[j + 1])
    BY <2>1 DEF Trail
  <2>3. d[f[j + 1]] = d[f[j]] + 1
    BY <2>2 DEF Graded, Has
  <2> QED
    BY <2>1, <2>3
<1>3. U \in SUBSET Nat
  OBVIOUS
<1> HIDE DEF U
<1>4. U = Nat
  BY <1>1, <1>2, <1>3, Induct
<1>5. i \in U
  BY <1>4
<1> QED
  BY <1>5 DEF U

(* Each node of a trail but the root is in the list of the one above.       *)
LEMMA TrailUp ==
  ASSUME NEW k, NEW f \in [Nat -> Nodes], NEW l \in Nat, NEW n, Trail(k, f, l, n), NEW i \in 1..l
  PROVE  /\ i - 1 \in 0..(l - 1) /\ f[i - 1] \in Groups /\ f[i - 1] \in Nodes
         /\ f[i] \in Nodes /\ Has(k, f[i - 1], f[i])
<1>1. i - 1 \in 0..(l - 1) /\ (i - 1) + 1 = i
  OBVIOUS
<1>2. f[i - 1] \in Groups /\ Has(k, f[i - 1], f[(i - 1) + 1])
  BY <1>1, Zenon DEF Trail
<1> QED
  BY <1>1, <1>2

(* A sibling of a node on the trail is not on it, nor is what is below a    *)
(* node that is not on it.                                                  *)
LEMMA SiblingBeside ==
  ASSUME kids \in [Nodes -> Seq(Nodes)], Levels, OnePlace(kids), NEW f \in [Nat -> Nodes],
         NEW l \in Nat, NEW n, Trail(kids, f, l, n), NEW i \in 1..l, NEW m \in Nodes,
         Has(kids, f[i - 1], m), m # f[i]
  PROVE  Beside(m, f, l)
<1>1. PICK d \in [Nodes -> Nat] : Graded(kids, d)
  BY Zenon DEF Levels
<1>2. f[i - 1] \in Groups /\ f[i - 1] \in Nodes /\ Has(kids, f[i - 1], f[i])
  BY TrailUp
<1>3. d[m] = d[f[i - 1]] + 1 /\ d[f[i]] = d[f[i - 1]] + 1
  BY <1>1, <1>2 DEF Graded, Has
<1>6. \A j \in 0..l : d[f[j]] = j
  BY <1>1, TrailDepth, Zenon
<1>4. d[f[i]] = i
  <2>1. i \in 0..l
    OBVIOUS
  <2> QED
    BY <1>6, <2>1
<1>5. ASSUME NEW j \in 0..l, m = f[j] PROVE FALSE
  <2>1. d[f[j]] = j
    BY <1>6
  <2>2. j = i
    BY <1>3, <1>4, <1>5, <2>1
  <2> QED
    BY <1>5, <2>2
<1> QED
  BY <1>5 DEF Beside

LEMMA BelowBeside ==
  ASSUME kids \in [Nodes -> Seq(Nodes)], Topped(kids), OnePlace(kids), NEW f \in [Nat -> Nodes],
         NEW l \in Nat, NEW n, Trail(kids, f, l, n), NEW p \in Groups, Beside(p, f, l),
         NEW m \in Nodes, Has(kids, p, m)
  PROVE  Beside(m, f, l)
<1>1. ASSUME NEW j \in 0..l, m = f[j] PROVE FALSE
  <2>1. j # 0
    BY <1>1 DEF Topped, Trail
  <2>2. j \in 1..l
    BY <2>1
  <2>0. j - 1 \in 0..(l - 1) /\ f[j - 1] \in Groups /\ Has(kids, f[j - 1], f[j])
    BY <2>2, TrailUp
  <2>3. j - 1 \in 0..l /\ f[j - 1] \in Groups /\ Has(kids, f[j - 1], m)
    BY <1>1, <2>0
  <2>4. f[j - 1] = p
    <3>1. PICK q \in Groups : q = f[j - 1]
      BY <2>3
    <3>2. PICK x \in DOMAIN kids[q] : kids[q][x] = m
      BY <2>3, <3>1 DEF Has
    <3>3. PICK y \in DOMAIN kids[p] : kids[p][y] = m
      BY DEF Has
    <3>4. q = p
      BY <3>2, <3>3, Zenon DEF OnePlace
    <3> QED
      BY <3>1, <3>4
  <2> QED
    BY <2>3, <2>4 DEF Beside
<1> QED
  BY <1>1 DEF Beside

(* Groups on the way to a file are not its end.                             *)
LEMMA GroupAbove ==
  ASSUME NEW k, NEW f \in [Nat -> Nodes], NEW l \in Nat, NEW v \in Files, Trail(k, f, l, v),
         NEW i \in 0..l, f[i] \in Groups
  PROVE  i \in 0..(l - 1)
<1>1. f[l] = v
  BY DEF Trail
<1>2. i # l
  BY <1>1, NodesAssumption
<1> QED
  BY <1>2

-----------------------------------------------------------------------------
(* What follows from the lists alone stays when they stay.                  *)
LEMMA SameTree ==
  ASSUME kids' = kids
  PROVE  /\ Valid' = Valid /\ InTree' = InTree /\ (Clean' <=> Clean) /\ Emptied' = Emptied
         /\ \A n : (ParentOf(n))' = ParentOf(n)
<1>1. Valid = ValidIn(kids) /\ Valid' = ValidIn(kids')
  BY Zenon DEF Valid, ValidIn
<1>2. InTree = InTreeIn(kids) /\ InTree' = InTreeIn(kids')
  BY Zenon DEF InTree, InTreeIn, ParentOf, ParentIn
<1>3. ASSUME NEW n PROVE (ParentOf(n))' = ParentOf(n)
  BY Zenon DEF ParentOf
<1>4. Valid' = Valid /\ InTree' = InTree
  BY <1>1, <1>2, Zenon
<1> QED
  BY <1>3, <1>4, Zenon DEF Clean, Emptied

-----------------------------------------------------------------------------
(* A step of the iterator.                                                  *)
LEMMA LeftRandom ==
  ASSUME IInv
  PROVE  Left.random = (ParentOf(iter.node) \in shuffled)
<1>1. iter = [live |-> iter.live, node |-> iter.node, loop |-> iter.loop, file |-> iter.file,
              pushed |-> iter.pushed, random |-> iter.random, stack |-> iter.stack]
  BY Known, Fields
<1>2. ASSUME NEW p, NEW r, NEW it, it = [iter EXCEPT !.pushed = p, !.file = -1, !.random = r]
      PROVE  it.random = r
  BY <1>1, <1>2
<1>3. \E p, r : /\ Left = [iter EXCEPT !.pushed = p, !.file = -1, !.random = r]
                /\ r = (ParentOf(iter.node) \in shuffled)
  BY Zenon DEF Left
<1> QED
  BY <1>2, <1>3, Zenon

(* Where a step from n may go, in the list of p.                            *)
Chosen(p, n, m) ==
  \/ p \in shuffled /\ m = NoNode /\ \A x \in Nodes : Has(kids, p, x) => x \in played
  \/ p \in shuffled /\ m \in Nodes /\ Has(kids, p, m) /\ m \notin played
  \/ p \notin shuffled /\ dir = 0 /\ m = n
  \/ p \notin shuffled /\ dir = 1 /\ m = NoNode /\ Last(kids[p]) = n
  \/ p \notin shuffled /\ dir = 1 /\ m \in Nodes /\ Has(kids, p, m) /\ m # n

LEMMA NextInList ==
  ASSUME NEW list \in Seq(Nodes), NEW i \in DOMAIN list,
         \A x, y \in DOMAIN list : list[x] = list[y] => x = y
  PROVE  /\ Walk(list, i, 1).left = 1
         /\ \/ Walk(list, i, 1).to = NoNode /\ Last(list) = list[i]
            \/ \E j \in DOMAIN list : Walk(list, i, 1).to = list[j] /\ list[j] # list[i]
<1>1. /\ i \in Nat /\ i >= 1 /\ i <= Len(list) /\ Len(list) \in Nat
      /\ DOMAIN list = 1..Len(list)
  OBVIOUS
<1>2. CASE i + 1 \in DOMAIN list
  <2>1. Walk(list, i, 1) = [to |-> list[i + 1], left |-> 1]
    BY <1>1, <1>2 DEF Walk
  <2>2. list[i + 1] # list[i]
    BY <1>1, <1>2
  <2> QED
    BY <1>2, <2>1, <2>2
<1>3. CASE i + 1 \notin DOMAIN list
  <2>1. i = Len(list)
    BY <1>1, <1>3
  <2>2. Walk(list, i, 1) = [to |-> NoNode, left |-> 1]
    BY <1>1, <1>3, <2>1 DEF Walk
  <2> QED
    BY <2>1, <2>2 DEF Last
<1> QED
  BY <1>2, <1>3

LEMMA SiblingTargets ==
  ASSUME OInv, Stepping, iter.node \in Nodes, NEW p \in Groups, Has(kids, p, iter.node),
         dir \in {0, 1}, NEW t \in Targets
  PROVE  t.left = dir /\ Chosen(p, iter.node, t.to) /\ (Left.random <=> p \in shuffled)
<1>1. kids \in [Nodes -> Seq(Nodes)] /\ OnePlace(kids) /\ kids[p] \in Seq(Nodes)
  BY KidsTyped DEF OInv, NInv, Places, Nodes
<1>2. ParentOf(iter.node) = p /\ Siblings(iter.node) = kids[p]
  BY <1>1, ParentIs
<1>3. Left.random = (p \in shuffled)
  BY <1>2, LeftRandom DEF OInv, NInv
<1>4. CASE p \in shuffled
  <2>1. PICK n \in (IF Unplayed = {} THEN {NoNode} ELSE Unplayed) : t = [to |-> n, left |-> dir]
    BY <1>3, <1>4 DEF Targets
  <2>2. ASSUME NEW x \in Nodes, Has(kids, p, x), x \notin played PROVE x \in Unplayed
    BY <1>2, <2>2 DEF Unplayed, ToSet, Has
  <2>3. ASSUME NEW x \in Unplayed PROVE x \in Nodes /\ Has(kids, p, x) /\ x \notin played
    BY <1>1, <1>2 DEF Unplayed, ToSet, Has
  <2>4. CASE Unplayed = {}
    BY <1>3, <1>4, <2>1, <2>2, <2>4 DEF Chosen
  <2>5. CASE Unplayed # {}
    BY <1>3, <1>4, <2>1, <2>3, <2>5 DEF Chosen
  <2> QED
    BY <2>4, <2>5
<1>5. CASE p \notin shuffled
  <2>1. t = Walk(kids[p], Place(iter.node), dir)
    BY <1>2, <1>3, <1>5 DEF Targets
  <2>2. Place(iter.node) \in DOMAIN kids[p] /\ kids[p][Place(iter.node)] = iter.node
    BY <1>1, <1>2, SiblingsTyped
  <2>3. CASE dir = 0
    <3>1. t = [to |-> iter.node, left |-> 0]
      BY <1>1, <2>1, <2>2, <2>3, WalkTyped
    <3> QED
      BY <1>3, <1>5, <2>3, <3>1 DEF Chosen
  <2>4. CASE dir = 1
    <3>1. \A x, y \in DOMAIN kids[p] : kids[p][x] = kids[p][y] => x = y
      BY <1>1 DEF OnePlace
    <3>2. /\ t.left = 1
          /\ \/ t.to = NoNode /\ Last(kids[p]) = iter.node
             \/ \E j \in DOMAIN kids[p] : t.to = kids[p][j] /\ kids[p][j] # iter.node
      <4>1. PICK list \in Seq(Nodes) : list = kids[p]
        BY <1>1
      <4>2. PICK i \in DOMAIN list : i = Place(iter.node) /\ list[i] = iter.node
        BY <2>2, <4>1
      <4>3. \A x, y \in DOMAIN list : list[x] = list[y] => x = y
        BY <3>1, <4>1
      <4>4. t = Walk(list, i, 1)
        BY <2>1, <2>4, <4>1, <4>2
      <4>5. /\ Walk(list, i, 1).left = 1
            /\ \/ Walk(list, i, 1).to = NoNode /\ Last(list) = list[i]
               \/ \E j \in DOMAIN list : Walk(list, i, 1).to = list[j] /\ list[j] # list[i]
        BY <4>3, NextInList, Zenon
      <4> QED
        BY <4>1, <4>2, <4>4, <4>5, Zenon
    <3>3. ASSUME NEW j \in DOMAIN kids[p] PROVE kids[p][j] \in Nodes /\ Has(kids, p, kids[p][j])
      BY <1>1 DEF Has
    <3> QED
      BY <1>3, <1>5, <2>4, <3>2, <3>3 DEF Chosen
  <2> QED
    BY <2>3, <2>4
<1> QED
  BY <1>4, <1>5

-----------------------------------------------------------------------------
(* What a step on a node in the list of p leads to.                         *)
EndsHere == pc' = "rest" /\ ret' # "entry"

Reaches(p) ==
  \E m \in Nodes :
    /\ Has(kids, p, m) /\ Chosen(p, iter.node, m) /\ iter'.node = m /\ loops' = loops
    /\ pc' = "rest" \/ (pc' = "down" /\ dir' = dir /\ m \in Groups)

Passes ==
  /\ dir = 1 /\ pc' = "step" /\ dir' = 1 /\ iter'.node = iter.node
  /\ loops' = loops /\ played' = played

Reshuffles(p) ==
  /\ p \in shuffled /\ \A x \in Nodes : Has(kids, p, x) => x \in played
  /\ pc' = "step" /\ dir' = 0 /\ iter'.node = iter.node
  /\ \A q \in Nodes \ {Root} : loops'[q] = loops[q]

Leaves(p) ==
  /\ dir = 1 /\ p \notin shuffled /\ Last(kids[p]) = iter.node /\ loops' = loops
  /\ pc' = "up" /\ dir' = 1 /\ iter'.node = iter.node

Repeats(p) ==
  /\ dir = 1 /\ p \notin shuffled /\ Last(kids[p]) = iter.node /\ loops' = loops
  /\ loops[p] # 0 /\ pc' = "step" /\ dir' = 0 /\ iter'.node = Head(kids[p])

Goes(p) ==
  \/ EndsHere \/ Reaches(p) \/ Passes \/ Reshuffles(p) \/ Leaves(p) \/ Repeats(p)

LEMMA RewindHead ==
  ASSUME IInv, pc = "step", iter.node # NoNode
  PROVE  Rewind(1).node = Head(Siblings(iter.node))
<1>1. PICK it \in Iterators : it = Left
  BY LeftTyped
<1>2. it = [live |-> it.live, node |-> it.node, loop |-> it.loop, file |-> it.file,
            pushed |-> it.pushed, random |-> it.random, stack |-> it.stack]
  BY Fields
<1>3. Rewind(1) = [it EXCEPT !.node = Head(Siblings(iter.node)),
                             !.loop = IF @ > 0 THEN @ - 1 ELSE @]
  BY <1>1 DEF Rewind
<1> QED
  BY <1>2, <1>3

(* Where a step starts from, in the list of p.                              *)
LEMMA StepsIn ==
  ASSUME OInv, Stepping, job # "peek", NEW p \in Groups, Has(kids, p, iter.node)
  PROVE  /\ iter.node \in Nodes /\ iter.node # NoNode /\ kids \in [Nodes -> Seq(Nodes)]
         /\ ParentOf(iter.node) = p /\ Siblings(iter.node) = kids[p] /\ pc = "step"
         /\ Left \in Iterators /\ Left.node = iter.node /\ OnePlace(kids) /\ IInv
<1>1. kids \in [Nodes -> Seq(Nodes)] /\ OnePlace(kids) /\ IInv /\ kids[p] \in Seq(Nodes)
  BY KidsTyped DEF OInv, NInv, Places, Nodes
<1>2. iter.node \in Nodes /\ iter.node # NoNode
  BY <1>1, NodesAssumption DEF Has
<1>3. pc = "step"
  BY DEF Stepping
<1>4. Left \in Iterators /\ Left.node = iter.node
  BY <1>1, <1>3, LeftTyped
<1> QED
  BY <1>1, <1>2, <1>3, <1>4, ParentIs

LEMMA PassEndsGoes ==
  ASSUME OInv, PassEnds, job # "peek", dir \in {0, 1}, NEW p \in Groups, Has(kids, p, iter.node)
  PROVE  Goes(p)
<1>1. Stepping /\ Left.random /\ Unplayed = {} /\ iter' = Left
  BY DEF PassEnds
<1>2. /\ iter.node \in Nodes /\ ParentOf(iter.node) = p /\ Siblings(iter.node) = kids[p]
      /\ Left.node = iter.node /\ IInv /\ kids \in [Nodes -> Seq(Nodes)]
  BY <1>1, StepsIn
<1>3. p \in shuffled
  BY <1>1, <1>2, LeftRandom
<1>4. \A x \in Nodes : Has(kids, p, x) => x \in played
  BY <1>1, <1>2 DEF Unplayed, ToSet, Has
<1>5. CASE loops[Root] = 0
  BY <1>5 DEF PassEnds, Return, Goes, EndsHere
<1>6. CASE loops[Root] # 0
  <2>1. /\ loops' = [loops EXCEPT ![Root] = IF @ > 0 THEN @ - 1 ELSE @]
        /\ pc' = "step" /\ dir' = 0
    BY <1>6 DEF PassEnds, Goto
  <2>2. loops \in [Nodes -> Int]
    BY <1>2 DEF IInv, TypeOK
  <2>3. \A q \in Nodes \ {Root} : loops'[q] = loops[q]
    BY <2>1, <2>2
  <2>4. Reshuffles(p)
    BY <1>1, <1>2, <1>3, <1>4, <2>1, <2>3 DEF Reshuffles
  <2> QED
    BY <2>4 DEF Goes
<1> QED
  BY <1>5, <1>6

LEMMA ListEndsGoes ==
  ASSUME OInv, ListEnds, job # "peek", dir \in {0, 1}, NEW p \in Groups, Has(kids, p, iter.node)
  PROVE  Goes(p)
<1>1. PICK t \in Targets :
        /\ t.to = NoNode
        /\ IF Again(t.left)
           THEN iter' = Rewind(t.left) /\ Goto("step", 0)
           ELSE iter' = Left /\ Goto("up", t.left)
  BY Zenon DEF ListEnds
<1>2. Stepping /\ ~Left.random /\ loops' = loops
  BY DEF ListEnds
<1>3. /\ iter.node \in Nodes /\ iter.node # NoNode /\ ParentOf(iter.node) = p
      /\ Siblings(iter.node) = kids[p] /\ Left.node = iter.node /\ IInv /\ pc = "step"
  BY <1>2, StepsIn
<1>4. t.left = dir /\ Chosen(p, iter.node, NoNode) /\ p \notin shuffled
  BY <1>1, <1>2, <1>3, SiblingTargets
<1>5. dir = 1 /\ Last(kids[p]) = iter.node
  BY <1>3, <1>4, NodesAssumption DEF Chosen
<1>6. CASE Again(t.left)
  <2>1. iter' = Rewind(1) /\ pc' = "step" /\ dir' = 0
    BY <1>1, <1>4, <1>5, <1>6 DEF Goto
  <2>2. loops[p] # 0
    BY <1>3, <1>6 DEF Again
  <2>3. iter'.node = Head(kids[p])
    BY <1>3, <2>1, RewindHead
  <2> QED
    BY <1>2, <1>4, <1>5, <2>1, <2>2, <2>3 DEF Goes, Repeats
<1>7. CASE ~Again(t.left)
  <2>1. iter' = Left /\ pc' = "up" /\ dir' = 1
    BY <1>1, <1>4, <1>5, <1>7 DEF Goto
  <2> QED
    BY <1>2, <1>3, <1>4, <1>5, <2>1 DEF Goes, Leaves
<1> QED
  BY <1>6, <1>7

LEMMA GroupGoes ==
  ASSUME OInv, Group, ~withNodes, job # "peek", dir \in {0, 1},
         NEW p \in Groups, Has(kids, p, iter.node)
  PROVE  Goes(p)
<1>1. PICK t \in Targets :
        t.to \in Enterable /\ iter' = [Left EXCEPT !.node = t.to] /\ Goto("down", t.left)
  BY Zenon DEF Group
<1>2. Stepping /\ loops' = loops
  BY DEF Group
<1>3. /\ iter.node \in Nodes /\ Left \in Iterators /\ kids \in [Nodes -> Seq(Nodes)]
  BY <1>2, StepsIn
<1>4. PICK m \in Nodes : m = t.to /\ m \in Groups /\ m # NoNode
  BY <1>1, NodesAssumption DEF Enterable, Nodes
<1>5. t.left = dir /\ Chosen(p, iter.node, m)
  BY <1>2, <1>3, <1>4, SiblingTargets
<1>6. Has(kids, p, m)
  BY <1>3, <1>4, <1>5 DEF Chosen
<1>7. NodeIs(iter', Left, m)
  BY <1>1, <1>4, Zenon DEF NodeIs
<1>8. iter'.node = m
  BY <1>3, <1>7, NodeTyped, Zenon
<1>9. pc' = "down" /\ dir' = dir
  BY <1>1, <1>5 DEF Goto
<1> QED
  BY <1>2, <1>4, <1>5, <1>6, <1>8, <1>9 DEF Goes, Reaches

LEMMA InvalidGoes ==
  ASSUME OInv, Invalid, job # "peek", dir \in {0, 1}, NEW p \in Groups, Has(kids, p, iter.node)
  PROVE  Goes(p)
<1>1. PICK t \in Targets :
        iter' = Left /\ IF t.left = 0 THEN Return("error") ELSE Goto("step", t.left)
  BY Zenon DEF Invalid
<1>2. Stepping /\ loops' = loops /\ played' = played
  BY DEF Invalid
<1>3. iter.node \in Nodes /\ Left.node = iter.node
  BY <1>2, StepsIn
<1>4. t.left = dir
  BY <1>2, <1>3, SiblingTargets
<1>5. CASE dir = 0
  BY <1>1, <1>4, <1>5 DEF Return, Goes, EndsHere
<1>6. CASE dir = 1
  <2>1. pc' = "step" /\ dir' = 1
    BY <1>1, <1>4, <1>6 DEF Goto
  <2> QED
    BY <1>1, <1>2, <1>3, <1>6, <2>1 DEF Goes, Passes
<1> QED
  BY <1>5, <1>6

LEMMA EntryGoes ==
  ASSUME OInv, Entry, job # "peek", dir \in {0, 1}, NEW p \in Groups, Has(kids, p, iter.node)
  PROVE  Goes(p)
<1>1. PICK t \in Targets :
        /\ t.to \in Valid \ Enterable
        /\ iter' = [Left EXCEPT !.node = t.to, !.pushed = @ \/ WithConfig]
        /\ Return(IF t.to \in Files THEN "entry" ELSE "crash")
  BY Zenon DEF Entry
<1>2. Stepping /\ loops' = loops
  BY DEF Entry
<1>3. /\ iter.node \in Nodes /\ Left \in Iterators /\ kids \in [Nodes -> Seq(Nodes)]
  BY <1>2, StepsIn
<1>4. PICK m \in Nodes : m = t.to /\ m # NoNode
  BY <1>1, NodesAssumption DEF Valid
<1>5. Chosen(p, iter.node, m)
  BY <1>2, <1>3, <1>4, SiblingTargets
<1>6. Has(kids, p, m)
  BY <1>3, <1>4, <1>5 DEF Chosen
<1>7. EnteredIs(iter', Left, m)
  BY <1>1, <1>4, Zenon DEF EnteredIs
<1>8. iter'.node = m
  BY <1>3, <1>7, EnteredTyped
<1>9. pc' = "rest"
  BY <1>1 DEF Return
<1> QED
  BY <1>2, <1>4, <1>5, <1>6, <1>8, <1>9 DEF Goes, Reaches

LEMMA StepGoes ==
  ASSUME OInv, PassEnds \/ ListEnds \/ Group \/ Invalid \/ Entry, ~withNodes, job # "peek",
         dir \in {0, 1}, NEW p \in Groups, Has(kids, p, iter.node)
  PROVE  Goes(p)
BY PassEndsGoes, ListEndsGoes, GroupGoes, InvalidGoes, EntryGoes, Zenon

(* At the root there is only the way up.                                    *)
LEMMA RootGoes ==
  ASSUME OInv, PassEnds \/ ListEnds \/ Group \/ Invalid \/ Entry, job # "peek", dir = 1,
         iter.node = Root
  PROVE  pc' = "up" /\ dir' = 1 /\ iter'.node = Root
<1>1. Stepping /\ pc = "step" /\ Root \in Nodes /\ iter.node # NoNode
  BY NodesAssumption, Zenon DEF PassEnds, ListEnds, Group, Invalid, Entry, Stepping, Nodes
<1>2. kids \in [Nodes -> Seq(Nodes)] /\ Topped(kids) /\ IInv
  BY KidsTyped DEF OInv, NInv
<1>3. ParentOf(Root) = NoNode
  BY <1>2, ParentHasIt DEF Topped, Has
<1>4. /\ ~Left.random /\ \A d \in Int : ~ Again(d)
      /\ \A t \in Targets : t.to = NoNode /\ t.left = 1
  <2>1. iter.node \in Nodes /\ ParentOf(iter.node) = NoNode /\ dir \in {1, -1}
    BY <1>1, <1>3
  <2>2. /\ ~Left.random /\ \A d \in Int : ~ Again(d)
        /\ \A t \in Targets : t.to = NoNode /\ t.left = dir
    BY <1>1, <2>1, TopTargets
  <2> QED
    BY <2>2
<1>5. NoNode \notin Enterable /\ NoNode \notin Nodes /\ NoNode \notin Valid
  BY NodesAssumption DEF Enterable, Valid, Nodes
<1>6. ~ PassEnds /\ ~ Group /\ ~ Invalid /\ ~ Entry
  BY <1>4, <1>5, Zenon DEF PassEnds, Group, Invalid, Entry
<1>7. ListEnds
  BY <1>6
<1>8. PICK t \in Targets :
        IF Again(t.left)
        THEN iter' = Rewind(t.left) /\ Goto("step", 0)
        ELSE iter' = Left /\ Goto("up", t.left)
  BY <1>7, Zenon DEF ListEnds
<1>9. iter' = Left /\ pc' = "up" /\ dir' = 1
  BY <1>4, <1>8 DEF Goto
<1> QED
  BY <1>1, <1>2, <1>9, LeftTyped

-----------------------------------------------------------------------------
(* The way from a playlist stays such a way as the iterator moves.          *)
Hunting(f, l) == Climbing(f, l) \/ Descending(f, l) \/ Found(f, l)

SameWay == kids' = kids /\ shuffled' = shuffled /\ job' = job /\ victim' = victim

LEMMA EndsHunt ==
  ASSUME NEW f, NEW l, EndsHere
  PROVE  Hunting(f, l)'
BY DEF EndsHere, Hunting, Found

(* A sibling or a child beside the way.                                     *)
LEMMA BesideHunt ==
  ASSUME NEW f \in [Nat -> Nodes], NEW l \in Nat, SameWay, Trail(kids, f, l, victim),
         Beside(iter'.node, f, l),
         \/ pc' = "rest" \/ (pc' = "down" /\ dir' \in {0, 1})
         \/ pc' = "step" /\ dir' = 0 /\ ParentOf(iter'.node) \notin shuffled
  PROVE  Hunting(f, l)'
<1>1. CASE pc' = "rest"
  <2>1. f[l] = victim' /\ l \in 0..l
    BY DEF Trail, SameWay
  <2>2. iter'.node # victim'
    BY <2>1 DEF Beside
  <2> QED
    BY <1>1, <2>2 DEF Hunting, Found
<1>2. CASE pc' = "down" /\ dir' \in {0, 1}
  BY <1>2 DEF Hunting, Descending
<1>3. CASE pc' = "step" /\ dir' = 0 /\ ParentOf(iter'.node) \notin shuffled
  <2>1. (ParentOf(iter.node))' = ParentOf(iter'.node)
    BY Zenon DEF ParentOf, SameWay
  <2> QED
    BY <1>3, <2>1 DEF Hunting, Descending, SameWay
<1> QED
  BY <1>1, <1>2, <1>3

(* Brought back to the way.                                                 *)
LEMMA BackHunt ==
  ASSUME NEW f \in [Nat -> Nodes], NEW l \in Nat, SameWay, Trail(kids, f, l, victim),
         Contents[victim] = NoEntry, victim \in Files,
         NEW i \in 1..l, iter'.node = f[i], BackAt(kids, loops', shuffled, job, f, l, i),
         \/ pc' = "rest" \/ (pc' = "down" /\ dir' \in {0, 1}) \/ (pc' = "step" /\ dir' = 0)
  PROVE  Hunting(f, l)'
<1>1. CASE pc' = "rest"
  <2>1. ASSUME f[i] = victim PROVE i = l
    <3>1. f[i] \notin Groups
      BY <2>1, NodesAssumption
    <3>2. i \in 0..(l - 1) => f[i] \in Groups
      BY DEF Trail
    <3> QED
      BY <3>1, <3>2
  <2> QED
    BY <1>1, <2>1 DEF Hunting, Found, SameWay
<1>2. CASE (pc' = "down" /\ dir' \in {0, 1}) \/ (pc' = "step" /\ dir' = 0)
  BY <1>2 DEF Hunting, Descending, SameWay
<1> QED
  BY <1>1, <1>2

LEMMA BackStays ==
  ASSUME NEW k, NEW lo, NEW lo2, NEW sh, NEW w, NEW f, NEW l \in Nat, NEW i \in 0..l,
         BackAt(k, lo, sh, w, f, l, i),
         \A h \in 1..i : f[h - 1] \in sh \/ lo2[f[h - 1]] = lo[f[h - 1]]
  PROVE  BackAt(k, lo2, sh, w, f, l, i)
BY DEF BackAt, Brings

(* A list that ends with its first has nothing else.                        *)
LEMMA Single ==
  ASSUME kids \in [Nodes -> Seq(Nodes)], OnePlace(kids), NEW p \in Groups, kids[p] # <<>>,
         NEW n, Head(kids[p]) = n, Last(kids[p]) = n
  PROVE  kids[p] = <<n>>
<1>1. PICK s \in Seq(Nodes) : s = kids[p]
  BY DEF Nodes
<1>2. \A i, j \in DOMAIN s : s[i] = s[j] => i = j
  BY <1>1 DEF OnePlace
<1>3. s # <<>> /\ s[1] = n /\ s[Len(s)] = n
  BY <1>1 DEF Last
<1>4. 1 \in DOMAIN s /\ Len(s) \in DOMAIN s
  BY <1>3
<1>5. Len(s) = 1
  BY <1>2, <1>3, <1>4
<1> QED
  BY <1>1, <1>3, <1>5

(* Begun at the i-th, where a list is shuffled or repeats it.               *)
LEMMA BackHere ==
  ASSUME NEW k, NEW lo, NEW sh, NEW w, NEW f, NEW l \in Nat, NEW i \in 1..l,
         Brings(k, lo, sh, f, i), LastDown(k, f, i, l), w = "unlooped" => i < l
  PROVE  BackAt(k, lo, sh, w, f, l, i)
<1>1. AloneDown(k, f, i, i)
  BY DEF AloneDown
<1> QED
  BY <1>1 DEF BackAt

(* A step while the way up goes on.                                         *)
LEMMA ClimbGoes ==
  ASSUME OInv, SameWay, dir = 1, victim \in Files, Contents[victim] = NoEntry,
         NEW f \in [Nat -> Nodes], NEW l \in Nat, Trail(kids, f, l, victim),
         NEW i \in 1..l, iter.node = f[i], LastDown(kids, f, i, l),
         job = "unlooped" => i < l, Goes(f[i - 1])
  PROVE  Hunting(f, l)'
<1> DEFINE p == f[i - 1]
<1>1. /\ p \in Groups /\ p \in Nodes /\ f[i] \in Nodes /\ Has(kids, p, f[i])
      /\ kids \in [Nodes -> Seq(Nodes)] /\ OnePlace(kids) /\ Levels
  BY TrailUp, KidsTyped DEF OInv, NInv, Places
<1>0. i \in 0..l
  OBVIOUS
<1>2. CASE EndsHere
  BY <1>2, EndsHunt
<1>3. CASE Reaches(p)
  <2>1. PICK m \in Nodes :
          /\ Has(kids, p, m) /\ Chosen(p, iter.node, m) /\ iter'.node = m /\ loops' = loops
          /\ pc' = "rest" \/ (pc' = "down" /\ dir' = dir)
    BY <1>3 DEF Reaches
  <2>2. pc' = "rest" \/ (pc' = "down" /\ dir' \in {0, 1})
    BY <2>1
  <2>3. CASE m = f[i]
    <3>1. p \in shuffled
      BY <1>1, <2>1, <2>3, NodesAssumption DEF Chosen
    <3>2. Brings(kids, loops', shuffled, f, i)
      BY <3>1 DEF Brings
    <3>3. BackAt(kids, loops', shuffled, job, f, l, i)
      BY <3>2, BackHere
    <3> QED
      BY <2>1, <2>2, <2>3, <3>3, BackHunt
  <2>4. CASE m # f[i]
    <3>1. Beside(m, f, l)
      BY <1>1, <2>1, <2>4, SiblingBeside
    <3> QED
      BY <2>1, <2>2, <3>1, BesideHunt
  <2> QED
    BY <2>3, <2>4
<1>4. CASE Passes
  <2>1. pc' = "step" /\ dir' = 1 /\ iter'.node = f[i]
    BY <1>4 DEF Passes
  <2>2. ClimbsAt(kids, job, pc', iter'.node, f, l, i)
    BY <2>1 DEF ClimbsAt
  <2> QED
    BY <1>0, <2>1, <2>2 DEF Hunting, Climbing, SameWay
<1>5. CASE Reshuffles(p)
  <2>1. Brings(kids, loops', shuffled, f, i)
    BY <1>5 DEF Brings, Reshuffles
  <2>2. BackAt(kids, loops', shuffled, job, f, l, i)
    BY <2>1, BackHere
  <2>3. pc' = "step" /\ dir' = 0 /\ iter'.node = f[i]
    BY <1>5 DEF Reshuffles
  <2> QED
    BY <2>2, <2>3, BackHunt
<1>6. CASE Leaves(p)
  <2>1. pc' = "up" /\ dir' = 1 /\ iter'.node = f[i] /\ Last(kids[p]) = f[i]
    BY <1>6 DEF Leaves
  <2>2. LastDown(kids, f, i - 1, l)
    BY <2>1 DEF LastDown
  <2>3. ClimbsAt(kids, job, pc', iter'.node, f, l, i)
    BY <2>1, <2>2 DEF ClimbsAt
  <2> QED
    BY <1>0, <2>1, <2>3 DEF Hunting, Climbing, SameWay
<1>7. CASE Repeats(p)
  <2>1. /\ p \notin shuffled /\ Last(kids[p]) = f[i] /\ loops' = loops /\ loops[p] # 0
        /\ pc' = "step" /\ dir' = 0 /\ iter'.node = Head(kids[p])
    BY <1>7 DEF Repeats
  <2>2. kids[p] \in Seq(Nodes) /\ kids[p] # <<>>
    BY <1>1 DEF Has
  <2>3. CASE Head(kids[p]) = f[i]
    <3>1. kids[p] = <<f[i]>>
      BY <1>1, <2>1, <2>2, <2>3, Single
    <3>2. Brings(kids, loops', shuffled, f, i)
      BY <2>1, <3>1 DEF Brings
    <3>3. BackAt(kids, loops', shuffled, job, f, l, i)
      BY <3>2, BackHere
    <3> QED
      BY <2>1, <2>3, <3>3, BackHunt
  <2>4. CASE Head(kids[p]) # f[i]
    <3>1. PICK m \in Nodes : m = Head(kids[p]) /\ Has(kids, p, m)
      BY <1>1, <2>2, ChildHas
    <3>2. Beside(m, f, l)
      BY <1>1, <2>4, <3>1, SiblingBeside
    <3>3. ParentOf(m) = p
      BY <1>1, <3>1, ParentIs
    <3> QED
      BY <2>1, <3>1, <3>2, <3>3, BesideHunt
  <2> QED
    BY <2>3, <2>4
<1> QED
  BY <1>2, <1>3, <1>4, <1>5, <1>6, <1>7 DEF Goes

(* A step back to a node on the way, or to one beside it.                   *)
LEMMA BackGoes ==
  ASSUME OInv, SameWay, dir = 0, victim \in Files, Contents[victim] = NoEntry,
         shuffled \subseteq {Root},
         NEW f \in [Nat -> Nodes], NEW l \in Nat, Trail(kids, f, l, victim),
         NEW i \in 1..l, iter.node = f[i], BackAt(kids, loops, shuffled, job, f, l, i),
         Goes(f[i - 1])
  PROVE  Hunting(f, l)'
<1> DEFINE p == f[i - 1]
<1>1. /\ p \in Groups /\ p \in Nodes /\ f[i] \in Nodes /\ Has(kids, p, f[i])
      /\ kids \in [Nodes -> Seq(Nodes)] /\ OnePlace(kids) /\ Levels
  BY TrailUp, KidsTyped DEF OInv, NInv, Places
<1>2. CASE EndsHere
  BY <1>2, EndsHunt
<1>3. CASE Reaches(p)
  <2>1. PICK m \in Nodes :
          /\ Has(kids, p, m) /\ iter'.node = m /\ loops' = loops
          /\ pc' = "rest" \/ (pc' = "down" /\ dir' = dir)
    BY <1>3 DEF Reaches
  <2>2. pc' = "rest" \/ (pc' = "down" /\ dir' \in {0, 1})
    BY <2>1
  <2>3. CASE m = f[i]
    BY <2>1, <2>2, <2>3, BackHunt
  <2>4. CASE m # f[i]
    <3>1. Beside(m, f, l)
      BY <1>1, <2>1, <2>4, SiblingBeside
    <3> QED
      BY <2>1, <2>2, <3>1, BesideHunt
  <2> QED
    BY <2>3, <2>4
<1>5. CASE Reshuffles(p)
  <2>1. /\ pc' = "step" /\ dir' = 0 /\ iter'.node = f[i] /\ p \in shuffled
        /\ \A q \in Nodes \ {Root} : loops'[q] = loops[q]
    BY <1>5 DEF Reshuffles
  <2>2. ASSUME NEW h \in 1..i PROVE f[h - 1] \in shuffled \/ loops'[f[h - 1]] = loops[f[h - 1]]
    <3>1. h - 1 \in Nat /\ f[h - 1] \in Nodes /\ Root \in shuffled
      BY <2>1
    <3> QED
      BY <2>1, <3>1
  <2>3. i \in 0..l
    OBVIOUS
  <2>4. BackAt(kids, loops', shuffled, job, f, l, i)
    BY <2>2, <2>3, BackStays
  <2> QED
    BY <2>1, <2>4, BackHunt
<1>6. ~ Passes /\ ~ Leaves(p) /\ ~ Repeats(p)
  BY DEF Passes, Leaves, Repeats
<1> QED
  BY <1>2, <1>3, <1>5, <1>6 DEF Goes

(* A step beside the way, onto the node where the iterator is.              *)
LEMMA BesideGoes ==
  ASSUME OInv, SameWay, dir = 0, NEW f \in [Nat -> Nodes], NEW l \in Nat,
         Trail(kids, f, l, victim), Beside(iter.node, f, l), iter.node # NoNode,
         NEW p \in Groups, p \notin shuffled, Goes(p)
  PROVE  Hunting(f, l)'
<1>1. CASE EndsHere
  BY <1>1, EndsHunt
<1>2. CASE Reaches(p)
  <2>1. iter'.node = iter.node /\ (pc' = "rest" \/ (pc' = "down" /\ dir' \in {0, 1}))
    BY <1>2 DEF Reaches, Chosen
  <2>2. Beside(iter'.node, f, l)
    BY <2>1
  <2> QED
    BY <2>1, <2>2, BesideHunt
<1>3. ~ Passes /\ ~ Reshuffles(p) /\ ~ Leaves(p) /\ ~ Repeats(p)
  BY DEF Passes, Reshuffles, Leaves, Repeats
<1> QED
  BY <1>1, <1>2, <1>3 DEF Goes

(* A step from a playlist that its entries follow.                          *)
LEMMA FollowedGoes ==
  ASSUME OInv, SameWay, dir = 1, pc = "step", job = "added", victim \in Files,
         Contents[victim] # NoEntry, shuffled \subseteq {Root},
         NEW f \in [Nat -> Nodes], NEW l \in Nat, l >= 1, Trail(kids, f, l, victim),
         iter.node = victim, Followed(kids, shuffled, played, victim, f[l - 1]), Goes(f[l - 1])
  PROVE  Hunting(f, l)'
<1> DEFINE p == f[l - 1]
<1>0. l \in 1..l /\ f[l] = victim
  BY DEF Trail
<1>1. /\ p \in Groups /\ p \in Nodes /\ Has(kids, p, f[l])
      /\ kids \in [Nodes -> Seq(Nodes)] /\ OnePlace(kids) /\ Levels
  BY <1>0, TrailUp, KidsTyped DEF OInv, NInv, Places
<1>2. CASE EndsHere
  BY <1>2, EndsHunt
<1>3. CASE Reaches(p)
  <2>1. PICK m \in Nodes :
          /\ Has(kids, p, m) /\ Chosen(p, iter.node, m) /\ iter'.node = m
          /\ pc' = "rest" \/ (pc' = "down" /\ dir' \in {0, 1})
    BY <1>3 DEF Reaches
  <2>2. m # f[l]
    BY <1>0, <2>1, NodesAssumption DEF Chosen, Followed
  <2>3. Beside(m, f, l)
    BY <1>0, <1>1, <2>1, <2>2, SiblingBeside
  <2> QED
    BY <2>1, <2>3, BesideHunt
<1>4. CASE Passes
  BY <1>4 DEF Passes, Hunting, Climbing, SameWay
<1>5. ~ Reshuffles(p) /\ ~ Leaves(p) /\ ~ Repeats(p)
  BY DEF Reshuffles, Leaves, Repeats, Followed
<1> QED
  BY <1>2, <1>3, <1>4, <1>5 DEF Goes

(* What the way is known by.                                                *)
OnTheWay(f, l) ==
  /\ job \in {"added", "unlooped"} /\ shuffled \subseteq {Root} /\ victim \in Files
  /\ f \in [Nat -> Nodes] /\ l \in Nat /\ l >= 1 /\ Trail(kids, f, l, victim)

LEMMA DownHunts ==
  ASSUME OInv, Down, NEW f, NEW l, OnTheWay(f, l), Hunting(f, l)
  PROVE  Hunting(f, l)'
<1>1. /\ pc = "down" /\ pc' = "step" /\ dir' = 0 /\ SameWay /\ loops' = loops
  BY DEF Down, hold, Goto, tree, SameWay
<1>2. Descending(f, l) /\ dir \in {0, 1} /\ dir >= 0
  BY <1>1 DEF Hunting, Climbing, Descending, Found
<1>3. f \in [Nat -> Nodes] /\ l \in Nat /\ Trail(kids, f, l, victim) /\ victim \in Files
      /\ shuffled \subseteq {Root}
  BY DEF OnTheWay
<1>4. /\ kids \in [Nodes -> Seq(Nodes)] /\ Topped(kids) /\ OnePlace(kids) /\ Levels
  BY KidsTyped DEF OInv, NInv, Places
<1>5. PICK p \in Groups : p = iter.node /\ kids[p] # <<>> /\ iter'.node = Head(kids[p])
  BY <1>2, DownMoves DEF OInv, NInv
<1>6. PICK m \in Nodes : m = Head(kids[p]) /\ iter'.node = m /\ Has(kids, p, m)
  BY <1>4, <1>5, ChildHas
<1>7. ParentOf(m) = p
  BY <1>4, <1>6, ParentIs
<1>8. CASE Beside(p, f, l)
  <2>1. Beside(m, f, l)
    BY <1>3, <1>4, <1>6, <1>8, BelowBeside
  <2>2. p # Root
    <3>1. f[0] = Root /\ 0 \in 0..l
      BY <1>3 DEF Trail
    <3> QED
      BY <1>8, <3>1 DEF Beside
  <2> QED
    BY <1>1, <1>3, <1>6, <1>7, <2>1, <2>2, BesideHunt
<1>9. ASSUME Contents[victim] = NoEntry, NEW i \in 1..l, p = f[i],
             BackAt(kids, loops, shuffled, job, f, l, i)
      PROVE  Hunting(f, l)'
  <2>1. i \in 0..(l - 1) /\ i + 1 \in 1..l /\ i = (i + 1) - 1
    <3>1. i \in 0..l /\ f[i] \in Groups
      BY <1>9
    <3>2. i \in 0..(l - 1)
      BY <1>3, <3>1, GroupAbove
    <3> QED
      BY <1>3, <3>2
  <2>2. p # Root
    <3>1. Has(kids, f[i - 1], f[i]) /\ f[i - 1] \in Groups
      BY <1>3, TrailUp
    <3> QED
      BY <1>4, <1>9, <3>1 DEF Topped
  <2>3. CASE m # f[i + 1]
    <3>1. PICK j \in 1..l : j = i + 1 /\ f[j - 1] = p
      BY <1>9, <2>1
    <3>2. Beside(m, f, l)
      BY <1>3, <1>4, <1>6, <2>3, <3>1, SiblingBeside
    <3> QED
      BY <1>1, <1>3, <1>6, <1>7, <2>2, <3>2, BesideHunt
  <2>4. CASE m = f[i + 1]
    <3>1. PICK h \in 1..i :
            /\ job = "unlooped" => h < l
            /\ Brings(kids, loops, shuffled, f, h) /\ LastDown(kids, f, h, l)
            /\ AloneDown(kids, f, h, i)
      BY <1>9 DEF BackAt
    <3>2. Last(kids[p]) = m
      <4>1. i \in h..(l - 1)
        BY <2>1
      <4> QED
        BY <1>9, <2>4, <3>1, <4>1 DEF LastDown
    <3>3. kids[p] = <<m>>
      BY <1>4, <1>5, <1>6, <3>2, Single
    <3>4. AloneDown(kids, f, h, i + 1)
      <4>1. ASSUME NEW j \in h..((i + 1) - 1) PROVE kids[f[j]] = <<f[j + 1]>>
        <5>1. CASE j = i
          BY <1>9, <2>4, <3>3, <5>1
        <5>2. CASE j # i
          <6>1. j \in h..(i - 1)
            BY <5>2
          <6> QED
            BY <3>1, <6>1 DEF AloneDown
        <5> QED
          BY <5>1, <5>2
      <4> QED
        BY <4>1 DEF AloneDown
    <3>5. PICK j \in 1..l : j = i + 1 /\ h \in 1..j
      BY <2>1
    <3>6. BackAt(kids, loops', shuffled, job, f, l, j)
      BY <1>1, <3>1, <3>4, <3>5 DEF BackAt
    <3>7. iter'.node = f[j]
      BY <1>6, <2>4, <3>5
    <3> QED
      BY <1>1, <1>3, <1>9, <3>6, <3>7, BackHunt
  <2> QED
    BY <2>3, <2>4
<1> QED
  BY <1>2, <1>5, <1>8, <1>9 DEF Descending

LEMMA UpHunts ==
  ASSUME OInv, Up, NEW f, NEW l, OnTheWay(f, l), Hunting(f, l)
  PROVE  Hunting(f, l)'
<1>1. /\ pc = "up" /\ SameWay
  BY DEF Up, hold, SameWay
<1>2. f \in [Nat -> Nodes] /\ l \in Nat /\ Trail(kids, f, l, victim)
  BY DEF OnTheWay
<1>3. /\ dir = 1 /\ Contents[victim] = NoEntry
      /\ \E i \in 0..l : ClimbsAt(kids, job, pc, iter.node, f, l, i)
  BY <1>1 DEF Hunting, Climbing, Descending, Found
<1>4. PICK i \in 0..l : /\ iter.node = f[i]
                        /\ i >= 2 => LastDown(kids, f, i - 1, l)
  BY <1>1, <1>3 DEF ClimbsAt
<1>5. CASE ParentOf(iter.node) = NoNode
  BY <1>5, EndsHunt DEF Up, Return, EndsHere
<1>6. CASE ParentOf(iter.node) # NoNode
  <2>1. /\ kids \in [Nodes -> Seq(Nodes)] /\ Topped(kids) /\ OnePlace(kids)
    BY KidsTyped DEF OInv, NInv, Places
  <2>2. i # 0
    BY <1>2, <1>4, <1>6, <2>1, ParentHasIt DEF Trail, Topped, Has
  <2>3. i \in 1..l
    BY <2>2
  <2>4. ParentOf(f[i]) = f[i - 1]
    BY <1>2, <2>1, <2>3, TrailUp, ParentIs
  <2>5. iter'.node = f[i - 1] /\ pc' = "step" /\ dir' = 1
    <3>1. iter'.node = ParentOf(iter.node)
      BY <1>6, UpMoves DEF OInv, NInv
    <3> QED
      BY <1>3, <1>4, <1>6, <2>4, <3>1 DEF Up, Goto
  <2>6. PICK j \in 0..l : j = i - 1 /\ j < l
    BY <1>2, <2>3
  <2>7. ClimbsAt(kids, job, "step", f[j], f, l, j)
    BY <1>4, <2>6 DEF ClimbsAt
  <2> QED
    BY <1>1, <1>3, <2>5, <2>6, <2>7 DEF Hunting, Climbing, SameWay
<1> QED
  BY <1>5, <1>6

(* A step along the way.                                                    *)
LEMMA StepHunts ==
  ASSUME OInv, ~withNodes, PassEnds \/ ListEnds \/ Group \/ Invalid \/ Entry,
         NEW f, NEW l, OnTheWay(f, l), Hunting(f, l)
  PROVE  Hunting(f, l)'
<1>1. Stepping /\ pc = "step" /\ iter.node # NoNode
  BY Zenon DEF PassEnds, ListEnds, Group, Invalid, Entry, Stepping
<1>2. SameWay /\ job # "peek"
  BY <1>1 DEF Stepping, hold, SameWay, OnTheWay
<1>3. /\ f \in [Nat -> Nodes] /\ l \in Nat /\ l >= 1 /\ Trail(kids, f, l, victim)
      /\ victim \in Files /\ shuffled \subseteq {Root} /\ job \in {"added", "unlooped"}
  BY DEF OnTheWay
<1>4. /\ kids \in [Nodes -> Seq(Nodes)] /\ OnePlace(kids)
  BY KidsTyped DEF OInv, NInv, Places
<1>5. ASSUME NEW i \in 1..l, iter.node = f[i], dir \in {0, 1} PROVE Goes(f[i - 1])
  <2>1. f[i - 1] \in Groups /\ Has(kids, f[i - 1], iter.node)
    BY <1>3, <1>5, TrailUp
  <2> QED
    BY <1>2, <1>5, <2>1, StepGoes
<1>6. CASE Climbing(f, l) /\ Contents[victim] = NoEntry
  <2>1. dir = 1
    BY <1>6 DEF Climbing
  <2>2. PICK i \in 0..l :
          /\ iter.node = f[i]
          /\ i >= 1 => LastDown(kids, f, i, l)
          /\ job = "unlooped" => i < l
    BY <1>1, <1>6 DEF Climbing, ClimbsAt
  <2>3. CASE i = 0
    <3>1. iter.node = Root
      BY <1>3, <2>2, <2>3 DEF Trail
    <3>2. pc' = "up" /\ dir' = 1 /\ iter'.node = f[0]
      BY <1>2, <2>1, <2>2, <2>3, <3>1, RootGoes
    <3>3. 0 \in 0..l /\ ClimbsAt(kids, job, "up", f[0], f, l, 0)
      BY <1>3 DEF ClimbsAt
    <3> QED
      BY <1>2, <1>6, <3>2, <3>3 DEF Hunting, Climbing, SameWay
  <2>4. CASE i # 0
    <3>1. i \in 1..l
      BY <2>4
    <3> QED
      BY <1>2, <1>3, <1>5, <1>6, <2>1, <2>2, <3>1, ClimbGoes
  <2> QED
    BY <2>3, <2>4
<1>7. CASE Climbing(f, l) /\ Contents[victim] # NoEntry
  <2>1. /\ dir = 1 /\ job = "added" /\ iter.node = victim
        /\ Followed(kids, shuffled, played, victim, f[l - 1])
    BY <1>7 DEF Climbing
  <2>2. l \in 1..l /\ f[l] = victim
    BY <1>3 DEF Trail
  <2>3. Goes(f[l - 1])
    BY <1>5, <2>1, <2>2
  <2> QED
    BY <1>1, <1>2, <1>3, <1>7, <2>1, <2>3, FollowedGoes
<1>8. CASE Descending(f, l) /\ Beside(iter.node, f, l)
  <2>1. dir = 0
    BY <1>1, <1>8 DEF Descending
  <2>2. ASSUME NEW i \in 1..l PROVE iter.node # f[i]
    BY <1>8 DEF Beside
  <2>3. ParentOf(iter.node) \notin shuffled
    BY <1>1, <1>8, <2>2 DEF Descending
  <2>4. iter.node # Root
    <3>1. f[0] = Root /\ 0 \in 0..l
      BY <1>3 DEF Trail
    <3> QED
      BY <1>8, <3>1 DEF Beside
  <2>5. ~ Freed(kids, iter.node)
    <3>1. EndsSoon(iter.node)
      BY <1>2 DEF OInv, Strays
    <3> QED
      BY <1>1, <1>3, <2>1, <3>1 DEF EndsSoon
  <2>6. PICK p \in Groups : Has(kids, p, iter.node)
    <3>1. Housed(kids, iter.node)
      BY <1>1, <2>5 DEF OInv, NInv, Places, Here
    <3>2. PICK g \in [Nat -> Nodes], e \in Nat : Trail(kids, g, e, iter.node)
      BY <3>1 DEF Housed
    <3>3. e # 0
      BY <2>4, <3>2 DEF Trail
    <3>4. e \in 1..e /\ g[e] = iter.node
      BY <3>2, <3>3 DEF Trail
    <3> QED
      BY <3>2, <3>4, TrailUp
  <2>7. ParentOf(iter.node) = p
    BY <1>4, <2>6, ParentIs
  <2>8. Goes(p)
    BY <1>2, <2>1, <2>6, StepGoes
  <2> QED
    BY <1>1, <1>2, <1>3, <1>8, <2>1, <2>3, <2>7, <2>8, BesideGoes
<1>9. CASE Descending(f, l) /\ ~ Beside(iter.node, f, l)
  <2>1. dir = 0
    BY <1>1, <1>9 DEF Descending
  <2>2. PICK i \in 1..l : iter.node = f[i] /\ BackAt(kids, loops, shuffled, job, f, l, i)
    BY <1>9 DEF Descending
  <2>3. Contents[victim] = NoEntry
    BY <1>9 DEF Descending
  <2>4. Goes(f[i - 1])
    BY <1>5, <2>1, <2>2
  <2> QED
    BY <1>2, <1>3, <2>1, <2>2, <2>3, <2>4, BackGoes
<1> QED
  BY <1>1, <1>6, <1>7, <1>8, <1>9 DEF Hunting, Found

LEMMA IterateHunts ==
  ASSUME OInv, Nodeless, Hunts, Iterate
  PROVE  Hunts'
<1>1. /\ kids' = kids /\ shuffled' = shuffled /\ job' = job /\ victim' = victim /\ pc # "rest"
  BY Zenon DEF Iterate, FirstStep, PassEnds, ListEnds, Group, Invalid, Entry, Stepping, Up, Down,
               hold, tree
<1>2. SUFFICES ASSUME job \in {"added", "unlooped"}, shuffled \subseteq {Root},
                      ~ Freed(kids, victim)
               PROVE  \E f \in [Nat -> Nodes], l \in Nat :
                        l >= 1 /\ Trail(kids', f, l, victim') /\ Hunting(f, l)'
  BY <1>1 DEF Hunts, Hunting
<1>3. PICK f \in [Nat -> Nodes], l \in Nat :
        l >= 1 /\ Trail(kids, f, l, victim) /\ Hunting(f, l)
  BY <1>2, Zenon DEF Hunts, Hunting
<1>4. victim \in Files /\ ~withNodes
  <2>1. victim # NoNode
    BY <1>2, NodesAssumption DEF OInv, Marks, Nodes
  <2> QED
    BY <1>1, <1>2, <2>1, Known DEF OInv, NInv, Nodeless
<1>5. OnTheWay(f, l)
  BY <1>2, <1>3, <1>4 DEF OnTheWay
<1>6. ~ FirstStep
  <2>1. f[0] = Root
    BY <1>3 DEF Trail
  <2>2. ASSUME iter.node = NoNode PROVE FALSE
    BY <1>2, <2>2 DEF OInv, Unstarted, NInv, IInv, Calls
  <2> QED
    BY <2>2 DEF FirstStep
<1>7. Hunting(f, l)'
  BY <1>3, <1>4, <1>5, <1>6, StepHunts, UpHunts, DownHunts, Zenon DEF Iterate
<1> QED
  BY <1>1, <1>3, <1>7

-----------------------------------------------------------------------------
(* The rest of the invariant, as the iterator moves.                        *)
LEMMA LeftMoves ==
  ASSUME NInv, PassEnds \/ ListEnds \/ Group \/ Invalid
  PROVE  /\ pc = "step" /\ iter'.pushed = (iter.pushed /\ ~WithConfig)
         /\ \/ iter'.node = iter.node \/ iter'.node \in Groups
            \/ \E q \in Groups : Has(kids, q, iter'.node)
<1>1. pc = "step" /\ iter.node # NoNode /\ Stepping
  BY Zenon DEF PassEnds, ListEnds, Group, Invalid, Stepping
<1>2. IInv /\ kids \in [Nodes -> Seq(Nodes)] /\ iter.node \in Nodes /\ dir \in Int
  BY <1>1, StepFrom DEF NInv
<1>3. /\ Left \in Iterators /\ Left.node = iter.node
      /\ Left.pushed = (iter.pushed /\ ~WithConfig)
  BY <1>1, <1>2, LeftTyped
<1>4. CASE iter' = Left
  BY <1>1, <1>3, <1>4
<1>6. CASE ListEnds
  <2>1. PICK t \in Targets : iter' = Rewind(t.left) \/ iter' = Left
    BY <1>6, Zenon DEF ListEnds
  <2>2. CASE iter' = Rewind(t.left)
    <3>1. PICK d \in Int : iter' = Rewind(d)
      BY <1>2, <2>2, TargetsNear
    <3>2. iter'.pushed = Left.pushed /\ iter'.node \in ToSet(Siblings(iter.node))
      BY <1>1, <1>2, <3>1, RewindTyped
    <3>3. iter'.node = iter.node \/ \E q \in Groups : Has(kids, q, iter'.node)
      BY <1>2, <3>2, SiblingHas
    <3> QED
      BY <1>1, <1>3, <3>2, <3>3
  <2> QED
    BY <1>4, <2>1, <2>2
<1>7. CASE Group
  <2>1. PICK t \in Targets : t.to \in Enterable /\ iter' = [Left EXCEPT !.node = t.to]
    BY <1>7, Zenon DEF Group
  <2>2. PICK n \in Nodes : n = t.to /\ n \in Groups
    BY <2>1 DEF Enterable, Nodes
  <2>3. NodeIs(iter', Left, n)
    BY <2>1, <2>2, Zenon DEF NodeIs
  <2>4. PICK it \in Iterators : it = Left
    BY <1>3
  <2>5. iter'.node = n /\ iter'.pushed = it.pushed
    BY <2>3, <2>4, NodeTyped
  <2> QED
    BY <1>1, <1>3, <2>2, <2>4, <2>5
<1>8. CASE PassEnds \/ Invalid
  <2>1. iter' = Left
    BY <1>8, Zenon DEF PassEnds, Invalid
  <2> QED
    BY <1>4, <2>1
<1> QED
  BY <1>6, <1>7, <1>8

LEMMA EntryMoves ==
  ASSUME NInv, Entry
  PROVE  /\ pc = "step" /\ pc' = "rest"
         /\ \E m \in Nodes :
              /\ m \in ToSet(Siblings(iter.node)) /\ iter'.node = m /\ m \in Valid
              /\ m \in Files \/ ret' = "crash"
              /\ played' = IF WithConfig /\ Left.random THEN played \cup {m} ELSE played
<1>1. PICK t \in Targets :
        /\ t.to \in Valid \ Enterable
        /\ iter' = [Left EXCEPT !.node = t.to, !.pushed = @ \/ WithConfig]
        /\ played' = IF WithConfig /\ Left.random THEN played \cup {t.to} ELSE played
        /\ Return(IF t.to \in Files THEN "entry" ELSE "crash")
  BY Zenon DEF Entry
<1>2. pc = "step" /\ iter.node # NoNode /\ Stepping
  BY DEF Entry, Stepping
<1>3. IInv /\ kids \in [Nodes -> Seq(Nodes)] /\ iter.node \in Nodes /\ dir \in Int
  BY <1>2, StepFrom DEF NInv
<1>4. PICK m \in Nodes : m = t.to /\ m \in Valid /\ m # NoNode
  BY <1>1, NodesAssumption DEF Valid
<1>5. m \in ToSet(Siblings(iter.node))
  BY <1>3, <1>4, TargetsNear
<1>6. PICK it \in Iterators : it = Left
  BY <1>2, <1>3, LeftTyped
<1>7. EnteredIs(iter', it, m)
  BY <1>1, <1>4, <1>6, Zenon DEF EnteredIs
<1>8. iter'.node = m
  BY <1>6, <1>7, EnteredTyped
<1>9. pc' = "rest" /\ ret' = IF m \in Files THEN "entry" ELSE "crash"
  BY <1>1, <1>4 DEF Return
<1>10. played' = IF WithConfig /\ Left.random THEN played \cup {m} ELSE played
  BY <1>1, <1>4
<1> QED
  BY <1>2, <1>4, <1>5, <1>8, <1>9, <1>10

(* Each step goes to where the iterator is, to a group or into a list.      *)
LEMMA NodeGoes ==
  ASSUME NInv, Iterate
  PROVE  \/ iter'.node = iter.node \/ iter'.node \in Groups
         \/ \E q \in Groups : Has(kids, q, iter'.node)
<1>0. kids \in [Nodes -> Seq(Nodes)] /\ IInv /\ iter \in Iterators
  BY KidsTyped, Known DEF NInv
<1>1. CASE FirstStep
  <2>1. NodeIs(iter', iter, Root)
    BY <1>1 DEF FirstStep, NodeIs
  <2>2. Root \in Nodes
    BY NodesAssumption DEF Nodes
  <2>3. iter'.node = Root
    BY <1>0, <2>1, <2>2, NodeTyped
  <2> QED
    BY <2>3, NodesAssumption
<1>2. CASE PassEnds \/ ListEnds \/ Group \/ Invalid
  BY <1>2, LeftMoves
<1>3. CASE Entry
  <2>1. PICK m \in Nodes : m \in ToSet(Siblings(iter.node)) /\ iter'.node = m
    BY <1>3, EntryMoves
  <2>2. iter.node \in Nodes
    BY <1>3, StepFrom DEF Entry
  <2>3. m = iter.node \/ \E q \in Groups : Has(kids, q, m)
    BY <1>0, <2>1, <2>2, SiblingHas
  <2> QED
    BY <2>1, <2>3
<1>4. CASE Up
  <2>1. CASE ParentOf(iter.node) = NoNode
    <3>1. FileIs(iter', iter, -1)
      BY <1>4, <2>1 DEF Up, FileIs
    <3> QED
      BY <1>0, <3>1, FileTyped
  <2>2. CASE ParentOf(iter.node) # NoNode
    BY <1>0, <1>4, <2>2, UpMoves, ParentHasIt
  <2> QED
    BY <2>1, <2>2
<1>5. CASE Down
  <2>1. PICK p \in Groups : p = iter.node /\ kids[p] # <<>>
                            /\ iter'.node \in {Head(kids[p]), Last(kids[p])}
    BY <1>0, <1>5, DownMoves
  <2> QED
    BY <1>0, <2>1, ChildHas
<1> QED
  BY <1>1, <1>2, <1>3, <1>4, <1>5 DEF Iterate

(* What an iterator's step leaves as it is.                                 *)
LEMMA IterateSame ==
  ASSUME Iterate
  PROVE  /\ pc # "rest" /\ kids' = kids /\ shuffled' = shuffled /\ job' = job /\ victim' = victim
         /\ base' = base /\ lost' = lost /\ withNodes' = withNodes
         /\ ~ PassEnds => loops' = loops
         /\ ~ PassEnds /\ ~ Entry /\ ~ Up => played' = played
BY Zenon DEF Iterate, FirstStep, PassEnds, ListEnds, Group, Invalid, Entry, Stepping, Up, Down,
             hold, tree, history, Return, Goto

LEMMA IterateNodeless ==
  ASSUME Nodeless, Iterate
  PROVE  Nodeless'
<1>1. pc # "rest" /\ job' = job /\ withNodes' = withNodes
  BY IterateSame, Zenon
<1> QED
  BY <1>1 DEF Nodeless

(* The last thing a call to go up finds is a node without a list around it. *)
LEMMA UpEnds ==
  ASSUME NInv, Up, pc' = "rest"
  PROVE  /\ ParentOf(iter.node) = NoNode /\ iter'.node = iter.node /\ iter'.live = iter.live
         /\ iter'.pushed = iter.pushed /\ iter'.stack = iter.stack /\ conf' = conf
         /\ pc = "up" /\ ret' = "end"
<1>1. ParentOf(iter.node) = NoNode
  BY DEF Up, Goto
<1>2. FileIs(iter', iter, -1) /\ conf' = conf /\ pc = "up" /\ ret' = "end"
  BY <1>1 DEF Up, FileIs, Return
<1>3. iter \in Iterators
  BY Known DEF NInv
<1> QED
  BY <1>1, <1>2, <1>3, FileTyped

LEMMA IterateOwnLevel ==
  ASSUME OInv, OInv', OwnLevel, Iterate
  PROVE  OwnLevel'
<1> SUFFICES ASSUME job' # "peek", iter'.live, iter'.pushed, pc' \in {"rest", "up"},
                    iter'.node \notin Files, Clean'
             PROVE  FALSE
  BY DEF OwnLevel
<1>1. job # "peek" /\ WithConfig /\ (Clean' <=> Clean)
  BY IterateSame, SameTree DEF WithConfig
<1>2. CASE FirstStep \/ Down
  BY <1>2 DEF FirstStep, Down, Goto
<1>3. CASE PassEnds \/ ListEnds \/ Group \/ Invalid
  BY <1>1, <1>3, LeftMoves DEF OInv
<1>4. CASE Entry
  <2>1. ret' = "crash"
    BY <1>4, EntryMoves DEF OInv
  <2>2. Emptiness(kids')
    BY <2>1 DEF OInv, NInv, Crashed
  <2>3. Emptiness(kids)
    BY <2>2, IterateSame
  <2> QED
    BY <1>1, <2>3, Uncleaned DEF OInv
<1>5. CASE Up
  <2>1. pc' = "rest"
    BY <1>5 DEF Up, Return, Goto
  <2>2. iter'.node = iter.node /\ iter.live /\ iter.pushed /\ pc = "up"
    BY <1>5, <2>1, UpEnds DEF OInv
  <2> QED
    BY <1>1, <2>2 DEF OwnLevel
<1> QED
  BY <1>2, <1>3, <1>4, <1>5 DEF Iterate

(* What is played in a list is in it.                                       *)
LEMMA IteratePlayedPlaced ==
  ASSUME OInv, PlayedPlaced, Iterate
  PROVE  PlayedPlaced'
<1>0. kids' = kids
  BY IterateSame
<1>1. kids \in [Nodes -> Seq(Nodes)] /\ OnePlace(kids) /\ IInv /\ NInv
  BY KidsTyped DEF OInv, NInv, Places
<1>2. CASE played' = played
  BY <1>0, <1>2 DEF PlayedPlaced
<1>3. CASE PassEnds
  <2>1. played' = played \/ played' = {}
    BY <1>3 DEF PassEnds
  <2> QED
    BY <1>0, <2>1 DEF PlayedPlaced
<1>4. CASE Entry
  <2>1. PICK m \in Nodes :
          /\ m \in ToSet(Siblings(iter.node)) /\ pc = "step"
          /\ played' = IF WithConfig /\ Left.random THEN played \cup {m} ELSE played
    BY <1>1, <1>4, EntryMoves
  <2>2. CASE Left.random
    <3>1. iter.node \in Nodes /\ Here(kids, iter.node)
      BY <1>1, <1>4, StepFrom DEF Entry
    <3>2. Here(kids, m) /\ m # NoNode
      BY <1>1, <2>1, <3>1, SiblingHere, NodesAssumption
    <3>3. ParentOf(iter.node) \in shuffled /\ shuffled \subseteq Groups
      BY <1>1, <2>2, LeftRandom DEF IInv, TypeOK
    <3>4. ParentOf(iter.node) # NoNode
      BY <3>3, NodesAssumption DEF Nodes
    <3>5. ~ Freed(kids, m)
      <4>1. PICK p \in Groups : Has(kids, p, iter.node)
        BY <1>1, <3>4, ParentHasIt DEF Has
      <4>2. m = iter.node \/ \E q \in Groups : Has(kids, q, m)
        BY <1>1, <2>1, <3>1, SiblingHas
      <4> QED
        BY <4>1, <4>2 DEF Freed
    <3>6. Housed(kids, m)
      BY <3>2, <3>5 DEF Here
    <3> QED
      BY <1>0, <2>1, <3>6 DEF PlayedPlaced
  <2> QED
    BY <1>2, <2>1, <2>2
<1>5. CASE Up
  <2>1. CASE ParentOf(iter.node) = NoNode
    BY <1>2, <1>5, <2>1 DEF Up
  <2>2. CASE ParentOf(iter.node) # NoNode
    <3>1. /\ iter.node \in Nodes /\ ParentOf(iter.node) \in Groups
          /\ played' \subseteq played \cup {ParentOf(iter.node)}
      BY <1>1, <1>5, <2>2, UpMoves, ParentHasIt DEF Up
    <3>2. Here(kids, iter.node)
      BY <1>1 DEF NInv, Places
    <3>3. Here(kids, ParentOf(iter.node))
      BY <1>1, <2>2, <3>1, <3>2, ParentHere
    <3>4. Housed(kids, ParentOf(iter.node))
      BY <2>2, <3>1, <3>3, NodesAssumption DEF Here, Freed
    <3> QED
      BY <1>0, <3>1, <3>4 DEF PlayedPlaced
  <2> QED
    BY <2>1, <2>2
<1> QED
  BY <1>2, <1>3, <1>4, <1>5, IterateSame

(* What plays of a shuffled list is played.                                 *)
LEMMA IteratePushedPlayed ==
  ASSUME OInv, Iterate, job # "peek", iter'.pushed, pc' = "rest", Has(kids, Root, iter'.node),
         Root \in shuffled
  PROVE  iter'.node \in played'
<1>1. kids \in [Nodes -> Seq(Nodes)] /\ OnePlace(kids) /\ IInv /\ NInv /\ WithConfig
  BY KidsTyped DEF OInv, NInv, Places, WithConfig
<1>2. CASE FirstStep \/ Down
  BY <1>2 DEF FirstStep, Down, Goto
<1>3. CASE PassEnds \/ ListEnds \/ Group \/ Invalid
  BY <1>1, <1>3, LeftMoves
<1>4. CASE Entry
  <2>1. PICK m \in Nodes :
          /\ m \in ToSet(Siblings(iter.node)) /\ iter'.node = m /\ pc = "step"
          /\ played' = IF WithConfig /\ Left.random THEN played \cup {m} ELSE played
    BY <1>1, <1>4, EntryMoves
  <2>2. iter.node \in Nodes
    BY <1>1, <1>4, StepFrom DEF Entry
  <2>3. Has(kids, Root, iter.node)
    <3>1. m = iter.node \/ \E p \in Groups : Has(kids, p, iter.node) /\ Has(kids, p, m)
      BY <1>1, <2>1, <2>2, SiblingHas
    <3>2. CASE m = iter.node
      BY <2>1, <3>2
    <3>3. ASSUME NEW p \in Groups, Has(kids, p, iter.node), Has(kids, p, m)
          PROVE  Has(kids, Root, iter.node)
      <4>1. p = Root
        BY <1>1, <2>1, <3>3, NodesAssumption DEF OnePlace, Has
      <4> QED
        BY <3>3, <4>1
    <3> QED
      BY <3>1, <3>2, <3>3
  <2>4. ParentOf(iter.node) = Root
    BY <1>1, <2>3, ParentIs, NodesAssumption
  <2>5. Left.random
    BY <1>1, <2>4, LeftRandom
  <2> QED
    BY <1>1, <2>1, <2>5
<1>5. CASE Up
  <2>1. ParentOf(iter.node) = NoNode /\ iter'.node = iter.node
    BY <1>1, <1>5, UpEnds
  <2>2. ParentOf(iter.node) # NoNode
    BY <1>1, <2>1, ParentIs, NodesAssumption
  <2> QED
    BY <2>1, <2>2
<1> QED
  BY <1>2, <1>3, <1>4, <1>5 DEF Iterate

(* A playlist that is opened from a shuffled list was played.               *)
LEMMA IteratePlayingPlayed ==
  ASSUME OInv, PlayingPlayed, Iterate
  PROVE  PlayingPlayed'
<1>1. kids' = kids /\ shuffled' = shuffled /\ job' = job
  BY IterateSame
<1> QED
  BY <1>1, IteratePushedPlayed DEF PlayingPlayed

(* A freed file stays one until the call comes to its end.                  *)
LEMMA IterateGone ==
  ASSUME OInv, Gone, Iterate
  PROVE  Gone'
<1>0. kids' = kids /\ shuffled' = shuffled /\ job' = job
  BY IterateSame
<1> SUFFICES ASSUME job # "peek", Freed(kids, iter'.node), shuffled \subseteq {Root}
             PROVE  Loses(iter.node)'
  BY <1>0 DEF Gone
<1>1. iter'.node = iter.node
  BY NodeGoes, NodesAssumption DEF OInv, Freed
<1>2. iter.live
  BY IterateSame DEF OInv, NInv, IInv, Calls
<1>3. Loses(iter.node)
  BY <1>1, <1>2 DEF Gone
<1>4. loops' = loops
  <2>1. ASSUME PassEnds PROVE FALSE
    <3>1. pc = "step" /\ Left.random
      BY <2>1 DEF PassEnds, Stepping
    <3> QED
      BY <1>1, <3>1, FreedTargets
  <2> QED
    BY <2>1, IterateSame
<1>5. Emptied' = Emptied /\ \A n : (ParentOf(n))' = ParentOf(n)
  BY <1>0, SameTree
<1>6. ASSUME NEW m, Returns(m) PROVE (Returns(m))'
  <2>1. (ParentOf(m))' = ParentOf(m)
    BY <1>5
  <2> QED
    BY <1>0, <1>4, <1>5, <1>6, <2>1 DEF Returns
<1> QED
  BY <1>1, <1>3, <1>5, <1>6 DEF Loses

(* When a search gives up there is a reason, or it was at the root.         *)
LEMMA IterateGivesUp ==
  ASSUME OInv, OInv', Nodeless, OwnLevel, Gone, Iterate
  PROVE  GivesUp'
<1>0. /\ kids' = kids /\ shuffled' = shuffled /\ job' = job /\ pc # "rest" /\ base' = base
      /\ lost' = lost /\ (Clean' <=> Clean)
  BY IterateSame, SameTree
<1>1. job \notin {"none", "boot"} /\ iter.live /\ IInv /\ NInv /\ kids \in [Nodes -> Seq(Nodes)]
  BY <1>0, KidsTyped DEF OInv, NInv, IInv, Calls
<1> SUFFICES ASSUME pc' = "rest", ret' # "entry", job \in {"next", "filestep", "stop"},
                    job = "stop" => ret' = "end",
                    shuffled \subseteq {}, Clean
             PROVE  Len(conf'.slots) = base + lost
  BY <1>0, <1>1 DEF GivesUp, Idle, Returned, Spent
<1>2. ~ FirstStep /\ ~ ListEnds /\ ~ Down
  BY DEF FirstStep, ListEnds, Down, Goto
<1>3. ~ PassEnds
  <2>1. ASSUME PassEnds PROVE FALSE
    <3>1. Left.random
      BY <2>1 DEF PassEnds
    <3> QED
      BY <1>1, <3>1, LeftRandom
  <2> QED
    BY <2>1
<1>4. ~ Group
  <2>1. ASSUME Group PROVE FALSE
    <3>1. withNodes /\ ret' = "node"
      BY <2>1, Zenon DEF Group, Return, Goto
    <3> QED
      BY <1>0, <3>1 DEF Nodeless
  <2> QED
    BY <2>1
<1>5. ~ Invalid
  <2>1. ASSUME Invalid PROVE FALSE
    <3>1. PICK t \in Targets : t.to \in Nodes \ Valid
      BY <2>1, Zenon DEF Invalid
    <3>2. Stepping /\ iter.node # NoNode /\ pc = "step" /\ t.to # NoNode
      BY <2>1, <3>1, NodesAssumption DEF Invalid, Stepping
    <3>3. t.to \in Nodes /\ Here(kids, t.to)
      BY <1>1, <3>1, <3>2, TargetHere
    <3>4. Freed(kids, t.to) => t.to \in Valid
      BY <1>1, <3>3, FilesValid DEF Freed
    <3>5. Housed(kids, t.to)
      BY <3>1, <3>2, <3>3, <3>4 DEF Here
    <3>6. t.to \in InTree
      BY <1>1, <3>3, <3>5, HousedInTree DEF NInv, Places
    <3> QED
      BY <3>1, <3>6 DEF Clean
  <2> QED
    BY <2>1
<1>6. ~ Entry
  <2>1. ASSUME Entry PROVE FALSE
    <3>1. PICK m \in Nodes : m \in Files \/ ret' = "crash"
      BY <1>1, <2>1, EntryMoves
    <3>2. ret' \in {"entry", "crash"}
      BY <2>1, Zenon DEF Entry, Return
    <3>3. ret' = "crash"
      BY <3>2
    <3>4. Emptiness(kids)
      BY <1>0, <3>3 DEF OInv, NInv, Crashed
    <3> QED
      BY <1>1, <3>4, Uncleaned
  <2> QED
    BY <2>1
<1>7. Up
  BY <1>2, <1>3, <1>4, <1>5, <1>6 DEF Iterate
<1>8. ParentOf(iter.node) = NoNode /\ conf' = conf /\ pc = "up"
  BY <1>1, <1>7, UpEnds
<1>9. ~ Freed(kids, iter.node)
  <2>1. ASSUME NEW m \in Emptied PROVE FALSE
    BY <2>1 DEF Emptied, Clean
  <2> QED
    BY <1>1, <2>1 DEF Gone, Loses
<1>10. iter.node \in Nodes /\ Held = iter
  <2>1. iter.node # NoNode
    BY <1>1, <1>8 DEF OInv, Unstarted
  <2> QED
    BY <1>1, <2>1, Known, Fields DEF Held
<1>11. PICK f \in [Nat -> Nodes], l \in Nat :
         Trail(kids, f, l, iter.node) /\ Len(iter.stack) = l + lost
  BY <1>1, <1>9, <1>10, NodesAssumption DEF OInv, Opened, Opens
<1>12. l = 0
  <2>1. ASSUME l # 0 PROVE FALSE
    <3>1. l \in 1..l /\ f[l] = iter.node
      BY <1>11, <2>1 DEF Trail
    <3>2. f[l - 1] \in Groups /\ Has(kids, f[l - 1], iter.node)
      BY <1>11, <3>1, TrailUp
    <3> QED
      BY <1>1, <1>8, <3>2, ParentIs DEF NInv, Places
  <2> QED
    BY <2>1
<1>13. iter.node \notin Files
  BY <1>11, <1>12, NodesAssumption DEF Trail
<1>14. ~ iter.pushed
  BY <1>1, <1>8, <1>13 DEF OwnLevel
<1>15. Len(conf.slots) = base + Len(iter.stack) /\ lost \in Nat /\ base \in Nat
  BY <1>1, <1>14, LevelCount
<1> QED
  BY <1>8, <1>11, <1>12, <1>15

LEMMA IterateKeepsPlaces ==
  ASSUME PInv, OInv', Iterate
  PROVE  PInv'
<1>1. Nodeless' /\ Hunts'
  BY IterateNodeless, IterateHunts DEF PInv
<1>2. OwnLevel' /\ GivesUp'
  BY IterateOwnLevel, IterateGivesUp DEF PInv
<1>3. PlayedPlaced' /\ PlayingPlayed' /\ Gone'
  BY IteratePlayedPlaced, IteratePlayingPlayed, IterateGone DEF PInv
<1> QED
  BY <1>1, <1>2, <1>3, Zenon DEF PInv

-----------------------------------------------------------------------------
(* The steps of the main loop.                                              *)

(* A file that is lost stays one where the tree stays.                      *)
LEMMA LosesStays ==
  ASSUME kids' = kids, loops' = loops, shuffled' = shuffled, NEW n, Loses(n)
  PROVE  (\E m \in Emptied \ {Root} : Returns(m))'
<1>1. PICK m \in Emptied \ {Root} : Returns(m)
  BY Zenon DEF Loses
<1>2. Emptied' = Emptied /\ (ParentOf(m))' = ParentOf(m)
  BY SameTree
<1>3. (Returns(m))'
  BY <1>1, <1>2 DEF Returns
<1> QED
  BY <1>1, <1>2, <1>3

LEMMA SpentStays ==
  ASSUME Spent, kids' = kids, shuffled' = shuffled, Len(conf'.slots) = Len(conf.slots),
         base' = base, lost' = lost
  PROVE  Spent'
BY SameTree DEF Spent

LEMMA LoopKeepsPlaces ==
  ASSUME PInv, OInv', pc = "rest", job # "peek",
         UNCHANGED <<kids, loops, shuffled, played, base, lost>>,
         Len(conf'.slots) = Len(conf.slots), iter'.live = iter.live, iter'.node = iter.node,
         iter'.pushed = iter.pushed, job' \notin {"added", "unlooped", "boot"},
         pc' # "rest" => (withNodes' => job' \in {"stop", "replace"}),
         pc' = "rest" => job' \notin {"next", "filestep", "stop"},
         pc' = "rest" /\ job' = "none" => iter.live \/ Idle
  PROVE  PInv'
<1>0. UNCHANGED <<kids, loops, shuffled, played, base, lost>>
  OBVIOUS
<1>1. Nodeless' /\ Hunts'
  BY DEF Nodeless, Hunts
<1>2. OwnLevel'
  <2>1. Clean' <=> Clean
    BY <1>0, SameTree
  <2> QED
    BY <2>1 DEF PInv, OwnLevel
<1>3. GivesUp'
  <2>1. ASSUME Idle' PROVE Spent'
    <3>1. Idle
      BY <2>1 DEF Idle, Returned
    <3> QED
      BY <3>1, SpentStays DEF PInv, GivesUp
  <2> QED
    BY <2>1 DEF GivesUp
<1>4. PlayedPlaced' /\ PlayingPlayed'
  BY DEF PInv, PlayedPlaced, PlayingPlayed
<1>5. Gone'
  <2> SUFFICES ASSUME iter.live, Freed(kids, iter.node), shuffled \subseteq {Root}
               PROVE  Loses(iter.node)'
    BY DEF Gone
  <2>1. Loses(iter.node)
    BY DEF PInv, Gone
  <2>2. (\E m \in Emptied \ {Root} : Returns(m))'
    BY <2>1, LosesStays
  <2> QED
    BY <2>1, <2>2 DEF Loses
<1> QED
  BY <1>1, <1>2, <1>3, <1>4, <1>5 DEF PInv

LEMMA FreeKeepsPlaces ==
  ASSUME PInv, OInv', Free, NoCall, pc = "rest", UNCHANGED <<tree, conf>>, Spent
  PROVE  PInv'
<1>1. /\ iter' = NoIter /\ job' = "none" /\ pc' = "rest" /\ base' = base /\ lost' = lost
      /\ conf' = conf /\ kids' = kids /\ shuffled' = shuffled /\ played' = played
  BY DEF Free, NoCall, call, tree
<1>2. ~ iter'.live
  BY <1>1, NoIterTyped
<1>3. Spent'
  BY <1>1, SpentStays
<1>4. GivesUp'
  BY <1>1, <1>3 DEF GivesUp
<1>5. PlayedPlaced'
  BY <1>1 DEF PInv, PlayedPlaced
<1> QED
  BY <1>1, <1>2, <1>4, <1>5 DEF PInv, Nodeless, Hunts, OwnLevel, PlayingPlayed, Gone

(* A source is taken where the iterator is.                                 *)
LEMMA PlaySame ==
  ASSUME IInv, NEW d, Play(d)
  PROVE  iter'.live = iter.live /\ iter'.node = iter.node /\ iter'.pushed = iter.pushed
<1>1. PICK x : iter' = [iter EXCEPT !.file = x]
  BY DEF Play
<1>2. iter = [live |-> iter.live, node |-> iter.node, loop |-> iter.loop, file |-> iter.file,
              pushed |-> iter.pushed, random |-> iter.random, stack |-> iter.stack]
  BY Known, Fields
<1>3. iter' = [live |-> iter.live, node |-> iter.node, loop |-> iter.loop, file |-> x,
               pushed |-> iter.pushed, random |-> iter.random, stack |-> iter.stack]
  BY <1>1, <1>2
<1> QED
  BY <1>3, Zenon

LEMMA PlayKeepsPlaces ==
  ASSUME PInv, OInv', NEW d \in Int, Play(d), NoCall, pc = "rest", job # "peek", iter.live,
         UNCHANGED <<tree, conf, base, lost>>
  PROVE  PInv'
<1>1. iter \in Iterators /\ iter' = [iter EXCEPT !.file = NextFile(d)] /\ pc' = "rest"
      /\ job' \in {"playlist", "none"}
  BY Known DEF PInv, OInv, NInv, Play, NoCall, call
<1>2. iter'.live = iter.live /\ iter'.node = iter.node /\ iter'.pushed = iter.pushed
  BY PlaySame DEF PInv, OInv, NInv
<1>3. UNCHANGED <<kids, loops, shuffled, played, conf, base, lost>>
  BY DEF tree
<1>4. Len(conf'.slots) = Len(conf.slots)
  BY <1>3
<1> QED
  BY <1>1, <1>2, <1>3, <1>4, LoopKeepsPlaces

(* The iterator is called, or keeps still.                                  *)
LEMMA SameKeepsPlaces ==
  ASSUME PInv, OInv', pc = "rest", job # "peek", UNCHANGED <<tree, iter, conf, base, lost>>,
         job' \notin {"added", "unlooped", "boot"},
         pc' # "rest" => (withNodes' => job' \in {"stop", "replace"}),
         pc' = "rest" => job' \notin {"next", "filestep", "stop"} /\ (job' = "none" => iter.live)
  PROVE  PInv'
<1>1. UNCHANGED <<kids, loops, shuffled, played, iter, conf, base, lost>>
  BY DEF tree
<1>2. Len(conf'.slots) = Len(conf.slots)
  BY <1>1
<1> QED
  BY <1>1, <1>2, LoopKeepsPlaces

(* The iterator is again what it was before the copy went ahead.            *)
LEMMA PeekedKeepsPlaces ==
  ASSUME PInv, OInv', Peeked
  PROVE  PInv'
<1>1. /\ pc = "rest" /\ job = "peek" /\ iter' = saved /\ job' \in {"next", "none"}
      /\ UNCHANGED <<kids, loops, shuffled, played, conf, base, lost>>
      /\ \/ pc' = wanted.at /\ withNodes' = FALSE /\ job' = "next"
         \/ pc' = pc /\ job' = "none"
  BY DEF Peeked, Returned, Call, NoCall, call, tree
<1>2. saved.live /\ saved.node \in Files /\ saved.node \notin DOMAIN Contents
      /\ ~ Freed(kids, saved.node) /\ wanted.at \in {"step", "up"}
  <2>1. wanted \in [at : {"step", "up"}, d : Int]
    BY Known DEF PInv, OInv, NInv
  <2> QED
    BY <1>1, <2>1 DEF PInv, OInv, NInv, IInv, Calls, Marks, Strays
<1>3. Nodeless' /\ Hunts'
  BY <1>1, <1>2 DEF Nodeless, Hunts
<1>4. OwnLevel' /\ PlayingPlayed'
  BY <1>1, <1>2 DEF OwnLevel, PlayingPlayed
<1>5. GivesUp'
  BY <1>1, <1>2 DEF GivesUp, Idle, Returned
<1>6. PlayedPlaced'
  BY <1>1 DEF PInv, PlayedPlaced
<1>7. Gone'
  BY <1>1, <1>2 DEF Gone
<1> QED
  BY <1>3, <1>4, <1>5, <1>6, <1>7 DEF PInv

LEMMA SetOptionKeepsPlaces ==
  ASSUME PInv, OInv', NEW v \in Values, SetOption(v)
  PROVE  PInv'
<1>1. /\ UNCHANGED <<kids, loops, shuffled, played, iter, base, lost, pc, job>>
      /\ pc = "rest" /\ job = "none" /\ conf' = [conf EXCEPT !.value = v]
  BY DEF SetOption, Returned, tree, call, history
<1>2. conf'.slots = conf.slots
  <2>1. conf \in [slots : Seq(Values), value : Values]
    BY DEF PInv, OInv, NInv, IInv, TypeOK
  <2> QED
    BY <1>1, <2>1
<1>3. iter.live \/ Idle
  BY <1>1 DEF Idle, Returned
<1> QED
  BY <1>1, <1>2, <1>3, LoopKeepsPlaces

LEMMA RestfulKeepsPlaces ==
  ASSUME PInv, OInv', Restful
  PROVE  PInv'
<1>0. /\ eof \in Int /\ 1 \in Int /\ OInv /\ NInv
      /\ job \notin {"none", "boot"} => iter.live
  BY Known DEF PInv, OInv, NInv, IInv, Calls
<1>1. CASE Started
  <2>1. /\ pc = "rest" /\ job = "start" /\ UNCHANGED <<tree, conf>> /\ NoCall
        /\ IF ret = "entry" THEN Play(1) /\ UNCHANGED <<base, lost>> ELSE Free
    BY <1>1 DEF Started, Returned
  <2>2. ret = "entry"
    BY <1>0, <2>1 DEF NInv, Starts
  <2> QED
    BY <1>0, <2>1, <2>2, PlayKeepsPlaces
<1>2. CASE NextDone
  <2>1. pc = "rest" /\ job = "next" /\ UNCHANGED <<tree, conf>> /\ NoCall
    BY <1>2 DEF NextDone, Returned
  <2>2. CASE ret = "entry"
    <3>1. UNCHANGED <<iter, base, lost>> /\ job' = "files" /\ pc' = "rest"
      BY <1>2, <2>1, <2>2 DEF NextDone, NextSource, history, NoCall, call
    <3> QED
      BY <2>1, <3>1, SameKeepsPlaces
  <2>3. CASE ret # "entry"
    <3>1. Spent /\ Free
      BY <1>2, <2>1, <2>3 DEF NextDone, PInv, GivesUp
    <3> QED
      BY <2>1, <3>1, FreeKeepsPlaces
  <2> QED
    BY <2>2, <2>3
<1>3. CASE FindFile
  <2>1. /\ pc = "rest" /\ job = "files" /\ UNCHANGED <<tree, conf, base, lost>>
        /\ \/ Play(eof) /\ NoCall
           \/ Call("step", eof, FALSE, "filestep") /\ UNCHANGED iter
    BY <1>3 DEF FindFile, Returned, history
  <2>2. iter.live
    BY <1>0, <2>1
  <2>3. CASE Play(eof) /\ NoCall
    BY <1>0, <2>1, <2>2, <2>3, PlayKeepsPlaces
  <2>4. CASE Call("step", eof, FALSE, "filestep") /\ UNCHANGED iter
    <3>1. pc' = "step" /\ withNodes' = FALSE /\ job' = "filestep" /\ iter' = iter
      BY <2>4 DEF Call
    <3> QED
      BY <2>1, <3>1, SameKeepsPlaces
  <2> QED
    BY <2>1, <2>3, <2>4
<1>4. CASE FileStepDone
  <2>1. pc = "rest" /\ job = "filestep" /\ UNCHANGED <<tree, conf>> /\ NoCall
    BY <1>4 DEF FileStepDone, Returned
  <2>2. CASE ret = "entry"
    <3>1. UNCHANGED <<iter, base, lost>> /\ job' = "files" /\ pc' = "rest"
      BY <1>4, <2>1, <2>2 DEF FileStepDone, history, NoCall, call
    <3> QED
      BY <2>1, <3>1, SameKeepsPlaces
  <2>3. CASE ret # "entry"
    <3>1. Spent /\ Free
      BY <1>4, <2>1, <2>3 DEF FileStepDone, PInv, GivesUp
    <3> QED
      BY <2>1, <3>1, FreeKeepsPlaces
  <2> QED
    BY <2>2, <2>3
<1>5. CASE Peeked
  BY <1>5, PeekedKeepsPlaces
<1>6. CASE NotYetAtTop
  <2>1. /\ pc = "rest" /\ job \in {"stop", "replace"} /\ job' = job /\ pc' = "up"
        /\ UNCHANGED <<tree, conf, base, lost, iter>>
    BY <1>6 DEF NotYetAtTop, Returned, Call, history
  <2> QED
    BY <2>1, SameKeepsPlaces
<1>7. CASE Stopped
  <2>1. pc = "rest" /\ job = "stop" /\ ret = "end" /\ Free /\ NoCall /\ UNCHANGED <<tree, conf>>
    BY <1>7 DEF Stopped, Returned
  <2>2. Spent
    BY <2>1 DEF PInv, GivesUp
  <2> QED
    BY <2>1, <2>2, FreeKeepsPlaces
<1>8. CASE HeadFound
  <2>1. /\ pc = "rest" /\ job = "head" /\ job' = "files" /\ pc' = "rest"
        /\ UNCHANGED <<tree, conf, base, lost, iter>>
    BY <1>8 DEF HeadFound, Returned, NextSource, history, NoCall, call
  <2> QED
    BY <2>1, SameKeepsPlaces
<1>9. CASE EndOfFile \/ Stop \/ LoadReplace
  <2>1. /\ Playing /\ pc' \in {"step", "up"}
        /\ \/ job' = "next" /\ withNodes' = FALSE
           \/ job' \in {"stop", "replace"}
        /\ UNCHANGED <<tree, conf, base, lost, iter>>
    BY <1>9 DEF EndOfFile, NextEntry, Stop, LoadReplace, GoToTop, Call, Leave
  <2> QED
    BY <1>0, <2>1, PlayingKnown, SameKeepsPlaces
<1>10. ASSUME NEW where \in {"step", "up"}, NEW n, NEW force, Move(where, n, force) PROVE PInv'
  <2>1. /\ Playing /\ pc' = where /\ withNodes' = FALSE /\ job' \in {"next", "peek"}
        /\ UNCHANGED <<tree, conf, base, lost, iter>>
    BY <1>10 DEF Move, Call, Leave
  <2> QED
    BY <1>0, <2>1, PlayingKnown, SameKeepsPlaces
<1>11. ASSUME NEW v, NEW opening, AltSource(v, opening) PROVE PInv'
  <2>1. /\ Playing /\ job' = "files" /\ pc' = pc
        /\ UNCHANGED <<tree, conf, base, lost, iter>>
    BY <1>11 DEF AltSource, NextSource, Leave, NoCall, call
  <2> QED
    BY <1>0, <2>1, PlayingKnown, SameKeepsPlaces
<1>12. ASSUME NEW v \in Values, SetOption(v) PROVE PInv'
  BY <1>12, SetOptionKeepsPlaces
<1>13. "step" \in {"step", "up"} /\ "up" \in {"step", "up"}
  OBVIOUS
<1> QED
  BY <1>1, <1>2, <1>3, <1>4, <1>5, <1>6, <1>7, <1>8, <1>9, <1>10, <1>11, <1>12, <1>13, Zenon
  DEF Restful, PlayTreeStep, UpStep

LEMMA StutterKeepsPlaces ==
  ASSUME PInv, OInv', UNCHANGED vars
  PROVE  PInv'
<1>1. UNCHANGED <<kids, loops, shuffled, played, iter, conf, pc, dir, withNodes, ret, job, victim,
                  base, lost>>
  BY DEF vars, tree, call, hold, history
<1>2. (Clean' <=> Clean) /\ Emptied' = Emptied
  BY <1>1, SameTree
<1>3. Nodeless' /\ OwnLevel'
  BY <1>1, <1>2 DEF PInv, Nodeless, OwnLevel
<1>4. GivesUp'
  BY <1>1, <1>2 DEF PInv, GivesUp, Spent, Idle, Returned
<1>5. PlayedPlaced' /\ PlayingPlayed'
  BY <1>1 DEF PInv, PlayedPlaced, PlayingPlayed
<1>6. Gone'
  <2> SUFFICES ASSUME job # "peek", iter.live, Freed(kids, iter.node), shuffled \subseteq {Root}
               PROVE  Loses(iter.node)'
    BY <1>1 DEF Gone
  <2>1. Loses(iter.node)
    BY DEF PInv, Gone
  <2>2. (\E m \in Emptied \ {Root} : Returns(m))'
    BY <1>1, <2>1, LosesStays
  <2> QED
    BY <1>1, <2>1, <2>2 DEF Loses
<1>7. Hunts'
  <2> SUFFICES ASSUME job \in {"added", "unlooped"}, shuffled \subseteq {Root},
                      ~ Freed(kids, victim)
               PROVE  \E f \in [Nat -> Nodes], l \in Nat :
                        l >= 1 /\ Trail(kids', f, l, victim') /\ Hunting(f, l)'
    BY <1>1 DEF Hunts, Hunting
  <2>1. PICK f \in [Nat -> Nodes], l \in Nat :
          l >= 1 /\ Trail(kids, f, l, victim) /\ Hunting(f, l)
    BY Zenon DEF PInv, Hunts, Hunting
  <2>2. \A n : (ParentOf(n))' = ParentOf(n)
    BY <1>1, SameTree
  <2>3. Climbing(f, l)' <=> Climbing(f, l)
    BY <1>1 DEF Climbing
  <2>4. Found(f, l)' <=> Found(f, l)
    BY <1>1 DEF Found
  <2>5. Descending(f, l)' <=> Descending(f, l)
    BY <1>1, <2>2 DEF Descending
  <2> QED
    BY <1>1, <2>1, <2>3, <2>4, <2>5 DEF Hunting
<1> QED
  BY <1>3, <1>4, <1>5, <1>6, <1>7 DEF PInv

-----------------------------------------------------------------------------
(* The steps that change the tree.                                          *)
LEMMA StartKeepsPlaces ==
  ASSUME OInv', Start, played' = {}
  PROVE  PInv'
<1>1. iter' = NewIter /\ pc' = "step" /\ withNodes' = FALSE /\ job' = "start"
  BY DEF Start, Call
<1>2. iter'.node = NoNode
  BY <1>1, NoIterTyped
<1>3. Nodeless' /\ OwnLevel' /\ PlayingPlayed' /\ Hunts'
  BY <1>1 DEF Nodeless, OwnLevel, PlayingPlayed, Hunts
<1>4. GivesUp'
  BY <1>1 DEF GivesUp, Idle, Returned
<1>5. PlayedPlaced'
  BY DEF PlayedPlaced
<1>6. Gone'
  <2>1. ~ (Freed(kids, iter.node))'
    BY <1>2, NodesAssumption DEF Freed, Nodes
  <2> QED
    BY <2>1 DEF Gone
<1> QED
  BY <1>3, <1>4, <1>5, <1>6 DEF PInv

LEMMA BootKeepsPlaces ==
  ASSUME PInv, OInv', Boot
  PROVE  PInv'
<1>1. job = "boot" /\ played' = {} /\ pc = "rest"
  BY DEF Boot, Returned, PInv, OInv, NInv, Starts
<1>2. CASE Root \in Valid
  BY <1>1, <1>2, StartKeepsPlaces DEF Boot
<1>3. CASE Root \notin Valid
  <2>1. /\ job' = "none" /\ iter' = iter /\ pc' = "rest" /\ iter = NoIter
        /\ conf' = conf /\ base' = base /\ lost' = lost
    BY <1>1, <1>3 DEF Boot, call, PInv, OInv, NInv, IInv, Calls
  <2>2. ~ iter'.live
    BY <2>1, NoIterTyped
  <2>3. Len(conf'.slots) = base' + lost'
    BY <1>1, <2>1 DEF PInv, GivesUp
  <2>4. GivesUp'
    BY <2>1, <2>3 DEF GivesUp, Spent
  <2>5. PlayedPlaced'
    BY <1>1 DEF PlayedPlaced
  <2> QED
    BY <2>1, <2>2, <2>4, <2>5 DEF PInv, Nodeless, Hunts, OwnLevel, PlayingPlayed, Gone
<1> QED
  BY <1>2, <1>3

LEMMA ReplacedKeepsPlaces ==
  ASSUME PInv, OInv', NEW e \in Loads, Replaced(e)
  PROVE  PInv'
<1>1. /\ iter' = [iter EXCEPT !.node = Root] /\ pc' = "step" /\ withNodes' = FALSE
      /\ job' = "head" /\ played' = {}
  BY DEF Replaced, Replace, Call
<1>2. Root \in Nodes /\ Root \notin Files
  BY NodesAssumption DEF Nodes
<1>3. iter'.node = Root
  <2>1. iter \in Iterators /\ NodeIs(iter', iter, Root)
    BY <1>1, Known DEF PInv, OInv, NInv, NodeIs
  <2> QED
    BY <1>2, <2>1, NodeTyped
<1>4. Nodeless' /\ OwnLevel' /\ PlayingPlayed' /\ Hunts'
  BY <1>1 DEF Nodeless, OwnLevel, PlayingPlayed, Hunts
<1>5. GivesUp'
  BY <1>1 DEF GivesUp, Idle, Returned
<1>6. PlayedPlaced'
  BY <1>1 DEF PlayedPlaced
<1>7. Gone'
  <2>1. ~ (Freed(kids, iter.node))'
    BY <1>2, <1>3 DEF Freed
  <2> QED
    BY <2>1 DEF Gone
<1> QED
  BY <1>4, <1>5, <1>6, <1>7 DEF PInv

(* What plays keeps its place when an entry is added.                       *)
LEMMA GrewHoused ==
  ASSUME NInv, NEW e, Grew(e), NEW n \in Nodes, Here(kids, n), ~ Freed(kids, n)
  PROVE  Housed(kids', n) /\ ~ Freed(kids', n)
<1>1. Housed(kids, n)
  BY NodesAssumption DEF Here, Nodes
<1>2. Housed(kids', n)
  BY <1>1 DEF Grew
<1>3. PICK f \in [Nat -> Nodes], l \in Nat : Trail(kids', f, l, n)
  BY <1>2 DEF Housed
<1> QED
  BY <1>2, <1>3, TrailNodes

LEMMA LoadAppendKeepsPlaces ==
  ASSUME PInv, OInv', NEW e \in NewEntries, LoadAppend(e)
  PROVE  PInv'
<1>1. Playing /\ UNCHANGED <<played, iter, pc, job, withNodes>>
  BY DEF LoadAppend, call
<1>2. Grew(e) /\ NInv /\ OInv
  BY LoadAppendGrows DEF PInv, OInv
<1>3. /\ pc = "rest" /\ job = "none" /\ iter.live /\ iter.node \in Nodes
      /\ iter.node \notin DOMAIN Contents /\ ~ Freed(kids, iter.node) /\ iter.node \in Files
  BY <1>1, <1>2, PlayingKnown DEF NInv, IInv, Calls
<1>4. Nodeless' /\ OwnLevel' /\ PlayingPlayed' /\ Hunts'
  BY <1>1, <1>3 DEF Nodeless, OwnLevel, PlayingPlayed, Hunts
<1>5. GivesUp'
  BY <1>1, <1>3 DEF GivesUp, Idle, Returned
<1>6. PlayedPlaced'
  <2>1. played \subseteq Nodes
    BY <1>2 DEF NInv, IInv, TypeOK
  <2> QED
    BY <1>1, <1>2, <2>1 DEF PInv, PlayedPlaced, Grew
<1>7. Gone'
  <2>1. ~ Freed(kids', iter.node)
    BY <1>2, <1>3, GrewHoused DEF NInv, Places
  <2> QED
    BY <1>1, <2>1 DEF Gone
<1> QED
  BY <1>4, <1>5, <1>6, <1>7 DEF PInv

-----------------------------------------------------------------------------
(* A playlist is opened.                                                    *)

(* What is inserted after v follows it.                                     *)
LEMMA InsertedAfter ==
  ASSUME NEW A, NEW s \in Seq(A), NEW i \in DOMAIN s, NEW e \in A,
         Lacks(s, e), Once(s), NEW r, r = InsertAt(s, i + 1, e)
  PROVE  Last(r) # s[i] /\ \E j \in DOMAIN r : r[j] = e
<1>1. i + 1 \in 1..(Len(s) + 1) /\ i \in 1..((i + 1) - 1)
  OBVIOUS
<1>2. /\ r \in Seq(A) /\ Len(r) = Len(s) + 1 /\ r[i + 1] = e
      /\ \A j \in 1..((i + 1) - 1) : r[j] = s[j]
      /\ \A j, k \in DOMAIN r : r[j] = r[k] => j = k
  BY <1>1, InsertedOnce DEF Once
<1>3. i \in DOMAIN r /\ i + 1 \in DOMAIN r /\ Len(r) \in DOMAIN r /\ Len(r) # i
  BY <1>1, <1>2
<1>4. r[i] = s[i]
  BY <1>1, <1>2
<1>5. r[Len(r)] # r[i]
  BY <1>2, <1>3
<1> QED
  BY <1>2, <1>3, <1>4, <1>5 DEF Last

(* Where a playlist is, what was in it follows.                             *)
LEMMA PlaylistOpened ==
  ASSUME NInv, OpenPlaylist, Contents[iter.node] # NoEntry,
         NEW p \in Groups, Has(kids, p, iter.node),
         p = Root \/ \E q \in Groups : Has(kids, q, p)
  PROVE  Last(kids'[p]) # iter.node /\ Has(kids', p, Contents[iter.node].top)
<1> DEFINE e == Contents[iter.node]
           v == iter.node
<1>1. /\ pc = "rest" /\ job = "playlist" /\ Fresh(e)
      /\ kids' = [kids EXCEPT ![ParentOf(v)] = InsertAfter(kids[ParentOf(v)], v, e.top),
                              ![e.top] = e.list]
  BY Zenon DEF OpenPlaylist, Returned
<1>2. /\ kids \in [Nodes -> Seq(Nodes)] /\ OnePlace(kids)
      /\ v \in Nodes /\ v \in DOMAIN Contents
  BY <1>1, KidsTyped DEF NInv, Places, IInv, Calls, Nodes
<1>3. e \in Added /\ e # NoEntry /\ Grew(e)
  BY <1>2, OpenPlaylistGrows DEF Added
<1> HIDE DEF e
<1>4. e.top \in Nodes
  BY <1>3, AddedTyped
<1>5. p \in Nodes /\ Has(kids, p, v)
  BY DEF Nodes
<1>6. ParentOf(v) = p /\ Siblings(v) = kids[p]
  BY <1>2, <1>5, ParentIs
<1>7. p # e.top
  BY <1>3 DEF Grew
<1> HIDE DEF v
<1>8. kids'[p] = InsertAt(kids[p], Place(v) + 1, e.top)
  BY <1>1, <1>2, <1>5, <1>6, <1>7 DEF InsertAfter
<1>9. Place(v) \in DOMAIN kids[p] /\ kids[p][Place(v)] = v /\ kids[p] \in Seq(Nodes)
  <2>1. \E i \in DOMAIN kids[p] : kids[p][i] = v
    BY <1>5 DEF Has
  <2>2. Place(v) = CHOOSE i \in DOMAIN kids[p] : kids[p][i] = v
    BY <1>6 DEF Place
  <2>3. Place(v) \in DOMAIN kids[p] /\ kids[p][Place(v)] = v
    BY <2>1, <2>2, Zenon
  <2> QED
    BY <1>2, <1>5, <2>3
<1>10. \A j \in DOMAIN kids[p] : kids[p][j] # e.top
  BY <1>3, <1>5 DEF Grew, Has
<1>11. \A j, k \in DOMAIN kids[p] : kids[p][j] = kids[p][k] => j = k
  BY <1>2, <1>5 DEF OnePlace
<1>12. Last(kids'[p]) # v /\ Has(kids', p, e.top)
  <2>1. Last(kids'[p]) # kids[p][Place(v)] /\ \E j \in DOMAIN kids'[p] : kids'[p][j] = e.top
    <3>1. PICK s \in Seq(Nodes) : s = kids[p]
      BY <1>9
    <3>2. PICK i \in DOMAIN s : i = Place(v)
      BY <1>9, <3>1
    <3>3. PICK r : r = kids'[p]
      OBVIOUS
    <3>4. r = InsertAt(s, i + 1, e.top)
      BY <1>8, <3>1, <3>2, <3>3
    <3>5. Lacks(s, e.top) /\ Once(s)
      BY <1>10, <1>11, <3>1 DEF Lacks, Once
    <3>6. Last(r) # s[i] /\ \E j \in DOMAIN r : r[j] = e.top
      BY <1>4, <3>4, <3>5, InsertedAfter
    <3> QED
      BY <3>1, <3>2, <3>3, <3>6
  <2> QED
    BY <1>9, <2>1 DEF Has
<1> QED
  BY <1>12 DEF v, e

LEMMA AddedUnplayed ==
  ASSUME PlayedPlaced, NEW e, Grew(e), e.top \in Nodes
  PROVE  e.top \notin played
<1>1. ASSUME e.top \in played PROVE FALSE
  <2>1. PICK g \in [Nat -> Nodes], m \in Nat : Trail(kids, g, m, e.top)
    BY <1>1 DEF PlayedPlaced, Housed
  <2>2. g[m] = e.top /\ m \in 0..m
    BY <2>1 DEF Trail
  <2>3. e.top = Root \/ \E q \in Groups : Has(kids, q, e.top)
    BY <2>1, <2>2, TrailNodes
  <2> QED
    BY <2>3 DEF Grew
<1> QED
  BY <1>1

LEMMA OpenedFollows ==
  ASSUME PInv, OpenPlaylist, Contents[iter.node] # NoEntry, shuffled \subseteq {Root},
         NEW f \in [Nat -> Nodes], NEW l \in Nat, l >= 1, Trail(kids, f, l, iter.node)
  PROVE  Followed(kids', shuffled, played, iter.node, f[l - 1])
<1> DEFINE e == Contents[iter.node]
           p == f[l - 1]
           v == iter.node
<1>1. pc = "rest" /\ job = "playlist"
  BY DEF OpenPlaylist, Returned
<1>2. /\ kids \in [Nodes -> Seq(Nodes)] /\ OnePlace(kids) /\ NInv /\ OInv
      /\ v \in Nodes /\ v \in DOMAIN Contents /\ iter.live /\ iter.pushed
  BY <1>1, KidsTyped DEF PInv, OInv, Marks, NInv, Places, IInv, Calls, Nodes
<1>3. e \in Added /\ e # NoEntry /\ Grew(e)
  BY <1>2, OpenPlaylistGrows DEF Added
<1> HIDE DEF e
<1>4. e.top \in Nodes
  BY <1>3, AddedTyped
<1>5. f[l] = v /\ l \in 1..l
  BY DEF Trail
<1>6. p \in Groups /\ p \in Nodes /\ Has(kids, p, v) /\ l - 1 \in 0..l
  BY <1>5, TrailUp
<1>7. p = Root \/ \E q \in Groups : Has(kids, q, p)
  BY <1>2, <1>6, TrailNodes
<1> HIDE DEF p, v
<1>8. Last(kids'[p]) # v /\ Has(kids', p, e.top)
  BY <1>2, <1>6, <1>7, PlaylistOpened DEF v, e
<1>9. e.top \notin played
  BY <1>3, <1>4, AddedUnplayed DEF PInv
<1>10. ASSUME p \in shuffled PROVE v \in played
  <2>1. p = Root
    BY <1>10
  <2> QED
    BY <1>1, <1>2, <1>6, <1>10, <2>1 DEF PInv, PlayingPlayed, v
<1>11. Followed(kids', shuffled, played, v, p)
  BY <1>4, <1>8, <1>9, <1>10 DEF Followed
<1> QED
  BY <1>11 DEF v, p

LEMMA OpenPlaylistKeepsPlaces ==
  ASSUME PInv, OInv', OpenPlaylist
  PROVE  PInv'
<1>1. /\ pc = "rest" /\ job = "playlist" /\ UNCHANGED <<loops, shuffled, played, iter>>
      /\ victim' = iter.node
      /\ job' = "added" /\ pc' = "step" /\ dir' = 1 /\ withNodes' = FALSE
  BY DEF OpenPlaylist, Returned, Call
<1>2. /\ iter.live /\ iter.node \in Nodes /\ iter.node \in Files /\ iter.node # NoNode
      /\ NInv /\ OInv /\ Here(kids, iter.node)
  BY <1>1, NodesAssumption DEF PInv, OInv, NInv, Places, IInv, Calls, Nodes
<1>3. Contents[iter.node] = NoEntry => kids' = kids
  BY DEF OpenPlaylist
<1>4. Contents[iter.node] # NoEntry => Grew(Contents[iter.node])
  BY <1>2, OpenPlaylistGrows
<1>5. Nodeless' /\ OwnLevel' /\ PlayingPlayed'
  BY <1>1 DEF Nodeless, OwnLevel, PlayingPlayed
<1>6. GivesUp'
  BY <1>1 DEF GivesUp, Idle, Returned
<1>7. PlayedPlaced'
  <2>1. played \subseteq Nodes
    BY <1>2 DEF NInv, IInv, TypeOK
  <2> QED
    BY <1>1, <1>3, <1>4, <2>1 DEF PInv, PlayedPlaced, Grew
<1>8. Gone'
  <2> SUFFICES ASSUME Freed(kids', iter.node), shuffled \subseteq {Root}
               PROVE  Loses(iter.node)'
    BY <1>1 DEF Gone
  <2>1. Freed(kids, iter.node)
    BY <1>2, <1>3, <1>4, GrewHoused
  <2>2. Loses(iter.node)
    BY <1>1, <1>2, <2>1 DEF PInv, Gone
  <2>3. kids' = kids
    BY <1>3, <2>2 DEF Loses
  <2>4. (\E m \in Emptied \ {Root} : Returns(m))'
    BY <1>1, <2>2, <2>3, LosesStays
  <2> QED
    BY <1>1, <2>2, <2>4 DEF Loses
<1>9. Hunts'
  <2> SUFFICES ASSUME shuffled \subseteq {Root}, ~ Freed(kids', iter.node)
               PROVE  \E f \in [Nat -> Nodes], l \in Nat :
                        l >= 1 /\ Trail(kids', f, l, victim') /\ Climbing(f, l)'
    BY <1>1 DEF Hunts
  <2>1. ~ Freed(kids, iter.node)
    BY <1>3, <1>4 DEF Grew
  <2>2. PICK f \in [Nat -> Nodes], l \in Nat : Trail(kids, f, l, iter.node)
    BY <1>2, <2>1 DEF Here, Housed
  <2>3. l >= 1
    BY <1>2, <2>2, NodesAssumption DEF Trail
  <2>4. f[l] = iter.node
    BY <2>2 DEF Trail
  <2>5. CASE Contents[iter.node] = NoEntry
    <3>1. ClimbsAt(kids', job', pc', iter'.node, f, l, l) /\ l \in 0..l
      BY <1>1, <2>4 DEF ClimbsAt, LastDown
    <3>2. Climbing(f, l)'
      BY <1>1, <2>5, <3>1 DEF Climbing
    <3> QED
      BY <1>1, <1>3, <2>2, <2>3, <2>5, <3>2
  <2>6. CASE Contents[iter.node] # NoEntry
    <3>1. Followed(kids', shuffled, played, iter.node, f[l - 1])
      BY <2>2, <2>3, <2>6, OpenedFollows
    <3>2. Trail(kids', f, l, iter.node)
      BY <1>2, <1>4, <2>2, <2>6 DEF Grew
    <3>3. Climbing(f, l)'
      BY <1>1, <2>6, <3>1 DEF Climbing
    <3> QED
      BY <1>1, <2>3, <3>2, <3>3
  <2> QED
    BY <2>5, <2>6
<1> QED
  BY <1>5, <1>6, <1>7, <1>8, <1>9 DEF PInv

-----------------------------------------------------------------------------
(* The playlist is done.                                                    *)
LEMMA KeptOut ==
  ASSUME kids \in [Nodes -> Seq(Nodes)], NEW v, NEW k,
         k = [n \in Nodes |-> Kept(kids[n], Nodes \ {v})],
         NEW p \in Groups, NEW m
  PROVE  Has(k, p, m) <=> Has(kids, p, m) /\ m # v
<1> DEFINE S == Nodes \ {v}
<1>1. PICK list \in Seq(Nodes) : list = kids[p] /\ k[p] = Kept(list, S)
  BY DEF Nodes
<1> HIDE DEF S
<1>2. Kept(list, S) \in Seq(Nodes) /\ ToSet(Kept(list, S)) = ToSet(list) \cap S
  BY KeptSame, Zenon
<1>3. PICK r : r = Kept(list, S)
  OBVIOUS
<1>4. m \in ToSet(r) <=> m \in ToSet(list) /\ m \in S
  BY <1>2, <1>3, Zenon
<1>5. m \in ToSet(list) => m \in Nodes
  BY DEF ToSet
<1>6. m \in ToSet(r) <=> m \in ToSet(list) /\ m # v
  BY <1>4, <1>5 DEF S
<1>7. k[p] = r /\ kids[p] = list
  BY <1>1, <1>3
<1>8. Has(k, p, m) <=> m \in ToSet(r)
  BY <1>7 DEF Has, ToSet
<1>9. Has(kids, p, m) <=> m \in ToSet(list)
  BY <1>7 DEF Has, ToSet
<1> QED
  BY <1>6, <1>8, <1>9

(* All but the playlist keep their place.                                   *)
LEMMA OutTrail ==
  ASSUME kids \in [Nodes -> Seq(Nodes)], NEW v, v \notin Groups, NEW k,
         \A p \in Groups : \A m : Has(k, p, m) <=> Has(kids, p, m) /\ m # v,
         NEW f \in [Nat -> Nodes], NEW l \in Nat, NEW n \in Nodes, n # v, Trail(kids, f, l, n)
  PROVE  Trail(k, f, l, n)
<1>1. \A p \in Groups : ~ Has(kids, p, NoNode)
  <2>1. ASSUME NEW p \in Groups, Has(kids, p, NoNode) PROVE FALSE
    <3>1. kids[p] \in Seq(Nodes)
      BY DEF Nodes
    <3> QED
      BY <2>1, <3>1, NodesAssumption DEF Has
  <2> QED
    BY <2>1
<1>2. NoNode # Root
  BY NodesAssumption DEF Nodes
<1>3. \A p \in Groups \ {NoNode} : \A m \in Nodes \ {v} : Has(kids, p, m) => Has(k, p, m)
  OBVIOUS
<1> QED
  BY <1>1, <1>2, <1>3, TrailStays

(* Where the playlist was all there was, nothing is left.                   *)
LEMMA AloneInvalid ==
  ASSUME kids \in [Nodes -> Seq(Nodes)], NEW v, NEW k, k \in [Nodes -> Seq(Nodes)],
         k = [n \in Nodes |-> Kept(kids[n], Nodes \ {v})],
         NEW f \in [Nat -> Nodes], NEW l \in Nat, NEW h \in 1..(l - 1),
         Trail(kids, f, l, v), AloneDown(kids, f, h, l)
  PROVE  f[h] \notin ValidIn(k)
<1>0. l \in Nat /\ h \in Nat /\ h >= 1 /\ h <= l - 1
  OBVIOUS
<1>9. \A p \in Groups : \A m : Has(k, p, m) <=> Has(kids, p, m) /\ m # v
  BY KeptOut, Zenon
<1> DEFINE U == {i \in Nat : i <= l - 1 - h => f[l - 1 - i] \notin ValidIn(k)}
<1>1. ASSUME NEW j \in h..(l - 1), f[j + 1] = v \/ f[j + 1] \notin ValidIn(k)
      PROVE  f[j] \notin ValidIn(k)
  <2>1. j \in Nat /\ j \in 0..(l - 1)
    BY <1>0
  <2>2. f[j] \in Groups /\ f[j] \in Nodes /\ kids[f[j]] = <<f[j + 1]>>
    BY <2>1 DEF Trail, AloneDown
  <2>3. f[j] \notin Files
    BY <2>2, NodesAssumption
  <2>4. ASSUME NEW i \in DOMAIN k[f[j]], k[f[j]][i] \in ValidIn(k) PROVE FALSE
    <3>1. Has(k, f[j], k[f[j]][i])
      BY DEF Has
    <3>2. Has(kids, f[j], k[f[j]][i]) /\ k[f[j]][i] # v
      BY <1>9, <2>2, <3>1
    <3>3. k[f[j]][i] = f[j + 1]
      <4>1. PICK list, c : list = kids[f[j]] /\ c = f[j + 1] /\ list = <<c>>
        BY <2>2
      <4>2. PICK y \in DOMAIN list : list[y] = k[f[j]][i]
        BY <3>2, <4>1 DEF Has
      <4>3. list[y] = c
        BY <4>1
      <4> QED
        BY <4>1, <4>2, <4>3
    <3> QED
      BY <1>1, <2>4, <3>2, <3>3
  <2> QED
    BY <2>2, <2>3, <2>4, ValidInUnfolds
<1>2. 0 \in U
  <2>1. l - 1 \in h..(l - 1) /\ (l - 1) + 1 = l /\ l - 1 - 0 = l - 1
    BY <1>0
  <2>2. f[(l - 1) + 1] = v
    BY <2>1 DEF Trail
  <2>3. f[l - 1] \notin ValidIn(k)
    BY <1>1, <2>1, <2>2
  <2> QED
    BY <2>1, <2>3
<1>3. ASSUME NEW i \in U PROVE i + 1 \in U
  <2> SUFFICES ASSUME i + 1 <= l - 1 - h PROVE f[l - 1 - (i + 1)] \notin ValidIn(k)
    OBVIOUS
  <2>1. PICK j \in h..(l - 1) : j = l - 1 - (i + 1) /\ j + 1 = l - 1 - i
    <3>1. l - 1 - (i + 1) \in h..(l - 1) /\ (l - 1 - (i + 1)) + 1 = l - 1 - i
      BY <1>0
    <3> QED
      BY <3>1
  <2>2. f[l - 1 - i] \notin ValidIn(k)
    BY <1>0
  <2>3. f[j + 1] \notin ValidIn(k)
    BY <2>1, <2>2
  <2>4. f[j] \notin ValidIn(k)
    BY <1>1, <2>3
  <2> QED
    BY <2>1, <2>4
<1>4. U \in SUBSET Nat
  OBVIOUS
<1> HIDE DEF U
<1>5. U = Nat
  BY <1>2, <1>3, <1>4, Induct
<1>6. l - 1 - h \in U /\ l - 1 - (l - 1 - h) = h
  BY <1>0, <1>5
<1>7. l - 1 - h <= l - 1 - h => f[l - 1 - (l - 1 - h)] \notin ValidIn(k)
  BY <1>6 DEF U
<1> QED
  BY <1>0, <1>6, <1>7

(* A group that the iterator was brought back to is such a group then.      *)
LEMMA VictimLost ==
  ASSUME PInv, OInv', kids' = [n \in Nodes |-> Kept(kids[n], Nodes \ {victim})],
         loops' = loops, shuffled' = shuffled, victim \in Files,
         NEW f \in [Nat -> Nodes], NEW l \in Nat, NEW h \in 1..(l - 1),
         Trail(kids, f, l, victim), Brings(kids, loops, shuffled, f, h),
         AloneDown(kids, f, h, l)
  PROVE  (\E m \in Emptied \ {Root} : Returns(m))'
<1>0. l \in Nat /\ h \in Nat /\ h >= 1 /\ h <= l - 1 /\ h \in 0..(l - 1) /\ h \in 1..l
      /\ h - 1 \in Nat /\ h - 1 \in 0..(l - 1) /\ (h - 1) + 1 = h
  OBVIOUS
<1>1. /\ kids \in [Nodes -> Seq(Nodes)] /\ Topped(kids)
      /\ kids' \in [Nodes -> Seq(Nodes)] /\ OnePlace(kids')
  BY KidsTyped DEF PInv, OInv, NInv, Places, IInv, TypeOK
<1>2. victim \notin Groups
  BY NodesAssumption
<1>14. \A p \in Groups : \A m : Has(kids', p, m) <=> Has(kids, p, m) /\ m # victim
  BY <1>1, KeptOut, Zenon
<1>3. /\ f[h] \in Groups /\ f[h] \in Nodes /\ f[h - 1] \in Groups /\ f[h - 1] \in Nodes
      /\ Has(kids, f[h - 1], f[h])
  BY <1>0 DEF Trail
<1>4. f[h] # Root /\ f[h] # victim /\ f[h - 1] # victim
  BY <1>1, <1>2, <1>3 DEF Topped
<1>5. Trail(kids, f, h, f[h]) /\ Trail(kids, f, h - 1, f[h - 1])
  BY <1>0 DEF Trail
<1>6. Trail(kids', f, h, f[h]) /\ Trail(kids', f, h - 1, f[h - 1])
  BY <1>0, <1>1, <1>2, <1>3, <1>4, <1>5, <1>14, OutTrail
<1>7. Valid' = ValidIn(kids') /\ InTree' = InTreeIn(kids')
  BY Zenon DEF Valid, ValidIn, InTree, InTreeIn, ParentOf, ParentIn
<1>8. f[h] \in InTree' /\ f[h - 1] \in InTree'
  <2>1. Housed(kids', f[h]) /\ Housed(kids', f[h - 1])
    BY <1>0, <1>6, Zenon DEF Housed
  <2> QED
    BY <1>1, <1>3, <1>7, <2>1, HousedInTreeIn
<1>9. f[h] \notin Valid'
  BY <1>0, <1>1, <1>7, AloneInvalid
<1>10. f[h] \in Emptied'
  BY <1>3, <1>8, <1>9 DEF Emptied
<1>11. (ParentOf(f[h]))' = f[h - 1]
  <2>1. Has(kids', f[h - 1], f[h])
    BY <1>3, <1>4, <1>14
  <2>2. ParentIn(kids', f[h]) = f[h - 1]
    BY <1>1, <1>3, <2>1, ParentInIs
  <2>3. \A n : (ParentOf(n))' = ParentIn(kids', n)
    BY Zenon DEF ParentOf, ParentIn
  <2> QED
    BY <2>2, <2>3
<1>12. CASE f[h - 1] \in shuffled
  <2>1. (Returns(f[h]))'
    BY <1>11, <1>12 DEF Returns
  <2> QED
    BY <1>4, <1>10, <2>1
<1>13. CASE kids[f[h - 1]] = <<f[h]>> /\ loops[f[h - 1]] # 0
  <2>1. f[h - 1] \notin Files
    BY <1>3, NodesAssumption
  <2>2. ASSUME NEW i \in DOMAIN kids'[f[h - 1]], kids'[f[h - 1]][i] \in ValidIn(kids') PROVE FALSE
    <3>1. Has(kids', f[h - 1], kids'[f[h - 1]][i])
      BY DEF Has
    <3>2. Has(kids, f[h - 1], kids'[f[h - 1]][i])
      BY <1>3, <1>14, <3>1
    <3>3. kids'[f[h - 1]][i] = f[h]
      BY <1>13, <3>2 DEF Has
    <3> QED
      BY <1>7, <1>9, <2>2, <3>3
  <2>3. f[h - 1] \notin Valid'
    BY <1>1, <1>3, <1>7, <2>1, <2>2, ValidInUnfolds
  <2>4. f[h - 1] \in Emptied'
    BY <1>3, <1>8, <2>3 DEF Emptied
  <2>5. (Returns(f[h]))'
    BY <1>11, <1>13, <2>4 DEF Returns
  <2> QED
    BY <1>4, <1>10, <2>5
<1> QED
  BY <1>12, <1>13 DEF Brings

(* The playlist that was met again was the only file of its list.           *)
LEMMA UnloopedClimbs ==
  ASSUME PInv, shuffled \subseteq {Root}, NEW f \in [Nat -> Nodes], NEW l \in Nat,
         Trail(kids, f, l, victim), NEW w, w # "unlooped",
         BackAt(kids, loops, shuffled, w, f, l, l)
  PROVE  ClimbsAt(kids, "unlooped", "up", victim, f, l, l)
<1>1. f[l] = victim
  BY DEF Trail
<1>2. ASSUME l >= 2 PROVE Last(kids[f[l - 1]]) = f[l]
  <2>1. PICK h \in 1..l : Brings(kids, loops, shuffled, f, h) /\ LastDown(kids, f, h, l)
    BY DEF BackAt
  <2>2. CASE h < l
    <3>1. l - 1 \in h..(l - 1) /\ (l - 1) + 1 = l
      BY <2>2
    <3> QED
      BY <2>1, <3>1 DEF LastDown
  <2>3. CASE h = l
    <3>1. PICK d \in [Nodes -> Nat] : Graded(kids, d)
      BY Zenon DEF PInv, OInv, NInv, IInv, Levels
    <3>2. l - 1 \in 0..l
      BY <1>2
    <3>3. d[f[l - 1]] = l - 1
      BY <3>1, <3>2, TrailDepth
    <3>4. f[l - 1] # Root
      BY <1>2, <3>1, <3>3 DEF Graded
    <3>5. kids[f[l - 1]] = <<f[l]>>
      BY <2>1, <2>3, <3>4 DEF Brings
    <3> QED
      BY <3>5 DEF Last
  <2> QED
    BY <2>2, <2>3
<1>3. l >= 2 => LastDown(kids, f, l - 1, l)
  BY <1>2 DEF LastDown
<1> QED
  BY <1>1, <1>3 DEF ClimbsAt

(* The iterator is on its way up from it.                                   *)
LEMMA UnloopedKeepsPlaces ==
  ASSUME PInv, OInv', pc = "rest", job = "added", ret = "entry", Contents[victim] = NoEntry,
         iter.node = victim, Call("up", 1, FALSE, "unlooped"), UNCHANGED <<tree, victim, iter>>
  PROVE  PInv'
<1>1. /\ pc' = "up" /\ dir' = 1 /\ withNodes' = FALSE /\ job' = "unlooped"
      /\ UNCHANGED <<kids, loops, shuffled, played>>
  BY DEF Call, tree
<1>2. ~ Freed(kids, iter.node) /\ iter.node \in Files
  BY ArrivedPushed DEF PInv, OInv, NInv, IInv, Calls
<1>3. Nodeless' /\ OwnLevel' /\ PlayingPlayed' /\ Gone'
  BY <1>1, <1>2 DEF Nodeless, OwnLevel, PlayingPlayed, Gone
<1>4. GivesUp'
  BY <1>1 DEF GivesUp, Idle, Returned
<1>5. PlayedPlaced'
  BY <1>1 DEF PInv, PlayedPlaced
<1>6. Hunts'
  <2> SUFFICES ASSUME shuffled \subseteq {Root}
               PROVE  \E f \in [Nat -> Nodes], l \in Nat :
                        l >= 1 /\ Trail(kids', f, l, victim') /\ Climbing(f, l)'
    BY <1>1 DEF Hunts
  <2>1. PICK f \in [Nat -> Nodes], l \in Nat :
          /\ l >= 1 /\ Trail(kids, f, l, victim)
          /\ Climbing(f, l) \/ Descending(f, l) \/ Found(f, l)
    BY <1>2, Zenon DEF PInv, Hunts
  <2>2. Found(f, l)
    BY <2>1 DEF Climbing, Descending
  <2>3. BackAt(kids, loops, shuffled, job, f, l, l)
    BY <2>2 DEF Found
  <2>4. ClimbsAt(kids, "unlooped", "up", victim, f, l, l)
    BY <2>1, <2>3, UnloopedClimbs
  <2>5. Climbing(f, l)'
    BY <1>1, <2>4 DEF Climbing
  <2> QED
    BY <1>1, <2>1, <2>5
<1> QED
  BY <1>3, <1>4, <1>5, <1>6 DEF PInv

(* The playlist is taken out.                                               *)
LEMMA RemovedKeepsPlaces ==
  ASSUME PInv, OInv', pc = "rest", job \in {"added", "unlooped"}, ret = "entry", ~ SingleFile,
         RemoveVictim, NextSource(1), NoCall, UNCHANGED iter
  PROVE  PInv'
<1>1. /\ kids' = [n \in Nodes |-> Kept(kids[n], Nodes \ {victim})]
      /\ played' = played \ {victim} /\ loops' = loops /\ shuffled' = shuffled
      /\ job' = "files" /\ pc' = "rest"
  BY DEF RemoveVictim, NextSource, NoCall, call
<1>2. /\ kids \in [Nodes -> Seq(Nodes)] /\ NInv /\ OInv /\ played \subseteq Nodes
      /\ iter.node \in Files /\ iter.node \in Nodes /\ Here(kids, iter.node)
      /\ victim \in DOMAIN Contents /\ victim \in Files
  BY NodesAssumption, KidsTyped DEF PInv, OInv, Marks, NInv, Places, IInv, TypeOK, Calls, Nodes
<1>3. victim \notin Groups /\ iter.node # NoNode
  BY <1>2, NodesAssumption DEF Nodes
<1>4. ~ Freed(kids, iter.node)
  BY <1>2, ArrivedPushed
<1>5. \A p \in Groups : \A m : Has(kids', p, m) <=> Has(kids, p, m) /\ m # victim
  BY <1>1, <1>2, KeptOut, Zenon
<1>6. ASSUME NEW n \in Nodes, n # victim, Housed(kids, n) PROVE Housed(kids', n)
  <2>1. PICK f \in [Nat -> Nodes], l \in Nat : Trail(kids, f, l, n)
    BY <1>6 DEF Housed
  <2>2. kids \in [Nodes -> Seq(Nodes)] /\ victim \notin Groups /\ n # victim
    BY <1>2, <1>3, <1>6
  <2>3. ASSUME NEW k, NEW v, v \notin Groups, n # v,
               \A p \in Groups : \A m : Has(k, p, m) <=> Has(kids, p, m) /\ m # v
        PROVE  Trail(k, f, l, n)
    BY <2>1, <2>2, <2>3, OutTrail
  <2>4. Trail(kids', f, l, n)
    BY <1>5, <2>2, <2>3
  <2> QED
    BY <2>4 DEF Housed
<1>7. Nodeless' /\ OwnLevel' /\ Hunts'
  BY <1>1, <1>2 DEF Nodeless, OwnLevel, Hunts
<1>8. GivesUp'
  BY <1>1 DEF GivesUp, Idle, Returned
<1>9. PlayedPlaced'
  BY <1>1, <1>2, <1>6 DEF PInv, PlayedPlaced
<1>10. PlayingPlayed'
  <2> SUFFICES ASSUME iter.live, iter.pushed, iter.node \in DOMAIN Contents,
                      Has(kids', Root, iter.node), Root \in shuffled
               PROVE  iter.node \in played'
    BY <1>1 DEF PlayingPlayed
  <2>1. Has(kids, Root, iter.node) /\ iter.node # victim
    BY <1>5, NodesAssumption
  <2>2. iter.node \in played
    BY <2>1 DEF PInv, PlayingPlayed
  <2> QED
    BY <1>1, <2>1, <2>2
<1>11. Gone'
  <2> SUFFICES ASSUME Freed(kids', iter.node), shuffled \subseteq {Root}
               PROVE  Loses(iter.node)'
    BY <1>1 DEF Gone
  <2>1. iter.node = victim
    <3>1. ASSUME iter.node # victim PROVE FALSE
      <4>1. Housed(kids', iter.node)
        BY <1>2, <1>3, <1>4, <1>6, <3>1 DEF Here
      <4>2. PICK f \in [Nat -> Nodes], l \in Nat : Trail(kids', f, l, iter.node)
        BY <4>1 DEF Housed
      <4> QED
        BY <1>2, <4>2, TrailNodes
    <3> QED
      BY <3>1
  <2>2. PICK f \in [Nat -> Nodes], l \in Nat :
          /\ l >= 1 /\ Trail(kids, f, l, victim)
          /\ Climbing(f, l) \/ Descending(f, l) \/ Found(f, l)
    BY <1>4, <2>1, Zenon DEF PInv, Hunts
  <2>3. Found(f, l)
    BY <2>2 DEF Climbing, Descending
  <2>4. Contents[victim] = NoEntry /\ BackAt(kids, loops, shuffled, job, f, l, l)
    BY <2>1, <2>3 DEF Found
  <2>5. job = "unlooped"
    BY <2>1, <2>4 DEF SingleFile, Returned
  <2>6. PICK h \in 1..l : /\ h < l /\ Brings(kids, loops, shuffled, f, h)
                          /\ AloneDown(kids, f, h, l)
    BY <2>4, <2>5 DEF BackAt
  <2>7. h \in 1..(l - 1)
    BY <2>6
  <2>8. (\E m \in Emptied \ {Root} : Returns(m))'
    BY <1>1, <1>2, <2>2, <2>6, <2>7, VictimLost
  <2> QED
    BY <2>1, <2>4, <2>8 DEF Loses
<1> QED
  BY <1>7, <1>8, <1>9, <1>10, <1>11 DEF PInv

LEMMA PlaylistDoneKeepsPlaces ==
  ASSUME PInv, OInv', PlaylistDone
  PROVE  PInv'
<1>1. /\ pc = "rest" /\ job \in {"added", "unlooped"} /\ UNCHANGED <<iter, conf, base, lost>>
      /\ \/ NextEntry /\ UNCHANGED tree
         \/ /\ ret = "entry" /\ SingleFile /\ Call("up", 1, FALSE, "unlooped")
            /\ UNCHANGED <<tree, victim>>
         \/ ret = "entry" /\ ~ SingleFile /\ RemoveVictim /\ NextSource(1) /\ NoCall
  BY Zenon DEF PlaylistDone, Returned, history
<1>2. CASE NextEntry /\ UNCHANGED tree
  <2>1. pc' = "step" /\ withNodes' = FALSE /\ job' = "next"
    BY <1>2 DEF NextEntry, Call
  <2> QED
    BY <1>1, <1>2, <2>1, SameKeepsPlaces
<1>3. CASE /\ ret = "entry" /\ SingleFile /\ Call("up", 1, FALSE, "unlooped")
           /\ UNCHANGED <<tree, victim>>
  <2>1. job = "added" /\ Contents[victim] = NoEntry /\ iter.node = victim
    BY <1>3 DEF SingleFile, Returned
  <2> QED
    BY <1>1, <1>3, <2>1, UnloopedKeepsPlaces
<1>4. CASE ret = "entry" /\ ~ SingleFile /\ RemoveVictim /\ NextSource(1) /\ NoCall
  BY <1>1, <1>4, RemovedKeepsPlaces
<1> QED
  BY <1>1, <1>2, <1>3, <1>4

-----------------------------------------------------------------------------
LEMMA InitPlaces ==
  ASSUME Init
  PROVE  PInv
<1>1. /\ iter.node = NoNode /\ ~iter.live /\ job = "boot" /\ ret = "none" /\ pc = "rest"
      /\ played = {} /\ Len(conf.slots) = 1 /\ base = 1 /\ lost = 0
  BY NoIterTyped DEF Init
<1>2. GivesUp
  BY <1>1 DEF GivesUp, Idle, Returned
<1> QED
  BY <1>1, <1>2, InitOptions
  DEF PInv, Nodeless, OwnLevel, PlayedPlaced, PlayingPlayed, Gone, Hunts

LEMMA NextPlaces ==
  ASSUME PInv, [Next]_vars
  PROVE  PInv'
<1>1. OInv'
  BY NextOptions DEF PInv
<1>2. CASE Restful
  BY <1>1, <1>2, RestfulKeepsPlaces
<1>3. CASE Iterate \/ Boot \/ OpenPlaylist \/ PlaylistDone \/ UNCHANGED vars
  BY <1>1, <1>3, IterateKeepsPlaces, BootKeepsPlaces, OpenPlaylistKeepsPlaces,
     PlaylistDoneKeepsPlaces, StutterKeepsPlaces, Zenon
<1>4. CASE \E e \in Loads : Replaced(e)
  BY <1>1, <1>4, ReplacedKeepsPlaces, Zenon
<1>5. CASE \E e \in NewEntries : LoadAppend(e)
  BY <1>1, <1>5, LoadAppendKeepsPlaces, Zenon
<1>6. CASE \E e \in Loads : LoadIdle(e)
  BY <1>1, <1>6, StartKeepsPlaces, Zenon DEF LoadIdle, Replace
<1> QED
  BY <1>2, <1>3, <1>4, <1>5, <1>6, Zenon DEF Next, Proceed, Restful

(* When the player has become idle, the levels of all groups and entries    *)
(* that it went through are popped, if no list is shuffled and no group is  *)
(* empty: the searches that goto_next_file gives up then end where          *)
(* play_tree_iter_up_step finds no parent, at the root, the level of the    *)
(* entry gone before.                                                       *)
THEOREM NoLevelStays == Spec => []NoLevelLeft
<1>1. Init => PInv
  BY InitPlaces
<1>2. PInv /\ [Next]_vars => PInv'
  BY NextPlaces
<1>3. ASSUME PInv PROVE NoLevelLeft
  BY <1>3 DEF PInv, GivesUp, Spent, NoLevelLeft
<1> QED
  BY <1>1, <1>2, <1>3, PTL DEF Spec

(* The iterator is never on a node that was freed, unless a group below the *)
(* root is shuffled or one that was emptied Returns.  playtree_add_playlist *)
(* frees the playlist after a step away from it, which comes back to it     *)
(* only where a list brings it back: the list that the playlist is alone    *)
(* in, which is left upwards first (its single_file), or one around, and    *)
(* then what is between is left as empty groups below one that Returns.     *)
THEOREM IteratorStaysInTree == Spec => []IteratorInTree
<1>1. Init => PInv
  BY InitPlaces
<1>2. PInv /\ [Next]_vars => PInv'
  BY NextPlaces
<1>3. ASSUME PInv PROVE IteratorInTree
  <2> SUFFICES ASSUME shuffled \subseteq {Root}, \A n \in Emptied \ {Root} : ~ Returns(n),
                      Held.live, Held.node # NoNode
               PROVE  Held.node \in InTree
    BY DEF IteratorInTree
  <2>1. /\ kids \in [Nodes -> Seq(Nodes)] /\ OnePlace(kids)
        /\ Here(kids, iter.node) /\ Here(kids, saved.node)
    BY <1>3, KidsTyped DEF PInv, OInv, NInv, Places
  <2>2. Held.node \in Nodes
    BY <1>3, Known, Fields DEF PInv, OInv, NInv, Held
  <2>3. ~ Freed(kids, Held.node)
    <3>1. CASE job = "peek"
      BY <1>3, <3>1 DEF PInv, OInv, Strays, Held
    <3>2. CASE job # "peek"
      BY <1>3, <3>2 DEF PInv, Gone, Loses, Held
    <3> QED
      BY <3>1, <3>2
  <2>4. Housed(kids, Held.node)
    BY <2>1, <2>3 DEF Held, Here
  <2> QED
    BY <2>1, <2>2, <2>4, HousedInTree
<1> QED
  BY <1>1, <1>2, <1>3, PTL DEF Spec

-----------------------------------------------------------------------------
(* Whose turn it is in a shuffled list.                                     *)

(* All of the tree is one shuffled list, and what commands added to it are  *)
(* playlists.                                                               *)
Steady(k, sh) ==
  /\ sh = {Root}
  /\ \A m \in Nodes : Has(k, Root, m) =>
       m \in Files /\ (m \in {e.top : e \in Loads} => m \in DOMAIN Contents)

(* What was in the list from the beginning.                                 *)
Own(k, m) == Has(k, Root, m) /\ m \notin {e.top : e \in Loads}

(* In a pass those that were played count once; what was added and played   *)
(* counts, and something is left to play.                                   *)
Midway(k, p, c) ==
  /\ \A m \in Files : Own(k, m) => c[m] = IF m \in p THEN 1 ELSE 0
  /\ \A m \in Files : Has(k, Root, m) /\ m \in p => c[m] >= 1
  /\ \E m \in Files : Has(k, Root, m) /\ m \notin p

(* All were played, and what they have in common is no longer counted.      *)
Even(k, p, c) == \A m \in Files : Own(k, m) => m \in p /\ c[m] = 0

(* A file alone plays again and again.                                      *)
Lone(k, c) == \E n \in Files : c[n] <= 1 /\ \A m \in Files : Has(k, Root, m) => m = n

Dealt(k, p, c) == Midway(k, p, c) \/ Even(k, p, c) \/ Lone(k, c)

Turns == iter.live /\ Steady(kids, shuffled) => Dealt(kids, played, count)

Uncounted == ~iter.live => \A f \in Files : count[f] = 0

(* What plays was played.                                                   *)
Marked ==
  /\ Steady(kids, shuffled) /\ job # "peek" /\ iter.live /\ iter.pushed /\ pc = "rest"
  /\ Has(kids, Root, iter.node)
  => iter.node \in played

(* If a copy begins a new pass it finds an entry, and the iterator goes on. *)
Copied ==
  /\ Steady(kids, shuffled) /\ job = "peek" /\ Has(kids, Root, saved.node)
  /\ saved.node \notin played
  => \/ pc = "step" /\ Has(kids, Root, iter.node)
     \/ pc = "rest" /\ ret = "entry"

(* A playlist was played before it is taken out, or a new pass begins.      *)
TakenOut(k, p, v, n, where) ==
  Has(k, Root, v) =>
    \/ v \in p
    \/ \A m \in Files : Has(k, Root, m) => m \notin p
    \/ where = "rest" /\ \A m \in Files : Has(k, Root, m) /\ m \in p => m = n

Takes ==
  Steady(kids, shuffled) /\ job \in {"added", "unlooped"} =>
    TakenOut(kids, played, victim, iter.node, pc)

Sharing == Turns /\ Uncounted /\ Marked /\ Copied /\ Takes

RInv == PInv /\ Sharing

-----------------------------------------------------------------------------
(* The count, as the list, what was played and the count change.            *)

(* What n adds to the count, as long as not all of the list have been        *)
(* played once more.                                                        *)
Shared(k, c, n, d) ==
  \/ /\ \A m \in Files : Has(k, Root, m) => m = n \/ c[m] > 0
     /\ \A m \in Files : Has(k, Root, m) => d[m] = IF m = n THEN c[m] ELSE c[m] - 1
  \/ /\ \E m \in Files : Has(k, Root, m) /\ m # n /\ c[m] = 0
     /\ \A m \in Files : d[m] = IF m = n THEN c[m] + 1 ELSE c[m]

(* A file is played that was not in this pass.                              *)
LEMMA EntryDeals ==
  ASSUME NEW k, NEW p, NEW c \in [Files -> Nat], Dealt(k, p, c),
         NEW n \in Files, Has(k, Root, n), n \notin p, NEW d \in [Files -> Nat],
         Shared(k, c, n, d)
  PROVE  Dealt(k, p \cup {n}, d)
<1>1. \A m \in Files : c[m] \in Nat /\ d[m] \in Nat
  OBVIOUS
<1>2. CASE Lone(k, c)
  <2>1. c[n] <= 1 /\ \A m \in Files : Has(k, Root, m) => m = n
    BY <1>2 DEF Lone
  <2>2. d[n] = c[n]
    BY <2>1 DEF Shared
  <2>3. Lone(k, d)
    BY <2>1, <2>2 DEF Lone
  <2> QED
    BY <2>3 DEF Dealt
<1>3. CASE Even(k, p, c)
  <2>1. ~ Own(k, n)
    BY <1>3 DEF Even
  <2>2. ASSUME NEW m \in Files, Own(k, m) PROVE m \in p /\ c[m] = 0 /\ m # n /\ Has(k, Root, m)
    BY <1>3, <2>1, <2>2 DEF Even, Own
  <2>3. ASSUME NEW m \in Files, Own(k, m) PROVE d[m] = 0
    <3>1. c[m] = 0 /\ m # n /\ Has(k, Root, m)
      BY <2>2, <2>3
    <3> QED
      BY <1>1, <3>1 DEF Shared
  <2>4. Even(k, p \cup {n}, d)
    BY <2>2, <2>3 DEF Even
  <2> QED
    BY <2>4 DEF Dealt
<1>4. CASE Midway(k, p, c)
  <2>1. /\ \A m \in Files : Own(k, m) => c[m] = IF m \in p THEN 1 ELSE 0
        /\ \A m \in Files : Has(k, Root, m) /\ m \in p => c[m] >= 1
    BY <1>4 DEF Midway
  <2>2. CASE /\ \A m \in Files : Has(k, Root, m) => m = n \/ c[m] > 0
             /\ \A m \in Files : Has(k, Root, m) => d[m] = IF m = n THEN c[m] ELSE c[m] - 1
    <3>1. ASSUME NEW m \in Files, Own(k, m) PROVE m \in p \cup {n} /\ d[m] = 0
      <4>1. Has(k, Root, m)
        BY <3>1 DEF Own
      <4>2. CASE m = n
        BY <2>1, <2>2, <3>1, <4>1, <4>2
      <4>3. CASE m # n
        BY <1>1, <2>1, <2>2, <3>1, <4>1, <4>3
      <4> QED
        BY <4>2, <4>3
    <3>2. Even(k, p \cup {n}, d)
      BY <3>1 DEF Even
    <3> QED
      BY <3>2 DEF Dealt
  <2>3. CASE /\ \E m \in Files : Has(k, Root, m) /\ m # n /\ c[m] = 0
             /\ \A m \in Files : d[m] = IF m = n THEN c[m] + 1 ELSE c[m]
    <3>1. PICK x \in Files : Has(k, Root, x) /\ x # n /\ c[x] = 0
      BY <2>3
    <3>2. x \notin p \cup {n}
      BY <2>1, <3>1
    <3>3. ASSUME NEW m \in Files, Own(k, m) PROVE d[m] = IF m \in p \cup {n} THEN 1 ELSE 0
      BY <1>1, <2>1, <2>3, <3>3
    <3>4. ASSUME NEW m \in Files, Has(k, Root, m), m \in p \cup {n} PROVE d[m] >= 1
      BY <1>1, <2>1, <2>3, <3>4
    <3>5. Midway(k, p \cup {n}, d)
      BY <3>1, <3>2, <3>3, <3>4 DEF Midway
    <3> QED
      BY <3>5 DEF Dealt
  <2> QED
    BY <2>2, <2>3 DEF Shared
<1> QED
  BY <1>2, <1>3, <1>4 DEF Dealt

(* A new pass begins.                                                       *)
LEMMA PassDeals ==
  ASSUME NEW k, NEW p, NEW c, Dealt(k, p, c), \A m \in Files : Has(k, Root, m) => m \in p
  PROVE  Dealt(k, {}, c)
<1>1. CASE Lone(k, c)
  BY <1>1 DEF Dealt
<1>2. CASE Midway(k, p, c)
  BY <1>2 DEF Midway
<1>3. CASE Even(k, p, c)
  <2>1. CASE \E m \in Files : Own(k, m)
    <3>1. Midway(k, {}, c)
      BY <1>3, <2>1 DEF Even, Midway, Own
    <3> QED
      BY <3>1 DEF Dealt
  <2>2. CASE ~ \E m \in Files : Own(k, m)
    <3>1. Even(k, {}, c)
      BY <2>2 DEF Even
    <3> QED
      BY <3>1 DEF Dealt
  <2> QED
    BY <2>1, <2>2
<1> QED
  BY <1>1, <1>2, <1>3 DEF Dealt

(* Only what was played of the list matters.                                *)
LEMMA SameDeals ==
  ASSUME NEW k, NEW p, NEW q, NEW c, Dealt(k, p, c), \A m \in Files : m \in p <=> m \in q
  PROVE  Dealt(k, q, c)
<1>1. CASE Lone(k, c)
  BY <1>1 DEF Dealt
<1>2. CASE Midway(k, p, c)
  <2>1. Midway(k, q, c)
    BY <1>2 DEF Midway
  <2> QED
    BY <2>1 DEF Dealt
<1>3. CASE Even(k, p, c)
  <2>1. Even(k, q, c)
    BY <1>3 DEF Even
  <2> QED
    BY <2>1 DEF Dealt
<1> QED
  BY <1>1, <1>2, <1>3 DEF Dealt

(* A playlist is taken out.                                                 *)
LEMMA OutDeals ==
  ASSUME NEW k, NEW p, NEW c, Dealt(k, p, c), NEW v, NEW j, NEW n, NEW where,
         \A m \in Files : Has(j, Root, m) <=> Has(k, Root, m) /\ m # v,
         TakenOut(k, p, v, n, where), n \in Files
  PROVE  Dealt(j, p \ {v}, c)
<1>0. \A m \in Files : Own(j, m) <=> Own(k, m) /\ m # v
  BY DEF Own
<1>1. CASE Lone(k, c)
  <2>1. Lone(j, c)
    BY <1>1 DEF Lone
  <2> QED
    BY <2>1 DEF Dealt
<1>2. CASE Even(k, p, c)
  <2>1. Even(j, p \ {v}, c)
    BY <1>0, <1>2 DEF Even
  <2> QED
    BY <2>1 DEF Dealt
<1>3. CASE Midway(k, p, c)
  <2>1. /\ \A m \in Files : Own(k, m) => c[m] = IF m \in p THEN 1 ELSE 0
        /\ \A m \in Files : Has(k, Root, m) /\ m \in p => c[m] >= 1
    BY <1>3 DEF Midway
  <2>2. CASE \E m \in Files : Has(k, Root, m) /\ m \notin p /\ m # v
    <3>1. \E m \in Files : Has(j, Root, m) /\ m \notin p \ {v}
      BY <2>2
    <3>2. Midway(j, p \ {v}, c)
      BY <1>0, <2>1, <3>1 DEF Midway
    <3> QED
      BY <3>2 DEF Dealt
  <2>3. CASE ~ \E m \in Files : Has(k, Root, m) /\ m \notin p /\ m # v
    <3>1. Has(k, Root, v) /\ v \notin p
      BY <1>3, <2>3 DEF Midway
    <3>2. \A m \in Files : Has(j, Root, m) => m \in p /\ m = n
      BY <2>3, <3>1 DEF TakenOut
    <3>3. CASE Own(j, n)
      <4>1. Lone(j, c)
        BY <1>0, <2>1, <3>2, <3>3 DEF Lone, Own
      <4> QED
        BY <4>1 DEF Dealt
    <3>4. CASE ~ Own(j, n)
      <4>1. Even(j, p \ {v}, c)
        BY <3>2, <3>4 DEF Even, Own
      <4> QED
        BY <4>1 DEF Dealt
    <3> QED
      BY <3>3, <3>4
  <2> QED
    BY <2>2, <2>3
<1> QED
  BY <1>1, <1>2, <1>3 DEF Dealt

(* A file is added, while another one plays.                                *)
LEMMA AddDeals ==
  ASSUME NEW k, NEW p, NEW c \in [Files -> Nat], Dealt(k, p, c), NEW t \in Files, t \notin p,
         t \in {e.top : e \in Loads}, ~ Has(k, Root, t), NEW j,
         \A m \in Files : Has(j, Root, m) <=> Has(k, Root, m) \/ m = t,
         NEW i \in Files, Has(k, Root, i), i \in p
  PROVE  Dealt(j, p, c)
<1>0. \A m \in Files : Own(j, m) <=> Own(k, m)
  BY DEF Own
<1>1. CASE Lone(k, c)
  <2>1. c[i] <= 1 /\ (\A m \in Files : Has(k, Root, m) => m = i) /\ c[i] \in Nat
    BY <1>1 DEF Lone
  <2>2. CASE c[i] = 0
    <3>1. Even(j, p, c)
      BY <1>0, <2>1, <2>2 DEF Even, Own
    <3> QED
      BY <3>1 DEF Dealt
  <2>3. CASE c[i] = 1
    <3>1. Midway(j, p, c)
      BY <1>0, <2>1, <2>3 DEF Midway, Own
    <3> QED
      BY <3>1 DEF Dealt
  <2> QED
    BY <2>1, <2>2, <2>3
<1>2. CASE Even(k, p, c)
  <2>1. Even(j, p, c)
    BY <1>0, <1>2 DEF Even
  <2> QED
    BY <2>1 DEF Dealt
<1>3. CASE Midway(k, p, c)
  <2>1. Midway(j, p, c)
    BY <1>0, <1>3 DEF Midway
  <2> QED
    BY <2>1 DEF Dealt
<1> QED
  BY <1>1, <1>2, <1>3 DEF Dealt

(* A new tree, or a new pass through one with nothing played before.        *)
LEMMA NoneDeals ==
  ASSUME NEW k, NEW c, \A m \in Files : c[m] = 0
  PROVE  Dealt(k, {}, c)
<1>1. CASE \E m \in Files : Own(k, m)
  <2>1. Midway(k, {}, c)
    BY <1>1 DEF Midway, Own
  <2> QED
    BY <2>1 DEF Dealt
<1>2. CASE ~ \E m \in Files : Own(k, m)
  <2>1. Even(k, {}, c)
    BY <1>2 DEF Even
  <2> QED
    BY <2>1 DEF Dealt
<1> QED
  BY <1>1, <1>2

(* Nothing else matters than the list of the root.                          *)
LEMMA SameList ==
  ASSUME NEW k, NEW j, j[Root] = k[Root]
  PROVE  /\ \A m : Has(j, Root, m) <=> Has(k, Root, m)
         /\ \A sh : Steady(j, sh) <=> Steady(k, sh)
         /\ \A p, c : Dealt(j, p, c) <=> Dealt(k, p, c)
<1>1. \A m : Has(j, Root, m) <=> Has(k, Root, m)
  BY DEF Has
<1>2. \A m : Own(j, m) <=> Own(k, m)
  BY <1>1 DEF Own
<1>3. ASSUME NEW p, NEW c PROVE Dealt(j, p, c) <=> Dealt(k, p, c)
  <2>1. Midway(j, p, c) <=> Midway(k, p, c)
    BY <1>1, <1>2, Zenon DEF Midway
  <2>2. Even(j, p, c) <=> Even(k, p, c)
    BY <1>2, Zenon DEF Even
  <2>3. Lone(j, c) <=> Lone(k, c)
    BY <1>1, Zenon DEF Lone
  <2> QED
    BY <2>1, <2>2, <2>3 DEF Dealt
<1> QED
  BY <1>1, <1>3 DEF Steady

(* All that is housed in such a tree is in the list.                        *)
LEMMA FlatHoused ==
  ASSUME NEW k, NEW sh, Steady(k, sh), NEW n \in Nodes, Housed(k, n)
  PROVE  n = Root \/ Has(k, Root, n)
<1>1. PICK f \in [Nat -> Nodes], l \in Nat : Trail(k, f, l, n)
  BY DEF Housed
<1>2. f[0] = Root /\ f[l] = n /\ \A i \in 0..(l - 1) : f[i] \in Groups /\ Has(k, f[i], f[i + 1])
  BY <1>1 DEF Trail
<1>3. CASE l = 0
  BY <1>2, <1>3
<1>4. CASE l = 1
  <2>1. 0 \in 0..(l - 1) /\ 0 + 1 = l
    BY <1>4
  <2> QED
    BY <1>2, <2>1
<1>5. CASE l >= 2
  <2>1. 0 \in 0..(l - 1) /\ 1 \in 0..(l - 1) /\ 0 + 1 = 1 /\ f[1] \in Nodes
    BY <1>5
  <2>2. f[1] \in Groups /\ Has(k, Root, f[1])
    BY <1>2, <2>1
  <2> QED
    BY <2>1, <2>2, NodesAssumption DEF Steady
<1> QED
  BY <1>3, <1>4, <1>5

(* A step in the shuffled list.                                             *)
LEMMA RandomList ==
  ASSUME NInv, Steady(kids, shuffled), iter.node # NoNode, Left.random
  PROVE  /\ Siblings(iter.node) = kids[Root] /\ Has(kids, Root, iter.node)
         /\ Unplayed \subseteq Files
         /\ \A m : m \in Unplayed <=> Has(kids, Root, m) /\ m \notin played
<1>1. kids \in [Nodes -> Seq(Nodes)] /\ OnePlace(kids) /\ IInv /\ Root \in Nodes
  BY KidsTyped, NodesAssumption DEF NInv, Places, Nodes
<1>2. ParentOf(iter.node) = Root /\ Root # NoNode
  BY <1>1, LeftRandom, NodesAssumption DEF Steady
<1>3. Has(kids, Root, iter.node)
  BY <1>1, <1>2, ParentHasIt DEF Has
<1>4. Siblings(iter.node) = kids[Root] /\ kids[Root] \in Seq(Nodes)
  BY <1>1, <1>2 DEF Siblings
<1>5. \A m : m \in Unplayed <=> Has(kids, Root, m) /\ m \notin played
  BY <1>4 DEF Unplayed, ToSet, Has
<1>6. \A m : Has(kids, Root, m) => m \in Files
  BY <1>4 DEF Has, Steady
<1> QED
  BY <1>3, <1>4, <1>5, <1>6

(* What is counted when a file of it plays.                                 *)
LEMMA CountedDeals ==
  ASSUME kids \in [Nodes -> Seq(Nodes)], OnePlace(kids), count \in [Files -> Nat],
         NEW n \in Files, Has(kids, Root, n), NEW d, d = Counted(n)
  PROVE  d \in [Files -> Nat] /\ Shared(kids, count, n, d)
<1> DEFINE more == [count EXCEPT ![n] = @ + 1]
<1>1. /\ n \in Nodes /\ Counted(n) \in [Files -> Nat] /\ Siblings(n) = kids[Root]
      /\ kids[Root] \in Seq(Nodes)
  BY CountedTyped, ParentIs, NodesAssumption DEF Nodes
<1>2. \A m \in Files : more[m] = IF m = n THEN count[m] + 1 ELSE count[m]
  OBVIOUS
<1>3. \A m \in Files : count[m] \in Nat
  OBVIOUS
<1> HIDE DEF more
<1>4. \A m \in Files : Has(kids, Root, m) <=> m \in ToSet(Siblings(n)) \cap Files
  BY <1>1 DEF Has, ToSet
<1>5. \A m \in Files : Has(kids, Root, m) <=> Contains(Siblings(n), m)
  BY <1>1 DEF Has, Contains
<1>6. CASE \A m \in ToSet(Siblings(n)) \cap Files : more[m] > 0
  <2>1. Counted(n) = [m \in Files |-> IF Contains(Siblings(n), m) THEN more[m] - 1 ELSE 0]
    BY <1>6, Zenon DEF Counted, more
  <2>2. ASSUME NEW m \in Files, Has(kids, Root, m)
        PROVE  /\ m = n \/ count[m] > 0
               /\ Counted(n)[m] = IF m = n THEN count[m] ELSE count[m] - 1
    <3>1. more[m] > 0 /\ Contains(Siblings(n), m)
      BY <1>4, <1>5, <1>6, <2>2
    <3>2. Counted(n)[m] = more[m] - 1
      BY <2>1, <3>1
    <3> QED
      BY <1>2, <1>3, <3>1, <3>2
  <2> QED
    BY <1>1, <2>2 DEF Shared
<1>7. CASE ~ \A m \in ToSet(Siblings(n)) \cap Files : more[m] > 0
  <2>1. Counted(n) = more
    BY <1>7, Zenon DEF Counted, more
  <2>2. PICK x \in Files : Has(kids, Root, x) /\ ~ (more[x] > 0)
    BY <1>4, <1>7
  <2>3. x # n /\ count[x] = 0
    BY <1>2, <1>3, <2>2
  <2> QED
    BY <1>1, <1>2, <2>1, <2>2, <2>3 DEF Shared
<1> QED
  BY <1>6, <1>7

-----------------------------------------------------------------------------
(* The steps of the iterator.                                               *)

(* What is played at random.                                                *)
LEMMA EntryPlays ==
  ASSUME NInv, Steady(kids, shuffled), Entry, WithConfig, Left.random
  PROVE  \E n \in Files : /\ Has(kids, Root, n) /\ n \notin played /\ iter'.node = n
                          /\ played' = played \cup {n} /\ count' = Counted(n) /\ pc' = "rest"
<1>1. PICK t \in Targets :
        /\ t.to \in Valid \ Enterable
        /\ iter' = [Left EXCEPT !.node = t.to, !.pushed = @ \/ WithConfig]
        /\ played' = IF WithConfig /\ Left.random THEN played \cup {t.to} ELSE played
        /\ count' = IF WithConfig /\ Left.random THEN Counted(t.to) ELSE count
        /\ Return(IF t.to \in Files THEN "entry" ELSE "crash")
  BY Zenon DEF Entry
<1>2. pc = "step" /\ iter.node # NoNode
  BY DEF Entry, Stepping
<1>3. PICK x \in (IF Unplayed = {} THEN {NoNode} ELSE Unplayed) : t = [to |-> x, left |-> dir]
  BY DEF Targets
<1>4. t.to = x /\ x \in Nodes /\ x # NoNode
  BY <1>1, <1>3, NodesAssumption DEF Valid
<1>5. x \in Unplayed
  BY <1>3, <1>4
<1>6. x \in Files /\ Has(kids, Root, x) /\ x \notin played
  BY <1>2, <1>5, RandomList
<1>7. EnteredIs(iter', Left, x)
  BY <1>1, <1>4, Zenon DEF EnteredIs
<1>8. iter'.node = x
  <2>1. Left \in Iterators
    BY <1>2, LeftTyped DEF NInv
  <2> QED
    BY <1>4, <1>7, <2>1, EnteredTyped
<1> QED
  BY <1>1, <1>4, <1>6, <1>8 DEF Return

(* What other steps do to what was played.                                  *)
LEMMA IteratePlays ==
  ASSUME NInv, Iterate, Steady(kids, shuffled)
  PROVE  \/ count' = count /\ \A m \in Files : m \in played' <=> m \in played
         \/ /\ count' = count /\ played' = {} /\ \A m : Has(kids, Root, m) => m \in played
            /\ pc = "step" /\ pc' = "step" /\ iter'.node = iter.node /\ Has(kids, Root, iter.node)
         \/ \E n \in Files : /\ Has(kids, Root, n) /\ n \notin played /\ iter'.node = n
                             /\ played' = played \cup {n} /\ count' = Counted(n) /\ pc' = "rest"
<1>1. CASE PassEnds
  <2>1. /\ Left.random /\ Unplayed = {} /\ iter' = Left /\ count' = count /\ pc = "step"
        /\ iter.node # NoNode
        /\ played' = played \/ (played' = {} /\ pc' = "step")
    BY <1>1 DEF PassEnds, Stepping, Goto
  <2>2. Has(kids, Root, iter.node) /\ \A m : Has(kids, Root, m) => m \in played
    BY <2>1, RandomList
  <2>3. iter'.node = iter.node
    BY <2>1, LeftTyped DEF NInv
  <2> QED
    BY <2>1, <2>2, <2>3
<1>2. CASE Entry
  <2>1. CASE WithConfig /\ Left.random
    BY <1>2, <2>1, EntryPlays
  <2>2. CASE ~ (WithConfig /\ Left.random)
    <3>1. count' = count /\ played' = played
      BY <1>2, <2>2 DEF Entry
    <3> QED
      BY <3>1
  <2> QED
    BY <2>1, <2>2
<1>3. CASE Up
  <2>1. count' = count
    BY <1>3 DEF Up, history
  <2>2. played' = played \/ (ParentOf(iter.node) # NoNode
                             /\ played' = played \cup {ParentOf(iter.node)})
    BY <1>3 DEF Up
  <2>3. ParentOf(iter.node) # NoNode => ParentOf(iter.node) \in Groups
    BY KidsTyped, ParentHasIt DEF NInv
  <2>4. \A m \in Files : m \in played' <=> m \in played
    BY <2>2, <2>3, NodesAssumption
  <2> QED
    BY <2>1, <2>4
<1>4. CASE FirstStep \/ ListEnds \/ Group \/ Invalid \/ Down
  <2>1. count' = count /\ played' = played
    BY <1>4 DEF FirstStep, ListEnds, Group, Invalid, Down, history, tree
  <2> QED
    BY <2>1
<1> QED
  BY <1>1, <1>2, <1>3, <1>4 DEF Iterate

LEMMA IterateTurns ==
  ASSUME RInv, Iterate
  PROVE  Turns'
<1>0. kids' = kids /\ shuffled' = shuffled
  BY IterateSame
<1> SUFFICES ASSUME Steady(kids, shuffled) PROVE Dealt(kids, played', count')
  BY <1>0 DEF Turns
<1>1. /\ NInv /\ kids \in [Nodes -> Seq(Nodes)] /\ OnePlace(kids) /\ count \in [Files -> Nat]
      /\ iter.live
  BY IterateSame, KidsTyped, Known DEF RInv, PInv, OInv, NInv, Places, IInv, Calls
<1>2. Dealt(kids, played, count)
  BY <1>1 DEF RInv, Sharing, Turns
<1>3. CASE count' = count /\ \A m \in Files : m \in played' <=> m \in played
  BY <1>2, <1>3, SameDeals
<1>4. CASE count' = count /\ played' = {} /\ \A m : Has(kids, Root, m) => m \in played
  BY <1>2, <1>4, PassDeals
<1>5. ASSUME NEW n \in Files, Has(kids, Root, n), n \notin played, played' = played \cup {n},
             count' = Counted(n)
      PROVE  Dealt(kids, played', count')
  <2>1. ASSUME NEW d, d = Counted(n) PROVE Dealt(kids, played \cup {n}, d)
    <3>1. kids \in [Nodes -> Seq(Nodes)] /\ OnePlace(kids) /\ count \in [Files -> Nat]
      BY <1>1
    <3>2. n \in Files /\ Has(kids, Root, n)
      BY <1>5
    <3>3. d \in [Files -> Nat]
      BY <2>1, <3>1, <3>2, CountedDeals
    <3>4. Shared(kids, count, n, d)
      BY <2>1, <3>1, <3>2, CountedDeals
    <3> QED
      BY <1>2, <1>5, <3>1, <3>3, <3>4, EntryDeals
  <2> QED
    BY <1>5, <2>1
<1> QED
  BY <1>1, <1>3, <1>4, <1>5, IteratePlays

(* A copy that has not all of the list behind it finds an entry next.       *)
LEMMA CopyPlays ==
  ASSUME NInv, Iterate, job = "peek", Steady(kids, shuffled), pc = "step",
         Has(kids, Root, iter.node), NEW n \in Files, Has(kids, Root, n), n \notin played
  PROVE  pc' = "rest" /\ ret' = "entry"
<1>1. kids \in [Nodes -> Seq(Nodes)] /\ OnePlace(kids) /\ IInv /\ Root \in Groups
  BY KidsTyped, NodesAssumption DEF NInv, Places
<1>2. iter.node # NoNode /\ ParentOf(iter.node) = Root
  <2>1. kids[Root] \in Seq(Nodes)
    BY <1>1 DEF Nodes
  <2>2. iter.node \in Nodes
    BY <2>1 DEF Has
  <2> QED
    BY <1>1, <2>2, ParentIs, NodesAssumption
<1>3. Left.random
  BY <1>1, <1>2, LeftRandom DEF Steady
<1>4. n \in Unplayed /\ Unplayed \subseteq Files
  BY <1>2, <1>3, RandomList
<1>5. ASSUME NEW t \in Targets PROVE t.to \in Files /\ t.to # NoNode
  <2>1. PICK x \in Unplayed : t = [to |-> x, left |-> dir]
    BY <1>3, <1>4 DEF Targets
  <2> QED
    BY <1>4, <2>1, NodesAssumption DEF Nodes
<1>6. ~ (FirstStep \/ PassEnds \/ ListEnds \/ Up \/ Down)
  BY <1>2, <1>3, <1>4 DEF FirstStep, PassEnds, ListEnds, Up, Down
<1>7. ~ Group
  BY <1>5, NodesAssumption DEF Group, Enterable
<1>8. ~ Invalid
  <2>1. ASSUME NEW t \in Targets PROVE t.to \in Valid
    BY <1>1, <1>5, FilesValid
  <2> QED
    BY <2>1 DEF Invalid
<1>9. Entry
  BY <1>6, <1>7, <1>8 DEF Iterate
<1> QED
  BY <1>5, <1>9 DEF Entry, Return

LEMMA IterateShares ==
  ASSUME RInv, PInv', Iterate
  PROVE  Sharing'
<1>0. /\ kids' = kids /\ shuffled' = shuffled /\ job' = job /\ victim' = victim /\ pc # "rest"
      /\ saved' = saved
  <2>1. saved' = saved
    BY Zenon DEF Iterate, FirstStep, PassEnds, ListEnds, Group, Invalid, Entry, Stepping, Up, Down,
                 hold
  <2> QED
    BY <2>1, IterateSame
<1>1. NInv /\ OInv /\ iter.live /\ iter'.live
  <2>1. job \notin {"none", "boot"} /\ (job' \notin {"none", "boot"} => iter'.live)
    BY <1>0 DEF RInv, PInv, OInv, NInv, IInv, Calls
  <2> QED
    BY <1>0, <2>1 DEF RInv, PInv, OInv, NInv, IInv, Calls
<1>2. Turns' /\ Uncounted'
  BY <1>1, IterateTurns DEF Uncounted
<1>3. Marked'
  <2>1. Steady(kids, shuffled) => Root \in shuffled
    BY DEF Steady
  <2> QED
    BY <1>0, <1>1, <2>1, IteratePushedPlayed DEF Marked
<1>4. Copied'
  <2> SUFFICES ASSUME Steady(kids, shuffled), job = "peek", Has(kids, Root, saved.node),
                      saved.node \notin played'
               PROVE  \/ pc' = "step" /\ Has(kids, Root, iter'.node)
                      \/ pc' = "rest" /\ ret' = "entry"
    BY <1>0 DEF Copied
  <2>1. saved.node \in Files
    BY <1>1 DEF NInv, IInv, Calls
  <2>2. CASE saved.node \notin played
    <3>1. pc = "step" /\ Has(kids, Root, iter.node)
      BY <1>0, <2>2 DEF RInv, Sharing, Copied
    <3> QED
      BY <1>1, <2>1, <2>2, <3>1, CopyPlays
  <2>3. CASE saved.node \in played
    BY <1>1, <2>1, <2>3, IteratePlays
  <2> QED
    BY <2>2, <2>3
<1>5. Takes'
  <2> SUFFICES ASSUME Steady(kids, shuffled), job \in {"added", "unlooped"},
                      Has(kids, Root, victim), victim \notin played',
                      ~ \A m \in Files : Has(kids, Root, m) => m \notin played'
               PROVE  pc' = "rest" /\ \A m \in Files : Has(kids, Root, m) /\ m \in played' =>
                                        m = iter'.node
    BY <1>0 DEF Takes, TakenOut
  <2>1. victim \in Files
    <3>1. victim \in DOMAIN Contents
      BY <1>1 DEF OInv, Marks
    <3> QED
      BY <3>1, NodesAssumption
  <2>2. \/ victim \in played
        \/ \A m \in Files : Has(kids, Root, m) => m \notin played
    BY <1>0 DEF RInv, Sharing, Takes, TakenOut
  <2> QED
    BY <1>1, <2>1, <2>2, IteratePlays
<1> QED
  BY <1>2, <1>3, <1>4, <1>5 DEF Sharing

-----------------------------------------------------------------------------
(* The steps of the main loop.                                              *)
LEMMA LoopShares ==
  ASSUME RInv, pc = "rest", job # "peek", UNCHANGED <<kids, shuffled, played, count>>,
         iter'.live = iter.live, iter'.node = iter.node, iter'.pushed = iter.pushed,
         job' \notin {"added", "unlooped"},
         job' = "peek" => saved' = iter /\ iter.pushed /\ iter.live
  PROVE  Sharing'
<1>1. UNCHANGED <<kids, shuffled, played, count>>
  OBVIOUS
<1>2. Turns' /\ Uncounted' /\ Marked' /\ Takes'
  BY <1>1, Zenon DEF RInv, Sharing, Turns, Uncounted, Marked, Takes
<1>3. Copied'
  BY <1>1 DEF RInv, Sharing, Marked, Copied
<1> QED
  BY <1>2, <1>3 DEF Sharing

LEMMA SameShares ==
  ASSUME RInv, pc = "rest", job # "peek", UNCHANGED <<tree, count, iter>>,
         job' \notin {"added", "unlooped"},
         job' = "peek" => saved' = iter /\ iter.pushed /\ iter.live
  PROVE  Sharing'
<1>1. UNCHANGED <<kids, shuffled, played, count>>
  BY DEF tree
<1> QED
  BY <1>1, LoopShares

LEMMA FreeShares ==
  ASSUME Free
  PROVE  Sharing'
<1>1. /\ iter' = NoIter /\ ~ iter'.live /\ job' = "none"
      /\ count' = [f \in Files |-> 0]
  BY NoIterTyped DEF Free
<1>2. \A f \in Files : count'[f] = 0
  BY <1>1
<1> QED
  BY <1>1, <1>2 DEF Sharing, Turns, Uncounted, Marked, Copied, Takes

LEMMA PlayShares ==
  ASSUME RInv, NEW d, Play(d), pc = "rest", job # "peek", UNCHANGED <<tree, count>>
  PROVE  Sharing'
<1>1. UNCHANGED <<kids, shuffled, played, count>> /\ job' \in {"playlist", "none"}
  BY DEF tree, Play
<1>2. iter'.live = iter.live /\ iter'.node = iter.node /\ iter'.pushed = iter.pushed
  BY PlaySame DEF RInv, PInv, OInv, NInv
<1> QED
  BY <1>1, <1>2, LoopShares

(* The iterator is again what it was before the copy went ahead.            *)
LEMMA PeekedShares ==
  ASSUME RInv, Peeked
  PROVE  Sharing'
<1>1. /\ pc = "rest" /\ job = "peek" /\ iter' = saved
      /\ UNCHANGED <<kids, shuffled, played, count>>
      /\ \/ pc' = wanted.at /\ job' = "next"
         \/ pc' = pc /\ job' = "none" /\ ret # "entry"
  BY DEF Peeked, Returned, Call, NoCall, call, tree
<1>2. saved.live /\ iter.live /\ wanted.at \in {"step", "up"}
  <2>1. wanted \in [at : {"step", "up"}, d : Int]
    BY Known DEF RInv, PInv, OInv, NInv
  <2> QED
    BY <1>1, <2>1 DEF RInv, PInv, OInv, NInv, IInv, Calls
<1>3. Turns' /\ Uncounted' /\ Copied' /\ Takes'
  BY <1>1, <1>2 DEF RInv, Sharing, Turns, Uncounted, Copied, Takes
<1>4. Marked'
  BY <1>1, <1>2 DEF RInv, Sharing, Copied, Marked
<1> QED
  BY <1>3, <1>4 DEF Sharing

LEMMA RestfulShares ==
  ASSUME RInv, Restful
  PROVE  Sharing'
<1>0. OInv /\ NInv
  BY DEF RInv, PInv, OInv
<1>1. CASE Started
  <2>1. pc = "rest" /\ job = "start" /\ UNCHANGED tree
    BY <1>1 DEF Started, Returned
  <2> QED
    BY <1>1, <2>1, PlayShares, FreeShares DEF Started
<1>2. CASE NextDone
  <2>1. pc = "rest" /\ job = "next" /\ UNCHANGED tree
    BY <1>2 DEF NextDone, Returned
  <2>2. CASE ret = "entry"
    <3>1. UNCHANGED <<iter, count>> /\ job' = "files"
      BY <1>2, <2>2 DEF NextDone, NextSource, history
    <3> QED
      BY <2>1, <3>1, SameShares
  <2> QED
    BY <1>2, <2>2, FreeShares DEF NextDone
<1>3. CASE FindFile
  <2>1. /\ pc = "rest" /\ job = "files" /\ UNCHANGED <<tree, count>>
        /\ \/ Play(eof)
           \/ Call("step", eof, FALSE, "filestep") /\ UNCHANGED iter
    BY <1>3 DEF FindFile, Returned, history
  <2>2. CASE Play(eof)
    BY <2>1, <2>2, PlayShares
  <2>3. CASE Call("step", eof, FALSE, "filestep") /\ UNCHANGED iter
    BY <2>1, <2>3, SameShares DEF Call
  <2> QED
    BY <2>1, <2>2, <2>3
<1>4. CASE FileStepDone
  <2>1. pc = "rest" /\ job = "filestep" /\ UNCHANGED tree
    BY <1>4 DEF FileStepDone, Returned
  <2>2. CASE ret = "entry"
    <3>1. UNCHANGED <<iter, count>> /\ job' = "files"
      BY <1>4, <2>2 DEF FileStepDone, history
    <3> QED
      BY <2>1, <3>1, SameShares
  <2> QED
    BY <1>4, <2>2, FreeShares DEF FileStepDone
<1>5. CASE Peeked
  BY <1>5, PeekedShares
<1>6. CASE NotYetAtTop
  <2>1. /\ pc = "rest" /\ job \in {"stop", "replace"} /\ job' = job
        /\ UNCHANGED <<tree, count, iter>>
    BY <1>6 DEF NotYetAtTop, Returned, Call, history
  <2> QED
    BY <2>1, SameShares
<1>7. CASE Stopped
  BY <1>7, FreeShares DEF Stopped
<1>8. CASE HeadFound
  <2>1. pc = "rest" /\ job = "head" /\ job' = "files" /\ UNCHANGED <<tree, count, iter>>
    BY <1>8 DEF HeadFound, Returned, NextSource, history
  <2> QED
    BY <2>1, SameShares
<1>9. CASE EndOfFile \/ Stop \/ LoadReplace
  <2>1. Playing /\ job' \in {"next", "stop", "replace"} /\ UNCHANGED <<tree, count, iter>>
    BY <1>9 DEF EndOfFile, NextEntry, Stop, LoadReplace, GoToTop, Call, Leave
  <2> QED
    BY <1>0, <2>1, PlayingKnown, SameShares
<1>10. ASSUME NEW where, NEW n, NEW force, Move(where, n, force) PROVE Sharing'
  <2>1. /\ Playing /\ job' \in {"next", "peek"} /\ (job' = "peek" => saved' = iter)
        /\ UNCHANGED <<tree, count, iter>>
    BY <1>10 DEF Move, Call, Leave
  <2> QED
    BY <1>0, <2>1, PlayingKnown, SameShares
<1>11. ASSUME NEW v, NEW opening, AltSource(v, opening) PROVE Sharing'
  <2>1. Playing /\ job' = "files" /\ UNCHANGED <<tree, count, iter>>
    BY <1>11 DEF AltSource, NextSource, Leave
  <2> QED
    BY <1>0, <2>1, PlayingKnown, SameShares
<1>12. ASSUME NEW v \in Values, SetOption(v) PROVE Sharing'
  <2>1. pc = "rest" /\ job = "none" /\ job' = job /\ UNCHANGED <<tree, count, iter>>
    BY <1>12 DEF SetOption, Returned, history
  <2> QED
    BY <2>1, SameShares
<1> QED
  BY <1>1, <1>2, <1>3, <1>4, <1>5, <1>6, <1>7, <1>8, <1>9, <1>10, <1>11, <1>12, Zenon
  DEF Restful, PlayTreeStep, UpStep

LEMMA StutterShares ==
  ASSUME RInv, UNCHANGED vars
  PROVE  Sharing'
<1>1. UNCHANGED <<kids, shuffled, played, iter, pc, ret, job, saved, victim, count>>
  BY DEF vars, tree, call, hold, history
<1> QED
  BY <1>1, Zenon DEF RInv, Sharing, Turns, Uncounted, Marked, Copied, Takes

-----------------------------------------------------------------------------
(* The steps that change the tree.                                          *)

(* A new tree, of which nothing was played.                                 *)
LEMMA NewShares ==
  ASSUME played' = {}, \A f \in Files : count'[f] = 0, job' \notin {"peek", "added", "unlooped"},
         pc' # "rest" \/ ~ iter'.live
  PROVE  Sharing'
<1>1. Turns'
  BY NoneDeals DEF Turns
<1> QED
  BY <1>1 DEF Sharing, Uncounted, Marked, Copied, Takes

LEMMA BootShares ==
  ASSUME RInv, Boot
  PROVE  Sharing'
<1>1. job = "boot" /\ pc = "rest" /\ played' = played /\ count' = count
  BY DEF Boot, Returned
<1>2. played = {} /\ iter = NoIter
  BY <1>1 DEF RInv, PInv, OInv, NInv, Starts, IInv, Calls
<1>3. \A f \in Files : count[f] = 0
  BY <1>2, NoIterTyped DEF RInv, Sharing, Uncounted
<1>4. \/ pc' = "step" /\ job' = "start"
      \/ iter' = iter /\ job' = "none"
  BY DEF Boot, Start, Call
<1> QED
  BY <1>1, <1>2, <1>3, <1>4, NewShares, NoIterTyped

LEMMA ReplacedShares ==
  ASSUME NEW e, Replaced(e) \/ LoadIdle(e)
  PROVE  Sharing'
<1>1. played' = {} /\ count' = [f \in Files |-> 0] /\ pc' = "step" /\ job' \in {"head", "start"}
  BY DEF Replaced, LoadIdle, Replace, Start, Call
<1>2. \A f \in Files : count'[f] = 0
  BY <1>1
<1> QED
  BY <1>1, <1>2, NewShares

(* What plays is in a list without groups.                                  *)
LEMMA PlaysInList ==
  ASSUME RInv, Steady(kids, shuffled), iter.node \in Files, ~ Freed(kids, iter.node)
  PROVE  Has(kids, Root, iter.node)
<1>1. iter.node \in Nodes /\ iter.node # NoNode /\ iter.node # Root
  BY NodesAssumption DEF Nodes
<1>2. Housed(kids, iter.node)
  BY <1>1 DEF RInv, PInv, OInv, NInv, Places, Here
<1> QED
  BY <1>1, <1>2, FlatHoused

LEMMA LoadAppendShares ==
  ASSUME RInv, NEW e \in NewEntries, LoadAppend(e)
  PROVE  Sharing'
<1>1. /\ kids' = [kids EXCEPT ![Root] = Append(kids[Root], e.top), ![e.top] = e.list]
      /\ UNCHANGED <<shuffled, played, iter, pc, job, count>> /\ Playing
  BY Zenon DEF LoadAppend, call, history
<1>2. /\ OInv /\ NInv /\ PlayedPlaced /\ Grew(e) /\ e \in Loads /\ e.top \in Nodes
      /\ kids \in [Nodes -> Seq(Nodes)] /\ count \in [Files -> Nat]
  BY LoadAppendGrows, LoadTyped, KidsTyped, Known DEF RInv, PInv, OInv, NInv, NewEntries, IInv
<1>3. /\ pc = "rest" /\ job = "none" /\ iter.live /\ iter.pushed /\ iter.node \in Files
      /\ ~ Freed(kids, iter.node)
  BY <1>1, <1>2, PlayingKnown DEF NInv, IInv, Calls
<1>4. e.top # Root /\ ~ Has(kids, Root, e.top) /\ e.top \notin played
  BY <1>2, AddedUnplayed, NodesAssumption DEF Grew
<1>5. \A m : Has(kids', Root, m) <=> Has(kids, Root, m) \/ m = e.top
  <2>1. kids[Root] \in Seq(Nodes) /\ Root \in Nodes
    BY <1>2, NodesAssumption DEF Nodes
  <2>2. kids'[Root] = Append(kids[Root], e.top)
    BY <1>1, <1>2, <1>4, <2>1
  <2>3. /\ Len(kids'[Root]) = Len(kids[Root]) + 1 /\ kids'[Root][Len(kids[Root]) + 1] = e.top
        /\ \A i \in 1..Len(kids[Root]) : kids'[Root][i] = kids[Root][i]
        /\ DOMAIN kids'[Root] = 1..(Len(kids[Root]) + 1) /\ DOMAIN kids[Root] = 1..Len(kids[Root])
    BY <1>2, <2>1, <2>2
  <2>4. Len(kids[Root]) \in Nat
    BY <2>1
  <2>5. ASSUME NEW m, Has(kids', Root, m) PROVE Has(kids, Root, m) \/ m = e.top
    <3>1. PICK i \in 1..(Len(kids[Root]) + 1) : kids'[Root][i] = m
      BY <2>3, <2>5 DEF Has
    <3>2. i \in 1..Len(kids[Root]) \/ i = Len(kids[Root]) + 1
      BY <2>4
    <3> QED
      BY <2>3, <3>1, <3>2 DEF Has
  <2>6. ASSUME NEW m, Has(kids, Root, m) \/ m = e.top PROVE Has(kids', Root, m)
    <3>1. Len(kids[Root]) + 1 \in DOMAIN kids'[Root]
      BY <2>3, <2>4
    <3>2. ASSUME NEW i \in DOMAIN kids[Root]
          PROVE  i \in DOMAIN kids'[Root] /\ kids'[Root][i] = kids[Root][i]
      BY <2>3, <2>4
    <3> QED
      BY <2>3, <2>6, <3>1, <3>2 DEF Has
  <2> QED
    BY <2>5, <2>6
<1>6. ASSUME Steady(kids', shuffled)
      PROVE  /\ Steady(kids, shuffled) /\ e.top \in Files
             /\ Has(kids, Root, iter.node) /\ iter.node \in played
  <2>1. Steady(kids, shuffled) /\ e.top \in Files
    BY <1>2, <1>5, <1>6 DEF Steady
  <2>2. Has(kids, Root, iter.node)
    BY <1>3, <2>1, PlaysInList
  <2> QED
    BY <1>3, <2>1, <2>2 DEF RInv, Sharing, Marked
<1>7. Turns'
  <2> SUFFICES ASSUME Steady(kids', shuffled) PROVE Dealt(kids', played, count)
    BY <1>1 DEF Turns
  <2>1. Dealt(kids, played, count)
    BY <1>3, <1>6 DEF RInv, Sharing, Turns
  <2>2. e.top \in {x.top : x \in Loads}
    BY <1>2
  <2> QED
    BY <1>2, <1>3, <1>4, <1>5, <1>6, <2>1, <2>2, AddDeals
<1>8. Uncounted' /\ Copied' /\ Takes'
  BY <1>1, <1>3 DEF Uncounted, Copied, Takes
<1>9. Marked'
  BY <1>1, <1>6 DEF Marked
<1> QED
  BY <1>7, <1>8, <1>9 DEF Sharing

(* A playlist with entries becomes a group, otherwise nothing happens yet.  *)
LEMMA OpenPlaylistShares ==
  ASSUME RInv, OpenPlaylist
  PROVE  Sharing'
<1>1. /\ pc = "rest" /\ job = "playlist" /\ job' = "added" /\ pc' = "step" /\ victim' = iter.node
      /\ UNCHANGED <<shuffled, played, iter, count>>
  BY DEF OpenPlaylist, Returned, Call, history
<1>2. /\ NInv /\ OInv /\ iter.live /\ iter.pushed /\ iter.node \in DOMAIN Contents
      /\ kids \in [Nodes -> Seq(Nodes)]
  BY <1>1, KidsTyped DEF RInv, PInv, OInv, Marks, NInv, IInv, Calls
<1>3. ASSUME Steady(kids', shuffled) PROVE kids'[Root] = kids[Root]
  <2>1. CASE Contents[iter.node] = NoEntry
    BY <2>1 DEF OpenPlaylist
  <2>2. CASE Contents[iter.node] # NoEntry
    <3> DEFINE top == Contents[iter.node].top
    <3>1. top \in Groups /\ top # Root /\ top \in Nodes
      <4>1. Contents[iter.node] \in [top : Groups \ {Root}, list : Seq(Files) \ {<<>>}]
        BY <1>2, <2>2, NodesAssumption
      <4> QED
        BY <4>1 DEF Nodes
    <3>2. ParentOf(iter.node) # Root
      <4>1. ASSUME ParentOf(iter.node) = Root PROVE FALSE
        <5>1. Root \in Groups /\ Has(kids, Root, iter.node)
          BY <1>2, <4>1, ParentHasIt, NodesAssumption DEF Has, Nodes
        <5>2. Has(kids', Root, top)
          BY <1>2, <2>2, <5>1, PlaylistOpened
        <5> QED
          BY <1>3, <3>1, <5>2, NodesAssumption DEF Steady
      <4> QED
        BY <4>1
    <3>3. kids' = [kids EXCEPT ![ParentOf(iter.node)] =
                                 InsertAfter(kids[ParentOf(iter.node)], iter.node, top),
                               ![top] = Contents[iter.node].list]
      BY <2>2, Zenon DEF OpenPlaylist
    <3>4. Root \in Nodes
      BY NodesAssumption DEF Nodes
    <3> HIDE DEF top
    <3> QED
      BY <1>2, <3>1, <3>2, <3>3, <3>4
  <2> QED
    BY <2>1, <2>2
<1>4. Steady(kids', shuffled) => Steady(kids, shuffled)
  BY <1>3, SameList
<1>5. Turns'
  <2> SUFFICES ASSUME Steady(kids', shuffled) PROVE Dealt(kids', played, count)
    BY <1>1 DEF Turns
  <2>1. Dealt(kids, played, count)
    BY <1>2, <1>4 DEF RInv, Sharing, Turns
  <2> QED
    BY <1>3, <2>1, SameList
<1>6. Uncounted' /\ Marked' /\ Copied'
  BY <1>1, <1>2 DEF Uncounted, Marked, Copied
<1>7. Takes'
  <2> SUFFICES ASSUME Steady(kids', shuffled), Has(kids', Root, iter.node)
               PROVE  iter.node \in played
    BY <1>1 DEF Takes, TakenOut
  <2>1. Steady(kids, shuffled) /\ Has(kids, Root, iter.node)
    BY <1>3, <1>4 DEF Has
  <2> QED
    BY <1>1, <1>2, <2>1 DEF RInv, Sharing, Marked
<1> QED
  BY <1>5, <1>6, <1>7 DEF Sharing

(* The playlist is taken out.                                               *)
LEMMA RemovedShares ==
  ASSUME RInv, pc = "rest", job \in {"added", "unlooped"}, ret = "entry",
         RemoveVictim, NextSource(1), NoCall, UNCHANGED <<iter, count>>
  PROVE  Sharing'
<1>1. /\ kids' = [n \in Nodes |-> Kept(kids[n], Nodes \ {victim})]
      /\ played' = played \ {victim} /\ shuffled' = shuffled
      /\ job' = "files" /\ pc' = "rest"
  BY DEF RemoveVictim, NextSource, NoCall, call
<1>2. /\ kids \in [Nodes -> Seq(Nodes)] /\ iter.node \in Files /\ iter.live
      /\ victim \in DOMAIN Contents /\ victim \in Files /\ Root \in Groups
  BY NodesAssumption, KidsTyped DEF RInv, PInv, OInv, Marks, NInv, IInv, Calls
<1>3. \A m : Has(kids', Root, m) <=> Has(kids, Root, m) /\ m # victim
  BY <1>1, <1>2, KeptOut, Zenon
<1>4. Steady(kids', shuffled) => Steady(kids, shuffled)
  BY <1>2, <1>3 DEF Steady
<1>5. Turns'
  <2> SUFFICES ASSUME Steady(kids', shuffled) PROVE Dealt(kids', played \ {victim}, count)
    BY <1>1 DEF Turns
  <2>1. Dealt(kids, played, count) /\ TakenOut(kids, played, victim, iter.node, pc)
    BY <1>2, <1>4 DEF RInv, Sharing, Turns, Takes
  <2> QED
    BY <1>2, <1>3, <2>1, OutDeals
<1>6. Marked'
  <2> SUFFICES ASSUME Steady(kids', shuffled), iter.pushed, Has(kids', Root, iter.node)
               PROVE  iter.node \in played \ {victim}
    BY <1>1 DEF Marked
  <2>1. Steady(kids, shuffled) /\ Has(kids, Root, iter.node) /\ iter.node # victim
    BY <1>3, <1>4
  <2> QED
    BY <1>2, <2>1 DEF RInv, Sharing, Marked
<1>7. Uncounted' /\ Copied' /\ Takes'
  BY <1>1, <1>2 DEF Uncounted, Copied, Takes
<1> QED
  BY <1>5, <1>6, <1>7 DEF Sharing

LEMMA PlaylistDoneShares ==
  ASSUME RInv, PlaylistDone
  PROVE  Sharing'
<1>1. /\ pc = "rest" /\ job \in {"added", "unlooped"} /\ UNCHANGED <<iter, count>>
      /\ \/ NextEntry /\ UNCHANGED tree
         \/ /\ ret = "entry" /\ SingleFile /\ Call("up", 1, FALSE, "unlooped")
            /\ UNCHANGED <<tree, victim>>
         \/ ret = "entry" /\ RemoveVictim /\ NextSource(1) /\ NoCall
  BY Zenon DEF PlaylistDone, Returned, history
<1>2. CASE NextEntry /\ UNCHANGED tree
  BY <1>1, <1>2, SameShares DEF NextEntry, Call
<1>3. CASE /\ ret = "entry" /\ SingleFile /\ Call("up", 1, FALSE, "unlooped")
           /\ UNCHANGED <<tree, victim>>
  <2>1. /\ iter.node = victim /\ job' = "unlooped" /\ pc' = "up"
        /\ UNCHANGED <<kids, shuffled, played>>
    BY <1>3 DEF SingleFile, Call, tree
  <2>2. iter.pushed /\ iter.live
    BY <1>1, <1>3, ArrivedPushed DEF RInv, PInv, OInv, NInv, IInv, Calls
  <2>3. Turns' /\ Uncounted' /\ Marked' /\ Copied'
    BY <1>1, <2>1, <2>2 DEF RInv, Sharing, Turns, Uncounted, Marked, Copied
  <2>4. Takes'
    BY <1>1, <1>3, <2>1, <2>2 DEF RInv, Sharing, Marked, Takes, TakenOut
  <2> QED
    BY <2>3, <2>4 DEF Sharing
<1>4. CASE ret = "entry" /\ RemoveVictim /\ NextSource(1) /\ NoCall
  BY <1>1, <1>4, RemovedShares
<1> QED
  BY <1>1, <1>2, <1>3, <1>4

-----------------------------------------------------------------------------
LEMMA InitShares ==
  ASSUME Init
  PROVE  RInv
<1>1. ~ iter.live /\ job = "boot" /\ count = [f \in Files |-> 0]
  BY NoIterTyped DEF Init
<1>2. \A f \in Files : count[f] = 0
  BY <1>1
<1> QED
  BY <1>1, <1>2, InitPlaces DEF RInv, Sharing, Turns, Uncounted, Marked, Copied, Takes

LEMMA NextShares ==
  ASSUME RInv, [Next]_vars
  PROVE  RInv'
<1>1. PInv'
  BY NextPlaces DEF RInv
<1> SUFFICES Sharing'
  BY <1>1 DEF RInv
<1>2. CASE Iterate
  BY <1>1, <1>2, IterateShares
<1>3. CASE Restful
  BY <1>3, RestfulShares
<1>4. CASE Boot \/ OpenPlaylist \/ PlaylistDone \/ UNCHANGED vars
  BY <1>4, BootShares, OpenPlaylistShares, PlaylistDoneShares, StutterShares, Zenon
<1>5. CASE (\E e \in Loads : Replaced(e)) \/ (\E e \in Loads : LoadIdle(e))
  BY <1>5, ReplacedShares, Zenon
<1>6. CASE \E e \in NewEntries : LoadAppend(e)
  BY <1>6, LoadAppendShares, Zenon
<1> QED
  BY <1>2, <1>3, <1>4, <1>5, <1>6, Zenon DEF Next, Proceed, Restful

(* In a tree that is one shuffled list no file of it plays twice before all *)
(* others did: play_tree_rnd_step marks what it took, and where the         *)
(* marks are cleared all of the list has been played, whoever steps there,  *)
(* the iterator or a copy of it, and whatever was added or taken out.       *)
THEOREM ShuffleIsFair == Spec => []ShuffleFair
<1>1. Init => RInv
  BY InitShares
<1>2. RInv /\ [Next]_vars => RInv'
  BY NextShares
<1>3. ASSUME RInv PROVE ShuffleFair
  <2> SUFFICES ASSUME shuffled = {Root}, InTree \cap Groups = {Root},
                      \A e \in Loads : e.top \notin InTree, NEW f \in InTree \cap Files
               PROVE  count[f] <= 1
    BY DEF ShuffleFair
  <2>1. /\ kids \in [Nodes -> Seq(Nodes)] /\ OnePlace(kids) /\ Topped(kids) /\ Root \in Groups
        /\ InTree = InTreeIn(kids)
    BY <1>3, KidsTyped, NodesAssumption, Zenon
    DEF RInv, PInv, OInv, NInv, Places, InTree, InTreeIn, ParentOf, ParentIn
  <2>2. ASSUME NEW m \in Nodes, Has(kids, Root, m)
        PROVE  m \in Files /\ m \notin {e.top : e \in Loads}
    <3>1. PICK g \in [Nat -> Nodes], l \in Nat : Trail(kids, g, l, Root)
      BY RootTrail DEF Housed
    <3>2. \E h \in [Nat -> Nodes], i \in Nat : Trail(kids, h, i, m)
      <4>1. l + 1 \in Nat
        BY <3>1
      <4>2. /\ [g EXCEPT ![l + 1] = m] \in [Nat -> Nodes]
            /\ Trail(kids, [g EXCEPT ![l + 1] = m], l + 1, m)
        BY <2>1, <2>2, <3>1, ChildTrail, Zenon
      <4> QED
        BY <4>1, <4>2, Zenon
    <3>3. m \in InTree
      BY <2>1, <3>2, HousedInTree DEF Housed
    <3>4. m # Root
      BY <2>1, <2>2 DEF Topped
    <3> QED
      BY <3>3, <3>4 DEF Nodes
  <2>3. Steady(kids, shuffled)
    BY <2>2 DEF Steady
  <2>4. Has(kids, Root, f)
    <3>1. f \in Nodes /\ f # Root
      BY NodesAssumption DEF Nodes
    <3>2. ParentIn(kids, f) # NoNode /\ ParentIn(kids, f) \in InTree
      BY <2>1, <3>1, InTreeInUnfolds
    <3>3. ParentIn(kids, f) \in Groups /\ Has(kids, ParentIn(kids, f), f)
      BY <2>1, <3>2, ParentInHasIt DEF Has
    <3> QED
      BY <3>2, <3>3
  <2>5. Own(kids, f)
    BY <2>2, <2>4 DEF Own, Nodes
  <2>6. CASE ~ iter.live
    BY <1>3, <2>6 DEF RInv, Sharing, Uncounted
  <2>7. CASE iter.live
    <3>1. Dealt(kids, played, count)
      BY <1>3, <2>3, <2>7 DEF RInv, Sharing, Turns
    <3> QED
      BY <2>4, <2>5, <3>1 DEF Dealt, Midway, Even, Lone
  <2> QED
    BY <2>6, <2>7
<1> QED
  BY <1>1, <1>2, <1>3, PTL DEF Spec

===============================================================================
