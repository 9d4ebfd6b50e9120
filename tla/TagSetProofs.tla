---------------------------- MODULE TagSetProofs ----------------------------
(***************************************************************************)
(* Proofs about the replacement policies and SimpleCacheTagArray for every *)
(* number of ways and every set of tags: first the list of LRU, then the   *)
(* tree of PseudoLRU, then the set.                                        *)
(***************************************************************************)
EXTENDS TagSet, NatMinimum, FiniteSetTheorems

\* The ways are numbered 0 .. ways - 1 and there is one.
LEMMA WayNumbers ==
    /\ ways \in Nat /\ ways >= 1 /\ Way = 0..(ways - 1) /\ inner = ways - 1 /\ inner \in Nat
  BY WaysAssumption DEF Way, inner

-----------------------------------------------------------------------------
(* The list of LRU *)

\* A list of all ways, each once.
Permutes(list) ==
    /\ list \in [1..ways -> Way]
    /\ \A j, k \in 1..ways : list[j] = list[k] => j = k
    /\ \A w \in Way : \E k \in 1..ways : list[k] = w

\* LRU::LRU lists every way once.
LEMMA FirstList == Permutes(lru_list_at_first)
<1>1. lru_list_at_first = [k \in 1..ways |-> ways - k]
  BY DEF lru_list_at_first
<1>2. ASSUME NEW w \in Way PROVE ways - w \in 1..ways /\ ways - (ways - w) = w
  BY WayNumbers
<1>3. \A j, k \in 1..ways : lru_list_at_first[j] = lru_list_at_first[k] => j = k
  BY <1>1, WayNumbers
<1>4. ASSUME NEW w \in Way PROVE \E k \in 1..ways : lru_list_at_first[k] = w
  BY <1>1, <1>2
<1>5. lru_list_at_first \in [1..ways -> Way]
  BY <1>1, WayNumbers
<1> QED
  BY <1>3, <1>4, <1>5 DEF Permutes

\* LRU::touch puts w first and moves no other way back by more than a place.
LEMMA TouchedList ==
    ASSUME NEW list, Permutes(list), NEW w \in Way
    PROVE  /\ Permutes(lru_touch(list, w))
           /\ lru_touch(list, w)[1] = w
           /\ \A k \in 1..ways :
                list[k] # w => \E j \in 1..ways : j <= k + 1 /\ lru_touch(list, w)[j] = list[k]
<1> DEFINE p == place(list, w)
           t == lru_touch(list, w)
<1>1. p \in 1..ways /\ list[p] = w
  BY DEF place, Permutes
<1>2. t = [k \in 1..ways |-> IF k = 1 THEN w ELSE IF k <= p THEN list[k - 1] ELSE list[k]]
  BY DEF lru_touch
<1> HIDE DEF p, t
<1>3. t \in [1..ways -> Way]
  BY <1>1, <1>2, WayNumbers DEF Permutes
<1>4. ASSUME NEW j \in 1..ways, NEW k \in 1..ways, t[j] = t[k] PROVE j = k
  <2> DEFINE from(i) == IF i = 1 THEN p ELSE IF i <= p THEN i - 1 ELSE i
  <2>1. \A i \in 1..ways : from(i) \in 1..ways
    BY <1>1, WayNumbers
  <2>2. \A i \in 1..ways : t[i] = list[from(i)]
    BY <1>1, <1>2
  <2>3. from(j) = from(k)
    <3> HIDE DEF from
    <3> QED
      BY <1>4, <2>1, <2>2 DEF Permutes
  <2> QED
    BY <1>1, <2>3
<1>5. t[1] = w
  BY <1>2, WayNumbers
<1>6. ASSUME NEW k \in 1..ways, list[k] # w
      PROVE  \E j \in 1..ways : j <= k + 1 /\ t[j] = list[k]
  <2>1. CASE k > p
    BY <1>1, <1>2, <2>1, WayNumbers
  <2>2. CASE k < p
    <3>1. k + 1 \in 1..ways /\ k + 1 # 1 /\ k + 1 <= p /\ (k + 1) - 1 = k
      BY <1>1, <2>2, WayNumbers
    <3>2. t[k + 1] = list[k]
      BY <1>2, <3>1
    <3> QED
      BY <3>1, <3>2
  <2> QED
    BY <1>1, <1>6, <2>1, <2>2, WayNumbers
<1>7. ASSUME NEW v \in Way PROVE \E k \in 1..ways : t[k] = v
  <2>1. PICK k \in 1..ways : list[k] = v
    BY DEF Permutes
  <2> QED
    BY <1>5, <1>6, <2>1, WayNumbers
<1> QED
  BY <1>3, <1>4, <1>5, <1>6, <1>7 DEF Permutes, t

-----------------------------------------------------------------------------
(* The tree of PseudoLRU *)

Node == 0..(2 * ways)
Directions == [0..(inner - 1) -> {"Left", "Right"}]

\* The root has no parent; any other node has one before it.
LEMMA Parents ==
    ASSUME NEW n \in Node, n # 0
    PROVE  parent(n) \in Node /\ parent(n) < n
  BY WayNumbers DEF parent, Node

\* path is what its recursive definition says.
LEMMA PathDef ==
    \A n \in Node : path[n] = IF n = 0 THEN {} ELSE {n} \cup path[parent(n)]
<1> DEFINE Eq(f) == f = [n \in 0..(2 * ways) |-> IF n = 0 THEN {} ELSE {n} \cup f[parent(n)]]
           UpTo(f, k) ==
               /\ f = [n \in Node |-> f[n]]
               /\ \A n \in Node : n <= k => f[n] = IF n = 0 THEN {} ELSE {n} \cup f[parent(n)]
           S == {k \in Nat : \E f : UpTo(f, k)}
<1>1. 0 \in S
  <2>1. UpTo([n \in Node |-> {}], 0)
    BY DEF Node
  <2> QED
    BY <2>1
<1>2. ASSUME NEW k \in Nat, k \in S PROVE k + 1 \in S
  <2>1. PICK f : UpTo(f, k)
    BY <1>2
  <2> DEFINE g == [n \in Node |-> IF n = k + 1 THEN {n} \cup f[parent(n)] ELSE f[n]]
  <2>2. g = [n \in Node |-> g[n]]
    OBVIOUS
  <2>3. ASSUME NEW n \in Node, n <= k + 1
        PROVE  g[n] = IF n = 0 THEN {} ELSE {n} \cup g[parent(n)]
    <3>1. CASE n = 0
      BY <2>1, <3>1
    <3>2. CASE n # 0
      <4>1. parent(n) \in Node /\ parent(n) < n
        BY <3>2, Parents
      <4>2. parent(n) # k + 1
        BY <2>3, <4>1 DEF Node
      <4>3. g[parent(n)] = f[parent(n)]
        BY <4>1, <4>2
      <4>4. CASE n = k + 1
        BY <3>2, <4>3, <4>4
      <4>5. CASE n # k + 1
        <5>1. n <= k
          BY <2>3, <4>5 DEF Node
        <5> QED
          BY <2>1, <3>2, <4>3, <4>5, <5>1
      <4> QED
        BY <4>4, <4>5
    <3> QED
      BY <3>1, <3>2
  <2> HIDE DEF g
  <2>4. UpTo(g, k + 1)
    BY <2>2, <2>3
  <2> HIDE DEF UpTo
  <2> QED
    BY <2>4
<1> HIDE DEF S
<1>3. Nat \subseteq S
  BY <1>1, <1>2, NatSetInduction
<1>4. PICK f : UpTo(f, 2 * ways)
  <2>1. 2 * ways \in S
    BY <1>3, WayNumbers
  <2> HIDE DEF UpTo
  <2> QED
    BY <2>1 DEF S
<1>5. Eq(f)
  <2>1. \A n \in Node : n <= 2 * ways
    BY WayNumbers DEF Node
  <2> QED
    BY <1>4, <2>1 DEF Node
<1>6. path = CHOOSE g : Eq(g)
  BY DEF path
<1> HIDE DEF Eq
<1>7. Eq(path)
  BY <1>5, <1>6
<1> QED
  BY <1>7 DEF Eq, Node

\* Induction from the root to the leaves.
LEMMA NodeInduction ==
    ASSUME NEW S, \A n \in Node : (\A m \in Node : m < n => m \in S) => n \in S
    PROVE  Node \subseteq S
<1> SUFFICES ASSUME NEW k \in Node, k \notin S PROVE FALSE
  OBVIOUS
<1> DEFINE T == {n \in Node : n \notin S}
<1>1. T \subseteq Nat /\ T # {}
  BY WayNumbers DEF Node
<1>2. PICK n \in T : \A m \in T : n <= m
  BY <1>1, NatMin
<1>3. ASSUME NEW m \in Node, m < n PROVE m \in S
  BY <1>1, <1>2, <1>3 DEF Node
<1> QED
  BY <1>2, <1>3

\* Induction from the leaves to the root.
LEMMA NodeInductionDown ==
    ASSUME NEW S, \A n \in Node : (\A m \in Node : m > n => m \in S) => n \in S
    PROVE  Node \subseteq S
<1> DEFINE U == {n \in Node : 2 * ways - n \in S}
<1>1. ASSUME NEW n \in Node, \A m \in Node : m < n => m \in U PROVE n \in U
  <2>1. 2 * ways - n \in Node
    BY WayNumbers DEF Node
  <2>2. ASSUME NEW m \in Node, m > 2 * ways - n PROVE m \in S
    <3>1. 2 * ways - m \in Node /\ 2 * ways - m < n /\ 2 * ways - (2 * ways - m) = m
      BY <2>2, WayNumbers DEF Node
    <3> QED
      BY <1>1, <3>1
  <2> QED
    BY <2>1, <2>2
<1>2. Node \subseteq U
  <2> HIDE DEF U
  <2> QED
    BY <1>1, NodeInduction
<1>3. ASSUME NEW n \in Node PROVE n \in S
  <2>1. 2 * ways - n \in Node /\ 2 * ways - (2 * ways - n) = n
    BY WayNumbers DEF Node
  <2> QED
    BY <1>2, <2>1
<1> QED
  BY <1>3

\* A path has no number above its node's.
LEMMA PathBelow == \A n \in Node : path[n] \subseteq 1..n
<1> DEFINE S == {n \in Node : path[n] \subseteq 1..n}
<1>1. ASSUME NEW n \in Node, \A m \in Node : m < n => m \in S PROVE n \in S
  <2>1. CASE n = 0
    BY <2>1, PathDef
  <2>2. CASE n # 0
    <3>1. parent(n) \in Node /\ parent(n) < n
      BY <2>2, Parents
    <3>2. path[parent(n)] \subseteq 1..parent(n)
      BY <1>1, <3>1
    <3>3. path[n] = {n} \cup path[parent(n)]
      BY <2>2, PathDef
    <3> QED
      BY <2>2, <3>1, <3>2, <3>3 DEF Node
  <2> QED
    BY <2>1, <2>2
<1> HIDE DEF S
<1>2. Node \subseteq S
  BY <1>1, NodeInduction
<1> QED
  BY <1>2 DEF S

\* A path holds the paths of its nodes, and of two of its nodes the lower
\* number is above the other in the tree.
LEMMA PathChain ==
    \A n \in Node : \A c \in path[n] :
        /\ path[parent(c)] \subseteq path[n]
        /\ \A d \in path[n] : d < c => d \in path[parent(c)]
<1> DEFINE P(n) == \A c \in path[n] :
                     /\ path[parent(c)] \subseteq path[n]
                     /\ \A d \in path[n] : d < c => d \in path[parent(c)]
           S == {n \in Node : P(n)}
<1>1. ASSUME NEW n \in Node, \A m \in Node : m < n => m \in S PROVE n \in S
  <2>1. CASE n = 0
    BY <2>1, PathDef
  <2>2. CASE n # 0
    <3>1. parent(n) \in Node /\ parent(n) < n /\ parent(n) \in S
      BY <1>1, <2>2, Parents
    <3>2. path[n] = {n} \cup path[parent(n)]
      BY <2>2, PathDef
    <3> SUFFICES ASSUME NEW c \in path[n]
                 PROVE  /\ path[parent(c)] \subseteq path[n]
                        /\ \A d \in path[n] : d < c => d \in path[parent(c)]
      OBVIOUS
    <3>3. CASE c = n
      <4>1. ASSUME NEW d \in path[n], d < c PROVE d \in path[parent(c)]
        BY <3>2, <3>3, <4>1 DEF Node
      <4> QED
        BY <3>2, <3>3, <4>1
    <3>4. CASE c # n
      <4>1. c \in path[parent(n)]
        BY <3>2, <3>4
      <4>2. c <= parent(n) /\ c \in Nat
        BY <3>1, <4>1, PathBelow DEF Node
      <4>3. ASSUME NEW d \in path[n], d < c PROVE d \in path[parent(c)]
        <5>1. d # n
          BY <3>1, <4>2, <4>3 DEF Node
        <5> QED
          BY <3>1, <3>2, <4>1, <4>3, <5>1
      <4> QED
        BY <3>1, <3>2, <4>1, <4>3
    <3> QED
      BY <3>3, <3>4
  <2> QED
    BY <2>1, <2>2
<1> HIDE DEF S
<1>2. Node \subseteq S
  BY <1>1, NodeInduction
<1> QED
  BY <1>2 DEF S

\* A path does not hold both children of a node.
LEMMA PathOnce ==
    ASSUME NEW n \in Node, NEW c \in path[n], NEW d \in path[n], parent(c) = parent(d)
    PROVE  c = d
<1>1. c \in Node \ {0} /\ d \in Node \ {0}
  BY PathBelow, WayNumbers DEF Node
<1>2. ASSUME NEW x \in path[n], NEW y \in path[n], x < y, parent(x) = parent(y) PROVE FALSE
  <2>1. x \in Node \ {0} /\ y \in Node \ {0}
    BY PathBelow, WayNumbers DEF Node
  <2>2. parent(x) \in Node /\ parent(y) \in Node /\ parent(x) < x
    BY <2>1, Parents
  <2>3. x \in path[parent(y)]
    BY <1>2, PathChain
  <2>4. x <= parent(y)
    BY <2>2, <2>3, PathBelow DEF Node
  <2> QED
    BY <1>2, <2>1, <2>2, <2>4 DEF Node
<1>3. c < d \/ d < c \/ c = d
  BY <1>1 DEF Node
<1> QED
  BY <1>2, <1>3

\* Paths are finite; a node with a higher number is not nearer to the root.
LEMMA PathLength ==
    \A n \in Node : /\ IsFiniteSet(path[n]) /\ Cardinality(path[n]) \in 0..n
                    /\ \A m \in Node : m <= n => Cardinality(path[m]) <= Cardinality(path[n])
<1> DEFINE P(n) == /\ IsFiniteSet(path[n]) /\ Cardinality(path[n]) \in 0..n
                   /\ \A m \in Node : m <= n => Cardinality(path[m]) <= Cardinality(path[n])
           S == {n \in Node : P(n)}
<1>1. ASSUME NEW n \in Node, n # 0, IsFiniteSet(path[parent(n)])
      PROVE  IsFiniteSet(path[n]) /\ Cardinality(path[n]) = Cardinality(path[parent(n)]) + 1
  <2>1. parent(n) \in Node /\ parent(n) < n
    BY <1>1, Parents
  <2>2. n \notin path[parent(n)]
    BY <2>1, PathBelow DEF Node
  <2>3. path[n] = path[parent(n)] \cup {n}
    BY <1>1, PathDef
  <2> QED
    BY <1>1, <2>2, <2>3, FS_AddElement
<1>2. ASSUME NEW n \in Node, \A m \in Node : m < n => m \in S PROVE n \in S
  <2>1. CASE n = 0
    <3>1. path[0] = {}
      BY <2>1, PathDef
    <3>2. IsFiniteSet(path[0]) /\ Cardinality(path[0]) = 0
      BY <3>1, FS_EmptySet
    <3>3. \A m \in Node : m <= 0 => m = 0
      BY DEF Node
    <3> QED
      BY <2>1, <3>2, <3>3
  <2>2. CASE n # 0
    <3> DEFINE p == parent(n)
               C(x) == Cardinality(path[x])
    <3>1. p \in Node /\ p < n /\ P(p)
      BY <1>2, <2>2, Parents
    <3>2. IsFiniteSet(path[n]) /\ C(n) = C(p) + 1
      BY <1>1, <2>2, <3>1
    <3>3. C(n) \in 0..n
      <4> HIDE DEF C, p
      <4>1. C(p) \in 0..p
        BY <3>1 DEF C
      <4> QED
        BY <3>1, <3>2, <4>1 DEF Node
    <3>4. ASSUME NEW m \in Node, m <= n PROVE C(m) <= C(n)
      <4>1. CASE m = n
        BY <3>3, <4>1 DEF Node
      <4>2. CASE m = 0
        <5>1. path[0] = {}
          BY <4>2, PathDef
        <5>2. C(0) = 0
          BY <5>1, FS_EmptySet
        <5> QED
          BY <3>3, <4>2, <5>2 DEF Node
      <4>3. CASE m # n /\ m # 0
        <5> DEFINE q == parent(m)
        <5>1. m < n
          BY <3>4, <4>3 DEF Node
        <5>2. q \in Node /\ q < m /\ q <= p
          BY <3>4, <4>3, Parents DEF parent, Node
        <5>3. q < n
          BY <5>1, <5>2 DEF Node
        <5>4. P(q)
          BY <1>2, <5>2, <5>3
        <5>5. C(m) = C(q) + 1
          BY <1>1, <4>3, <5>4
        <5>6. C(q) <= C(p) /\ C(q) \in Nat /\ C(p) \in Nat
          BY <3>1, <5>2, <5>4 DEF Node
        <5> HIDE DEF C, p, q
        <5> QED
          BY <3>2, <5>5, <5>6
      <4> QED
        BY <4>1, <4>2, <4>3
    <3> QED
      BY <3>2, <3>3, <3>4
  <2> QED
    BY <2>1, <2>2
<1> HIDE DEF S
<1>3. Node \subseteq S
  BY <1>2, NodeInduction
<1> QED
  BY <1>3 DEF S

\* The nodes on the path of way w that their parents point to: w is the victim
\* when these are all of them.
Toward(nodes, w) ==
    {c \in path[w + inner] : nodes[parent(c)] = get_direction_to_prev_node(c)}

\* The leaf of a way is a node, and inner nodes are above it.
LEMMA Leaves ==
    ASSUME NEW w \in Way
    PROVE  /\ w + inner \in Node
           /\ \A c \in path[w + inner] : c \in Node /\ c # 0 /\ parent(c) \in 0..(inner - 1)
<1>1. w + inner \in Node /\ w + inner <= 2 * inner
  BY WayNumbers DEF Node
<1>2. ASSUME NEW c \in path[w + inner] PROVE c \in Node /\ c # 0 /\ c <= 2 * inner
  BY <1>1, PathBelow, WayNumbers DEF Node
<1>3. ASSUME NEW c \in Node, c # 0, c <= 2 * inner PROVE parent(c) \in 0..(inner - 1)
  BY <1>3, WayNumbers DEF Node, parent
<1> QED
  BY <1>1, <1>2, <1>3

\* The two children of a node are in different directions.
LEMMA Siblings ==
    ASSUME NEW c \in Node, c # 0, NEW d \in Node, d # 0, parent(c) = parent(d)
    PROVE  /\ get_direction_to_prev_node(c) \in {"Left", "Right"}
           /\ c # d => get_direction_to_prev_node(c) # get_direction_to_prev_node(d)
  BY WayNumbers DEF Node, parent, get_direction_to_prev_node

\* PseudoLRU::touch turns every node above v away from it and so brings any
\* other way nearer to being the victim by one node at most: where their paths
\* part.
LEMMA TouchedTree ==
    ASSUME NEW nodes \in Directions, NEW v \in Way
    PROVE  /\ plru_touch(nodes, v) \in Directions
           /\ Toward(plru_touch(nodes, v), v) = {}
           /\ \A w \in Way : \E x : Toward(plru_touch(nodes, v), w) \subseteq Toward(nodes, w) \cup {x}
<1> DEFINE turns(n) == \E c \in path[v + inner] : parent(c) = n /\ nodes[n] = get_direction_to_prev_node(c)
           t == plru_touch(nodes, v)
           dir(c) == get_direction_to_prev_node(c)
<1>1. t = [n \in 0..(inner - 1) |-> IF turns(n) THEN (IF nodes[n] = "Left" THEN "Right" ELSE "Left")
                                    ELSE nodes[n]]
  BY DEF plru_touch, Directions
<1>2. t \in Directions
  <2> HIDE DEF turns, t
  <2> QED
    BY <1>1 DEF Directions
<1> HIDE DEF t
<1>3. ASSUME NEW c \in path[v + inner] PROVE t[parent(c)] # dir(c)
  <2>1. c \in Node /\ c # 0 /\ parent(c) \in 0..(inner - 1)
    BY Leaves
  <2>2. CASE turns(parent(c))
    <3>1. PICK d \in path[v + inner] : parent(d) = parent(c) /\ nodes[parent(c)] = dir(d)
      BY <2>2
    <3>2. d = c
      BY <3>1, Leaves, PathOnce
    <3>3. dir(c) \in {"Left", "Right"}
      BY <2>1, Siblings
    <3>4. t[parent(c)] = IF nodes[parent(c)] = "Left" THEN "Right" ELSE "Left"
      <4> HIDE DEF turns
      <4> QED
        BY <1>1, <2>1, <2>2
    <3> QED
      BY <3>1, <3>2, <3>3, <3>4
  <2>3. CASE ~turns(parent(c))
    <3>1. t[parent(c)] = nodes[parent(c)]
      <4> HIDE DEF turns
      <4> QED
        BY <1>1, <2>1, <2>3
    <3> QED
      BY <2>3, <3>1
  <2> QED
    BY <2>2, <2>3
<1>4. Toward(t, v) = {}
  BY <1>3 DEF Toward
<1>5. ASSUME NEW w \in Way PROVE \E x : Toward(t, w) \subseteq Toward(nodes, w) \cup {x}
  <2> DEFINE new == Toward(t, w) \ Toward(nodes, w)
  <2>1. ASSUME NEW c \in new
        PROVE  /\ c \in path[w + inner] /\ c \in Node /\ c # 0
               /\ \E d \in path[v + inner] : parent(d) = parent(c) /\ d # c
    <3>1. c \in path[w + inner] /\ t[parent(c)] = dir(c) /\ nodes[parent(c)] # dir(c)
      BY <2>1 DEF Toward
    <3>2. c \in Node /\ c # 0 /\ parent(c) \in 0..(inner - 1)
      BY <3>1, Leaves
    <3>3. turns(parent(c))
      <4> HIDE DEF turns
      <4> QED
        BY <1>1, <3>1, <3>2
    <3> QED
      BY <3>1, <3>2, <3>3
  <2>2. ASSUME NEW c \in new, NEW d \in new, c < d PROVE FALSE
    <3>1. PICK b \in path[v + inner] : parent(b) = parent(c) /\ b # c
      BY <2>1
    <3>2. PICK e \in path[v + inner] : parent(e) = parent(d)
      BY <2>1
    <3>3. c \in path[parent(d)]
      BY <2>1, <2>2, Leaves, PathChain
    <3>4. c \in path[v + inner]
      BY <3>2, <3>3, Leaves, PathChain
    <3> QED
      BY <3>1, <3>4, Leaves, PathOnce
  <2>3. ASSUME NEW c \in new, NEW d \in new PROVE c = d
    <3>1. c \in Nat /\ d \in Nat
      BY <2>1, WayNumbers DEF Node
    <3>2. c < d \/ d < c \/ c = d
      BY <3>1
    <3> HIDE DEF new
    <3> QED
      BY <2>2, <3>2
  <2> HIDE DEF new
  <2>4. \E x : new \subseteq {x}
    BY <2>3
  <2> QED
    BY <2>4 DEF new
<1> QED
  BY <1>2, <1>4, <1>5 DEF t

\* What PseudoLRU::update follows down the tree.
Follows(f, nodes) ==
    f = [n \in 0..(2 * ways) |-> IF n < inner THEN f[get_next_node(nodes, n)] ELSE n]

\* The next node is the child that the direction points to.
LEMMA NextNode ==
    ASSUME NEW nodes \in Directions, NEW n \in 0..(inner - 1)
    PROVE  LET m == get_next_node(nodes, n) IN
           /\ m \in Node /\ m > n /\ m <= 2 * inner /\ m # 0
           /\ parent(m) = n /\ get_direction_to_prev_node(m) = nodes[n]
<1>1. nodes[n] = "Left" \/ nodes[n] = "Right"
  BY DEF Directions
<1>2. CASE nodes[n] = "Left"
  BY <1>2, WayNumbers DEF get_next_node, Node, parent, get_direction_to_prev_node
<1>3. CASE nodes[n] = "Right"
  BY <1>3, WayNumbers DEF get_next_node, Node, parent, get_direction_to_prev_node
<1> QED
  BY <1>1, <1>2, <1>3

\* The recursion of plru_victim ends: there is a function that it defines.
LEMMA WalkDef ==
    ASSUME NEW nodes \in Directions
    PROVE  \E f : Follows(f, nodes) /\ plru_victim(nodes) = f[0] - inner
<1> DEFINE next(n) == get_next_node(nodes, n)
           From(f, k) ==
               /\ f = [n \in Node |-> f[n]]
               /\ \A n \in Node : n + k >= inner => f[n] = IF n < inner THEN f[next(n)] ELSE n
           S == {k \in Nat : \E f : From(f, k)}
<1>1. 0 \in S
  <2> DEFINE g == [n \in Node |-> n]
  <2>1. \A n \in Node : n + 0 >= inner => ~(n < inner)
    BY WayNumbers DEF Node
  <2>2. From(g, 0)
    BY <2>1
  <2> HIDE DEF From, g
  <2> QED
    BY <2>2
<1>2. ASSUME NEW k \in Nat, k \in S PROVE k + 1 \in S
  <2> HIDE DEF From
  <2>1. PICK f : From(f, k)
    BY <1>2
  <2> DEFINE g == [n \in Node |-> IF n + k + 1 = inner THEN f[next(n)] ELSE f[n]]
  <2>2. g = [n \in Node |-> g[n]]
    OBVIOUS
  <2>3. ASSUME NEW n \in Node, n + (k + 1) >= inner
        PROVE  g[n] = IF n < inner THEN g[next(n)] ELSE n
    <3>0. n \in Nat /\ inner \in Nat /\ k \in Nat
      BY WayNumbers DEF Node
    <3>1. CASE n >= inner
      <4>1. n + k + 1 # inner /\ n + k >= inner /\ ~(n < inner)
        BY <3>0, <3>1
      <4> QED
        BY <2>1, <4>1 DEF From
    <3>2. CASE n < inner
      <4>1. next(n) \in Node /\ next(n) > n
        BY <3>0, <3>2, NextNode
      <4> HIDE DEF next
      <4>2. next(n) + k + 1 # inner
        BY <2>3, <3>0, <4>1 DEF Node
      <4>3. g[next(n)] = f[next(n)]
        BY <4>1, <4>2
      <4>4. CASE n + k + 1 = inner
        BY <3>2, <4>3, <4>4
      <4>5. CASE n + k + 1 # inner
        <5>1. n + k >= inner
          BY <2>3, <3>0, <4>5
        <5>2. f[n] = f[next(n)]
          BY <2>1, <3>2, <5>1 DEF From
        <5> QED
          BY <3>2, <4>3, <4>5, <5>2
      <4> QED
        BY <4>4, <4>5
    <3> QED
      BY <3>0, <3>1, <3>2
  <2> HIDE DEF g
  <2>4. From(g, k + 1)
    BY <2>2, <2>3 DEF From
  <2> QED
    BY <2>4
<1> HIDE DEF S, From
<1>3. Nat \subseteq S
  BY <1>1, <1>2, NatSetInduction
<1>4. PICK f : From(f, inner)
  BY <1>3, WayNumbers DEF S
<1>5. Follows(f, nodes)
  <2>1. \A n \in Node : n + inner >= inner
    BY WayNumbers DEF Node
  <2>2. f = [n \in Node |-> IF n < inner THEN f[next(n)] ELSE n]
    BY <1>4, <2>1 DEF From
  <2> QED
    BY <2>2 DEF Follows, Node
<1>6. plru_victim(nodes) = (CHOOSE g : Follows(g, nodes))[0] - inner
  BY DEF plru_victim, Follows
<1>7. Follows(CHOOSE g : Follows(g, nodes), nodes)
  BY <1>5
<1> QED
  BY <1>6, <1>7

\* PseudoLRU::update goes down from the root to a leaf, always where the node
\* points to.
LEMMA VictimOfTree ==
    ASSUME NEW nodes \in Directions
    PROVE  /\ plru_victim(nodes) \in Way
           /\ Toward(nodes, plru_victim(nodes)) = path[plru_victim(nodes) + inner]
<1>1. PICK f : Follows(f, nodes) /\ plru_victim(nodes) = f[0] - inner
  BY WalkDef
<1> DEFINE dir(c) == get_direction_to_prev_node(c)
           Pointed(n) == \A c \in path[n] : nodes[parent(c)] = dir(c)
           S == {n \in Node : n <= 2 * inner =>
                    f[n] \in inner..(2 * inner) /\ (Pointed(n) => Pointed(f[n]))}
<1>2. ASSUME NEW n \in Node, \A m \in Node : m > n => m \in S PROVE n \in S
  <2> SUFFICES ASSUME n <= 2 * inner
               PROVE  f[n] \in inner..(2 * inner) /\ (Pointed(n) => Pointed(f[n]))
    OBVIOUS
  <2>1. CASE ~(n < inner)
    <3>1. f[n] = n
      BY <1>1, <2>1 DEF Follows, Node
    <3>2. n \in inner..(2 * inner)
      BY <2>1, WayNumbers DEF Node
    <3> QED
      BY <3>1, <3>2
  <2>2. CASE n < inner
    <3> DEFINE m == get_next_node(nodes, n)
    <3>1. n \in 0..(inner - 1)
      BY <2>2, WayNumbers DEF Node
    <3>2. m \in Node /\ m > n /\ m <= 2 * inner /\ m # 0 /\ parent(m) = n /\ dir(m) = nodes[n]
      BY <3>1, NextNode
    <3>3. f[n] = f[m]
      BY <1>1, <2>2 DEF Follows, Node
    <3> HIDE DEF m
    <3>4. path[m] = {m} \cup path[n]
      BY <3>2, PathDef
    <3>5. Pointed(n) => Pointed(m)
      BY <3>2, <3>4
    <3>6. f[m] \in inner..(2 * inner) /\ (Pointed(m) => Pointed(f[m]))
      BY <1>2, <3>2
    <3> HIDE DEF Pointed
    <3> QED
      BY <3>3, <3>5, <3>6
  <2> QED
    BY <2>1, <2>2
<1>3. Node \subseteq S
  <2> HIDE DEF S
  <2> QED
    BY <1>2, NodeInductionDown
<1>4. 0 \in Node /\ 0 <= 2 * inner
  BY WayNumbers DEF Node
<1>5. Pointed(0)
  <2>1. path[0] = {}
    BY <1>4, PathDef
  <2> QED
    BY <2>1
<1>6. f[0] \in inner..(2 * inner) /\ Pointed(f[0])
  BY <1>3, <1>4, <1>5
<1>7. plru_victim(nodes) \in Way /\ plru_victim(nodes) + inner = f[0]
  BY <1>1, <1>6, WayNumbers
<1> QED
  BY <1>6, <1>7 DEF Toward

-----------------------------------------------------------------------------
(* CacheReplacement, whatever the policy *)

InfoOK(p, info) == IF p = "LRU" THEN Permutes(info) ELSE info \in Directions

\* The j-th last way is not far back in the list, and few nodes point to it.
Behind(p, info, acc) ==
    /\ acc \in Seq(Way) /\ Len(acc) <= Depth
    /\ \A j \in 1..Len(acc) :
         IF p = "LRU" THEN \E k \in 1..ways : k <= j /\ info[k] = acc[j]
         ELSE Cardinality(Toward(info, acc[j])) < j

\* log2( ways) is less than ways.
LEMMA DepthIsSmall == Depth \in Nat /\ Depth < ways /\ \A w \in Way : Depth <= Cardinality(path[w + inner])
<1>1. inner \in Node /\ inner < ways
  BY WayNumbers DEF Node
<1>2. Depth \in 0..inner
  BY <1>1, PathLength DEF Depth
<1>3. ASSUME NEW w \in Way PROVE Depth <= Cardinality(path[w + inner])
  <2>1. w + inner \in Node /\ inner <= w + inner
    BY WayNumbers DEF Node
  <2> QED
    BY <1>1, <2>1, PathLength DEF Depth
<1> QED
  BY <1>1, <1>2, <1>3, WayNumbers

\* Few nodes are few: Toward is finite.
LEMMA TowardIsFinite ==
    ASSUME NEW nodes, NEW w \in Way
    PROVE  IsFiniteSet(Toward(nodes, w)) /\ Cardinality(Toward(nodes, w)) \in Nat
<1>1. IsFiniteSet(path[w + inner])
  BY Leaves, PathLength
<1>2. IsFiniteSet(Toward(nodes, w))
  BY <1>1, FS_Subset DEF Toward
<1> QED
  BY <1>2, FS_CardinalityType

\* touch keeps the accesses behind the way that is touched.
LEMMA Touched ==
    ASSUME NEW p, NEW info, InfoOK(p, info), NEW acc, Behind(p, info, acc), NEW w \in Way
    PROVE  /\ InfoOK(p, touch(p, info, w))
           /\ Behind(p, touch(p, info, w), Latest(<<w>> \o acc))
<1> DEFINE t == touch(p, info, w)
           s == <<w>> \o acc
           a == Latest(s)
<1>1. /\ a \in Seq(Way) /\ Len(a) <= Depth
      /\ \A j \in 1..Len(a) : j = 1 => a[j] = w
      /\ \A j \in 1..Len(a) : j # 1 => j - 1 \in 1..Len(acc) /\ a[j] = acc[j - 1]
  <2>1. /\ s \in Seq(Way) /\ Len(s) = Len(acc) + 1 /\ s[1] = w /\ Len(acc) \in Nat
        /\ \A j \in 2..Len(s) : s[j] = acc[j - 1]
    BY DEF Behind
  <2> DEFINE n == IF Len(s) < Depth THEN Len(s) ELSE Depth
  <2>2. a = SubSeq(s, 1, n)
    BY DEF Latest
  <2> HIDE DEF s, a
  <2>3. n \in 0..Len(s) /\ n <= Depth
    BY <2>1, DepthIsSmall
  <2> HIDE DEF n
  <2>4. a \in Seq(Way) /\ Len(a) = n /\ \A j \in 1..n : a[j] = s[j]
    BY <2>1, <2>2, <2>3
  <2> QED
    BY <2>1, <2>3, <2>4, DepthIsSmall
<1>2. InfoOK(p, t)
  BY TouchedList, TouchedTree DEF InfoOK, touch
<1> HIDE DEF a, s
<1>3. ASSUME NEW j \in 1..Len(a), p = "LRU"
      PROVE  \E k \in 1..ways : k <= j /\ t[k] = a[j]
  <2> DEFINE l == lru_touch(info, w)
  <2>1. /\ t = l /\ l[1] = w
        /\ \A k \in 1..ways : info[k] # w => \E i \in 1..ways : i <= k + 1 /\ l[i] = info[k]
    BY <1>3, TouchedList DEF touch, InfoOK
  <2> HIDE DEF l, t
  <2>2. CASE a[j] = w
    BY <2>1, <2>2, WayNumbers
  <2>3. CASE a[j] # w
    <3>1. j - 1 \in 1..Len(acc) /\ a[j] = acc[j - 1] /\ j \in Nat
      BY <1>1, <2>3
    <3>2. PICK k \in 1..ways : k <= j - 1 /\ info[k] = acc[j - 1]
      BY <1>3, <3>1 DEF Behind
    <3>3. PICK i \in 1..ways : i <= k + 1 /\ l[i] = info[k]
      BY <2>1, <2>3, <3>1, <3>2
    <3>4. i <= j
      BY <3>1, <3>2, <3>3, WayNumbers
    <3> QED
      BY <2>1, <3>1, <3>2, <3>3, <3>4
  <2> QED
    BY <2>2, <2>3
<1>4. ASSUME NEW j \in 1..Len(a), p # "LRU"
      PROVE  Cardinality(Toward(t, a[j])) < j
  <2>1. /\ Toward(t, w) = {}
        /\ \A v \in Way : \E x : Toward(t, v) \subseteq Toward(info, v) \cup {x}
    <3>1. t = plru_touch(info, w) /\ info \in Directions
      BY <1>4 DEF touch, InfoOK
    <3>2. /\ Toward(plru_touch(info, w), w) = {}
          /\ \A v \in Way : \E x : Toward(plru_touch(info, w), v) \subseteq Toward(info, v) \cup {x}
      BY <3>1, TouchedTree
    <3> HIDE DEF t
    <3> QED
      BY <3>1, <3>2
  <2> HIDE DEF t
  <2>2. CASE j = 1
    <3>1. Toward(t, a[j]) = {}
      BY <1>1, <2>1, <2>2
    <3>2. Cardinality({}) = 0
      BY FS_EmptySet
    <3> QED
      BY <2>2, <3>1, <3>2
  <2>3. CASE j # 1
    <3> DEFINE v == acc[j - 1]
    <3>1. j - 1 \in 1..Len(acc) /\ a[j] = v /\ v \in Way
      BY <1>1, <2>3 DEF Behind
    <3>2. Cardinality(Toward(info, v)) < j - 1
      BY <1>4, <3>1 DEF Behind
    <3>3. PICK x : Toward(t, v) \subseteq Toward(info, v) \cup {x}
      BY <2>1, <3>1
    <3> DEFINE U == Toward(info, v)
               V == Toward(t, v)
    <3>4. IsFiniteSet(U) /\ Cardinality(U) \in Nat /\ Cardinality(V) \in Nat
      BY <3>1, TowardIsFinite
    <3> HIDE DEF U, V, v
    <3>5. /\ IsFiniteSet(U \cup {x})
          /\ Cardinality(U \cup {x}) = Cardinality(U) \/ Cardinality(U \cup {x}) = Cardinality(U) + 1
      BY <3>4, FS_AddElement
    <3>6. Cardinality(V) <= Cardinality(U \cup {x})
      BY <3>3, <3>5, FS_Subset DEF U, V
    <3>7. Cardinality(V) < j
      BY <3>2, <3>4, <3>5, <3>6 DEF U
    <3> QED
      BY <3>1, <3>7 DEF V
  <2> QED
    BY <2>2, <2>3
<1>5. Behind(p, t, a)
  BY <1>1, <1>3, <1>4 DEF Behind
<1> QED
  BY <1>2, <1>5 DEF a, s

\* update returns a way that is not one of the last accesses.
LEMMA VictimIsWay ==
    ASSUME NEW p, NEW info, InfoOK(p, info)
    PROVE  /\ victim(p, info) \in Way
           /\ \A acc : Behind(p, info, acc) => \A j \in 1..Len(acc) : acc[j] # victim(p, info)
<1>1. CASE p = "LRU"
  <2>1. victim(p, info) = info[ways] /\ info[ways] \in Way /\ ways \in 1..ways
    BY <1>1, WayNumbers DEF victim, lru_victim, InfoOK, Permutes
  <2>2. ASSUME NEW acc, Behind(p, info, acc), NEW j \in 1..Len(acc) PROVE acc[j] # info[ways]
    <3>1. PICK k \in 1..ways : k <= j /\ info[k] = acc[j]
      BY <1>1, <2>2 DEF Behind
    <3>2. j <= Depth /\ j \in Nat
      BY <2>2, DepthIsSmall DEF Behind
    <3>3. k # ways
      BY <3>1, <3>2, DepthIsSmall, WayNumbers
    <3> QED
      BY <1>1, <2>1, <3>1, <3>3 DEF InfoOK, Permutes
  <2> QED
    BY <2>1, <2>2
<1>2. CASE p # "LRU"
  <2> DEFINE w == plru_victim(info)
  <2>1. victim(p, info) = w /\ w \in Way /\ Toward(info, w) = path[w + inner]
    BY <1>2, VictimOfTree DEF victim, InfoOK
  <2>2. ASSUME NEW acc, Behind(p, info, acc), NEW j \in 1..Len(acc), acc[j] = w PROVE FALSE
    <3>1. Cardinality(path[w + inner]) < j
      BY <1>2, <2>1, <2>2 DEF Behind
    <3>2. j <= Depth /\ j \in Nat
      BY <2>2, DepthIsSmall DEF Behind
    <3>3. Cardinality(path[w + inner]) \in Nat
      <4>1. w + inner \in Node
        BY <2>1, Leaves
      <4> QED
        BY <4>1, PathLength, WayNumbers DEF Node
    <3> QED
      BY <2>1, <3>1, <3>2, <3>3, DepthIsSmall
  <2> QED
    BY <2>1, <2>2
<1> QED
  BY <1>1, <1>2

-----------------------------------------------------------------------------
(* The set *)

\* The types and where the last accesses are, which holds whatever callers do.
Types == TypeOK /\ InfoOK(policy, replacement_info) /\ Behind(policy, replacement_info, accesses)

\* TypeOK has nothing about the replacement information that InfoOK has not.
LEMMA InfoType ==
    ASSUME NEW p, NEW info, InfoOK(p, info)
    PROVE  info \in IF p = "LRU" THEN [1..ways -> Way] ELSE [0..(inner - 1) -> {"Left", "Right"}]
  BY DEF InfoOK, Permutes, Directions

\* A set starts with the list or the tree of the constructor and no access.
LEMMA InitTypes == Init => Types
<1> SUFFICES ASSUME Init PROVE Types
  OBVIOUS
<1>1. InfoOK(policy, replacement_info)
  BY FirstList DEF Init, replacement_at_first, InfoOK, nodes_at_first, Directions
<1>2. Behind(policy, replacement_info, accesses)
  BY DepthIsSmall DEF Init, Behind
<1>3. TypeOK
  BY <1>1, InfoType DEF Init, TypeOK
<1> QED
  BY <1>1, <1>2, <1>3 DEF Types

\* read and write touch one way.
LEMMA StepTypes ==
    ASSUME Types, NEW t \in Tags, Read(t) \/ Write(t)
    PROVE  Types'
<1> DEFINE w == IF Read(t) THEN lookup_helper[t] ELSE victim(policy, replacement_info)
<1>1. w \in Way
  BY VictimIsWay DEF Types, TypeOK, Read, read_no_touch
<1>2. /\ replacement_info' = touch(policy, replacement_info, w)
      /\ accesses' = Latest(<<w>> \o accesses) /\ policy' = policy
  BY DEF Read, Write
<1>3. InfoOK(policy', replacement_info') /\ Behind(policy', replacement_info', accesses')
  <2> HIDE DEF w
  <2> QED
    BY <1>1, <1>2, Touched DEF Types
<1>4. /\ tags' \in [Way -> Tags \cup {NoTag}]
      /\ lookup_helper' \in [DOMAIN lookup_helper' -> Way]
      /\ DOMAIN lookup_helper' \subseteq Tags
  <2>1. CASE Read(t)
    BY <2>1 DEF Read, Types, TypeOK
  <2>2. CASE ~Read(t)
    <3> DEFINE l == IF tags[w] # NoTag THEN erased(lookup_helper, tags[w]) ELSE lookup_helper
    <3>1. Write(t) /\ w = victim(policy, replacement_info)
      BY <2>2
    <3>2. tags' = [tags EXCEPT ![w] = t] /\ lookup_helper' = emplaced(l, t, w)
      BY <3>1 DEF Write, lookup_after
    <3>3. l \in [DOMAIN l -> Way] /\ DOMAIN l \subseteq Tags
      BY DEF Types, TypeOK, erased
    <3> HIDE DEF l, w
    <3> QED
      BY <1>1, <3>2, <3>3 DEF Types, TypeOK, emplaced
  <2> QED
    BY <2>1, <2>2
<1>5. TypeOK'
  BY <1>2, <1>3, <1>4, InfoType DEF TypeOK, Types, Behind
<1> QED
  BY <1>3, <1>5 DEF Types

\* The parts of Types hold in every state.
LEMMA AlwaysTypes == Spec => []Types
<1>1. Types /\ [Next]_vars => Types'
  <2> SUFFICES ASSUME Types, [Next]_vars PROVE Types'
    OBVIOUS
  <2>1. CASE Next
    BY <2>1, StepTypes DEF Next
  <2>2. CASE UNCHANGED vars
    BY <2>2 DEF Types, TypeOK, vars
  <2> QED
    BY <2>1, <2>2
<1> QED
  BY <1>1, InitTypes, PTL DEF Spec

\* For every number of ways, with either policy and whatever the callers read and
\* write, the next victim is none of the ways of the last log2( ways) accesses.
THEOREM TagSetVictim == Spec => []VictimIsNotRecent
<1>1. Types => VictimIsNotRecent
  BY VictimIsWay DEF Types, VictimIsNotRecent
<1> QED
  BY <1>1, AlwaysTypes, PTL

\* The inductive invariant: LookupFindsTags needs the types, because a victim
\* must be a way.
IInv == Types /\ LookupFindsTags

\* SimpleCacheTagArray starts with no valid tag and an empty hash table.
LEMMA InitInv == Init => IInv
  BY InitTypes DEF Init, IInv, LookupFindsTags

\* read touches a way and nothing else.
LEMMA ReadInv ==
    ASSUME IInv, NEW t \in Tags, Read(t)
    PROVE  IInv'
<1>1. LookupFindsTags'
  BY DEF IInv, LookupFindsTags, Read
<1> QED
  BY <1>1, StepTypes DEF IInv

\* write: the old tag of the victim goes and t comes, in the tags and in the
\* hash table alike; t was in neither, because the caller has missed it.
LEMMA WriteInv ==
    ASSUME Careful, IInv, NEW t \in Tags, Write(t)
    PROVE  IInv'
<1> DEFINE w == victim(policy, replacement_info)
           old == tags[w]
           kept == IF old # NoTag THEN DOMAIN lookup_helper \ {old} ELSE DOMAIN lookup_helper
<1>1. /\ tags \in [Way -> Tags \cup {NoTag}]
      /\ lookup_helper \in [DOMAIN lookup_helper -> Way]
      /\ DOMAIN lookup_helper \subseteq Tags
      /\ DOMAIN lookup_helper = {tags[x] : x \in Way} \ {NoTag}
      /\ \A x \in Way : tags[x] # NoTag => lookup_helper[tags[x]] = x
  BY DEF IInv, Types, TypeOK, LookupFindsTags
<1>2. w \in Way
  BY VictimIsWay DEF IInv, Types
<1>3. t \notin DOMAIN lookup_helper
  BY DEF Write, read_no_touch
<1>4. /\ DOMAIN lookup_helper' = kept \cup {t}
      /\ lookup_helper'[t] = w
      /\ \A x \in kept : lookup_helper'[x] = lookup_helper[x]
  <2>1. lookup_helper' = lookup_after(lookup_helper, old, t, w)
    BY DEF Write
  <2>2. kept = IF old # NoTag THEN DOMAIN lookup_helper \ {old} ELSE DOMAIN lookup_helper
    OBVIOUS
  <2> HIDE DEF kept, old, w
  <2> QED
    BY <2>1, <2>2, <1>3 DEF lookup_after, emplaced, erased
<1>5. tags' = [tags EXCEPT ![w] = t]
  BY DEF Write
<1> HIDE DEF w
<1>6. t # NoTag
  BY TagAssumption
<1>7. \A x \in Way : tags'[x] # NoTag => lookup_helper'[tags'[x]] = x
  BY <1>1, <1>2, <1>4, <1>5
<1>8. DOMAIN lookup_helper' = {tags'[x] : x \in Way} \ {NoTag}
  <2>1. ASSUME NEW s \in DOMAIN lookup_helper'
        PROVE  s \in {tags'[x] : x \in Way} \ {NoTag}
    BY <2>1, <1>1, <1>2, <1>4, <1>5, <1>6
  <2>2. ASSUME NEW x \in Way, tags'[x] # NoTag
        PROVE  tags'[x] \in DOMAIN lookup_helper'
    BY <2>2, <1>1, <1>2, <1>4, <1>5
  <2> QED
    BY <2>1, <2>2
<1> QED
  BY <1>7, <1>8, StepTypes DEF IInv, LookupFindsTags

\* For every number of ways and either policy: a caller that writes only what it
\* has missed never makes the hash table and the tags disagree, so a hit names
\* the way that holds the tag and no tag is held twice.
THEOREM TagSetLookup ==
    ASSUME Careful
    PROVE  Spec => []LookupFindsTags
<1>1. IInv /\ [Next]_vars => IInv'
  <2> SUFFICES ASSUME IInv, [Next]_vars PROVE IInv'
    OBVIOUS
  <2>1. CASE Next
    BY <2>1, ReadInv, WriteInv DEF Next
  <2>2. CASE UNCHANGED vars
    BY <2>2 DEF IInv, Types, TypeOK, LookupFindsTags, vars
  <2> QED
    BY <2>1, <2>2
<1>2. IInv => LookupFindsTags
  BY DEF IInv
<1> QED
  BY <1>1, <1>2, InitInv, PTL DEF Spec

-----------------------------------------------------------------------------
(* LRU keeps the tags that were used last *)

\* The first n ways of the list are valid and the others are not.
Prefix(list, tg, n) ==
    n \in 0..ways /\ \A k \in 1..ways : tg[list[k]] # NoTag <=> k <= n

\* Then Filled is n.
LEMMA PrefixIsFilled ==
    ASSUME NEW list, NEW tg, NEW n, Prefix(list, tg, n)
    PROVE  n = CHOOSE m \in 0..ways : /\ \A k \in 1..m : tg[list[k]] # NoTag
                                      /\ m < ways => tg[list[m + 1]] = NoTag
<1> DEFINE Q(m) == /\ \A k \in 1..m : tg[list[k]] # NoTag
                   /\ m < ways => tg[list[m + 1]] = NoTag
<1>1. n \in 0..ways /\ Q(n)
  <2>1. ASSUME NEW k \in 1..n PROVE tg[list[k]] # NoTag
    BY WayNumbers DEF Prefix
  <2>2. ASSUME n < ways PROVE tg[list[n + 1]] = NoTag
    <3>1. n + 1 \in 1..ways /\ ~(n + 1 <= n)
      BY <2>2, WayNumbers DEF Prefix
    <3> QED
      BY <3>1 DEF Prefix
  <2> QED
    BY <2>1, <2>2 DEF Prefix
<1>2. ASSUME NEW m \in 0..ways, Q(m) PROVE m = n
  <2>1. ~(m < n)
    <3> SUFFICES ASSUME m < n PROVE FALSE
      OBVIOUS
    <3>1. m + 1 \in 1..ways /\ m + 1 <= n /\ m < ways
      BY WayNumbers DEF Prefix
    <3> QED
      BY <3>1, <1>2 DEF Prefix
  <2>2. ~(n < m)
    <3> SUFFICES ASSUME n < m PROVE FALSE
      OBVIOUS
    <3>1. n + 1 \in 1..m /\ n + 1 \in 1..ways /\ ~(n + 1 <= n)
      BY WayNumbers DEF Prefix
    <3> QED
      BY <3>1, <1>2 DEF Prefix
  <2> QED
    BY <2>1, <2>2, WayNumbers DEF Prefix
<1> HIDE DEF Q
<1>3. n = CHOOSE m \in 0..ways : Q(m)
  BY <1>1, <1>2
<1> QED
  BY <1>3 DEF Q

\* Moving the k-th element to the front, as LRUSet says it and element by element.
LEMMA MovedToFront ==
    ASSUME NEW S, NEW s \in Seq(S), NEW k \in 1..Len(s), NEW t \in S,
           NEW f \in Seq(S), Len(f) = Len(s),
           \A i \in 1..Len(s) : f[i] = IF i = 1 THEN t ELSE IF i <= k THEN s[i - 1] ELSE s[i]
    PROVE  f = <<t>> \o SubSeq(s, 1, k - 1) \o SubSeq(s, k + 1, Len(s))
<1> DEFINE a == SubSeq(s, 1, k - 1)
           b == SubSeq(s, k + 1, Len(s))
<1>0. Len(s) \in Nat /\ \A i \in 1..Len(s) : s[i] \in S
  OBVIOUS
<1>1. a \in Seq(S) /\ Len(a) = k - 1 /\ \A i \in 1..(k - 1) : a[i] = s[i]
  BY <1>0
<1>2. b \in Seq(S) /\ Len(b) = Len(s) - k /\ \A i \in 1..(Len(s) - k) : b[i] = s[i + k]
  BY <1>0
<1> HIDE DEF a, b
<1>3. <<t>> \o a \in Seq(S) /\ Len(<<t>> \o a) = k
      /\ \A i \in 1..k : (<<t>> \o a)[i] = IF i = 1 THEN t ELSE a[i - 1]
  BY <1>1
<1> DEFINE c == <<t>> \o a
<1> HIDE DEF c
<1>4. c \in Seq(S) /\ Len(c) = k /\ \A i \in 1..k : c[i] = IF i = 1 THEN t ELSE s[i - 1]
  BY <1>1, <1>3 DEF c
<1>5. c \o b \in Seq(S) /\ Len(c \o b) = Len(s)
      /\ \A i \in 1..Len(s) : (c \o b)[i] = IF i <= k THEN c[i] ELSE b[i - k]
  <2>1. c \in Seq(S) /\ b \in Seq(S) /\ Len(c) = k /\ Len(b) = Len(s) - k
    BY <1>2, <1>4
  <2>2. c \o b \in Seq(S) /\ Len(c \o b) = Len(c) + Len(b)
    BY <2>1
  <2>3. \A i \in 1..(Len(c) + Len(b)) : (c \o b)[i] = IF i <= Len(c) THEN c[i] ELSE b[i - Len(c)]
    BY <2>1
  <2>4. k + (Len(s) - k) = Len(s)
    BY <1>0
  <2> QED
    BY <2>1, <2>2, <2>3, <2>4
<1>6. ASSUME NEW i \in 1..Len(s) PROVE (c \o b)[i] = f[i]
  <2>1. f[i] = IF i = 1 THEN t ELSE IF i <= k THEN s[i - 1] ELSE s[i]
    OBVIOUS
  <2>2. CASE i <= k
    <3>1. i \in 1..k /\ (c \o b)[i] = c[i]
      BY <1>5, <2>2
    <3> QED
      BY <1>4, <2>1, <2>2, <3>1
  <2>3. CASE ~(i <= k)
    <3>1. i - k \in 1..(Len(s) - k) /\ (i - k) + k = i /\ i # 1
      BY <1>0, <2>3
    <3>2. (c \o b)[i] = b[i - k] /\ b[i - k] = s[i]
      BY <1>2, <1>5, <2>3, <3>1
    <3> QED
      BY <2>1, <2>3, <3>1, <3>2
  <2> QED
    BY <2>2, <2>3
<1> DEFINE d == c \o b
<1> HIDE DEF d
<1>7. d \in Seq(S) /\ Len(d) = Len(f) /\ \A i \in 1..Len(f) : d[i] = f[i]
  <2>1. d \in Seq(S) /\ Len(d) = Len(s)
    BY <1>5 DEF d
  <2>2. \A i \in 1..Len(s) : d[i] = f[i]
    BY <1>6 DEF d
  <2> QED
    BY <2>1, <2>2
<1>8. d = f
  <2>1. d = [i \in 1..Len(f) |-> d[i]]
    BY <1>7
  <2>2. f = [i \in 1..Len(f) |-> f[i]]
    OBVIOUS
  <2> QED
    BY <1>7, <2>1, <2>2
<1> QED
  BY <1>8 DEF a, b, c, d

\* A new element in front, of all or of all but the last.
LEMMA PutInFront ==
    ASSUME NEW s, NEW S, s \in Seq(S), NEW t \in S, NEW n \in 0..Len(s)
    PROVE  <<t>> \o SubSeq(s, 1, n) = [i \in 1..(n + 1) |-> IF i = 1 THEN t ELSE s[i - 1]]
<1> DEFINE a == SubSeq(s, 1, n)
           f == [i \in 1..(n + 1) |-> IF i = 1 THEN t ELSE s[i - 1]]
<1>1. a \in Seq(S) /\ Len(a) = n /\ \A i \in 1..n : a[i] = s[i]
  OBVIOUS
<1> HIDE DEF a
<1>2. <<t>> \o a \in Seq(S) /\ Len(<<t>> \o a) = n + 1
      /\ \A i \in 1..(n + 1) : (<<t>> \o a)[i] = IF i = 1 THEN t ELSE a[i - 1]
  BY <1>1
<1>3. <<t>> \o a = [i \in 1..(n + 1) |-> (<<t>> \o a)[i]]
  BY <1>2
<1>4. ASSUME NEW i \in 1..(n + 1) PROVE (<<t>> \o a)[i] = f[i]
  BY <1>1, <1>2
<1>5. <<t>> \o a = f
  BY <1>3, <1>4
<1> QED
  BY <1>5 DEF a

\* touch of a valid way: as many ways are valid, and the others keep their order.
LEMMA PrefixTouched ==
    ASSUME NEW list, Permutes(list), NEW tg, NEW n, Prefix(list, tg, n), NEW w \in Way, tg[w] # NoTag
    PROVE  /\ Prefix(lru_touch(list, w), tg, n)
           /\ place(list, w) \in 1..n /\ list[place(list, w)] = w
           /\ \A k \in 1..n : tg[lru_touch(list, w)[k]] =
                IF k = 1 THEN tg[w] ELSE IF k <= place(list, w) THEN tg[list[k - 1]] ELSE tg[list[k]]
<1> DEFINE p == place(list, w)
           l == lru_touch(list, w)
<1>1. p \in 1..ways /\ list[p] = w
  BY DEF place, Permutes
<1>2. l = [k \in 1..ways |-> IF k = 1 THEN w ELSE IF k <= p THEN list[k - 1] ELSE list[k]]
  BY DEF lru_touch
<1> HIDE DEF p, l
<1>3. n \in 0..ways /\ \A k \in 1..ways : tg[list[k]] # NoTag <=> k <= n
  BY DEF Prefix
<1>4. p \in 1..n
  BY <1>1, <1>3, WayNumbers
<1>5. ASSUME NEW k \in 1..ways
      PROVE  /\ tg[l[k]] = IF k = 1 THEN tg[w] ELSE IF k <= p THEN tg[list[k - 1]] ELSE tg[list[k]]
             /\ tg[l[k]] # NoTag <=> k <= n
  <2>1. CASE k = 1
    BY <1>2, <1>4, <2>1, <1>3, WayNumbers
  <2>2. CASE k # 1 /\ k <= p
    <3>1. k - 1 \in 1..ways /\ k - 1 <= n /\ k <= n
      BY <1>4, <1>3, <2>2, WayNumbers
    <3> QED
      BY <1>2, <1>3, <2>2, <3>1
  <2>3. CASE k # 1 /\ ~(k <= p)
    BY <1>2, <1>3, <2>3
  <2> QED
    BY <2>1, <2>2, <2>3
<1>6. Prefix(l, tg, n)
  BY <1>3, <1>5 DEF Prefix
<1>7. \A k \in 1..n : k \in 1..ways
  BY <1>3, WayNumbers
<1> QED
  BY <1>1, <1>4, <1>5, <1>6, <1>7 DEF p, l

\* write in the last way of the list: the others move one place back.
LEMMA PrefixWritten ==
    ASSUME NEW list, Permutes(list), NEW tg, NEW n, Prefix(list, tg, n), NEW t, t # NoTag,
           NEW u, u[list[ways]] = t, \A x \in Way : x # list[ways] => u[x] = tg[x],
           NEW m \in 1..ways, IF n = ways THEN m = ways ELSE m = n + 1
    PROVE  /\ Prefix(lru_touch(list, list[ways]), u, m)
           /\ \A k \in 1..m : u[lru_touch(list, list[ways])[k]] = IF k = 1 THEN t ELSE tg[list[k - 1]]
<1> DEFINE w == list[ways]
           l == lru_touch(list, w)
<1>0. ways \in 1..ways /\ w \in Way
  BY WayNumbers DEF Permutes
<1>1. place(list, w) = ways
  <2>1. place(list, w) \in 1..ways /\ list[place(list, w)] = w
    BY <1>0 DEF place
  <2> QED
    BY <1>0, <2>1 DEF Permutes
<1>2. l = [k \in 1..ways |-> IF k = 1 THEN w ELSE IF k <= ways THEN list[k - 1] ELSE list[k]]
  BY <1>1 DEF lru_touch
<1>3. n \in 0..ways /\ \A k \in 1..ways : tg[list[k]] # NoTag <=> k <= n
  BY DEF Prefix
<1>8. u[w] = t /\ \A x \in Way : x # w => u[x] = tg[x]
  OBVIOUS
<1> HIDE DEF w, l
<1>4. m \in 1..ways /\ m <= n + 1 /\ (n # ways => m = n + 1)
  <2>1. n \in 0..ways
    BY <1>3
  <2> QED
    BY <2>1, WayNumbers
<1>5. ASSUME NEW k \in 1..ways
      PROVE  /\ u[l[k]] = IF k = 1 THEN t ELSE tg[list[k - 1]]
             /\ u[l[k]] # NoTag <=> k <= m
  <2>1. CASE k = 1
    <3>1. l[k] = w /\ u[w] = t /\ k <= m
      BY <1>0, <1>2, <1>4, <1>8, <2>1
    <3> QED
      BY <2>1, <3>1
  <2>2. CASE k # 1
    <3>1. k - 1 \in 1..ways /\ k - 1 # ways /\ k <= ways
      BY <2>2, WayNumbers
    <3>2. list[k - 1] # w /\ list[k - 1] \in Way
      BY <1>0, <3>1 DEF Permutes, w
    <3>3. l[k] = list[k - 1]
      BY <1>2, <2>2, <3>1
    <3>4. u[l[k]] = tg[list[k - 1]]
      BY <1>8, <3>2, <3>3
    <3>5. tg[list[k - 1]] # NoTag <=> k - 1 <= n
      BY <1>3, <3>1
    <3>6. k - 1 <= n <=> k <= m
      <4>1. n \in 0..ways /\ m \in 1..ways /\ m <= n + 1 /\ (n # ways => m = n + 1)
        BY <1>3, <1>4
      <4> QED
        BY <3>1, <4>1, WayNumbers
    <3> QED
      BY <2>2, <3>4, <3>5, <3>6
  <2> QED
    BY <2>1, <2>2
<1>6. Prefix(l, u, m)
  BY <1>4, <1>5, WayNumbers DEF Prefix
<1>7. \A k \in 1..m : k \in 1..ways
  BY <1>4, WayNumbers
<1> QED
  BY <1>5, <1>6, <1>7 DEF w, l

\* Recency is the tags of the valid ways.
LEMMA RecencyIs ==
    ASSUME IInv, policy = "LRU", NEW n, Prefix(replacement_info, tags, n)
    PROVE  /\ Recency = [k \in 1..n |-> tags[replacement_info[k]]]
           /\ Recency \in Seq(Tags) /\ Len(Recency) = n
<1>1. Filled = n
  BY PrefixIsFilled DEF Filled
<1>2. Recency = [k \in 1..n |-> tags[replacement_info[k]]]
  BY <1>1 DEF Recency
<1>3. n \in Nat /\ \A k \in 1..n : k \in 1..ways /\ tags[replacement_info[k]] # NoTag
  BY WayNumbers DEF Prefix
<1>4. ASSUME NEW k \in 1..n PROVE tags[replacement_info[k]] \in Tags
  BY <1>3 DEF IInv, Types, TypeOK
<1> QED
  BY <1>2, <1>3, <1>4

\* A hit is Use of LRUSet: the k-th tag becomes the first.
LEMMA HitIsUse ==
    ASSUME IInv, policy = "LRU", NEW n, Prefix(replacement_info, tags, n), NEW t \in Tags, Read(t)
    PROVE  Prefix(replacement_info', tags', n) /\ Abs!Use(t)
<1> DEFINE w == lookup_helper[t]
           p == place(replacement_info, w)
           R == Recency
<1>1. w \in Way /\ tags[w] = t /\ t # NoTag
  BY TagAssumption DEF Read, read_no_touch, IInv, LookupFindsTags, Types, TypeOK
<1>2. replacement_info' = lru_touch(replacement_info, w) /\ tags' = tags /\ policy' = policy
  BY DEF Read, touch
<1>3. Permutes(replacement_info)
  BY DEF IInv, Types, InfoOK
<1> HIDE DEF w, p
<1>4. /\ Prefix(replacement_info', tags', n)
      /\ p \in 1..n /\ replacement_info[p] = w
      /\ \A k \in 1..n : tags'[replacement_info'[k]] =
           IF k = 1 THEN t ELSE IF k <= p THEN tags[replacement_info[k - 1]] ELSE tags[replacement_info[k]]
  BY <1>1, <1>2, <1>3, PrefixTouched DEF p
<1>5. n = Filled'
  BY <1>4, PrefixIsFilled DEF Filled
<1>6. Recency' = [k \in 1..n |-> tags'[replacement_info'[k]]]
  BY <1>2, <1>5 DEF Recency
<1>7. R = [k \in 1..n |-> tags[replacement_info[k]]] /\ R \in Seq(Tags) /\ Len(R) = n
  BY RecencyIs
<1> HIDE DEF R
<1>8. n \in Nat
  BY WayNumbers DEF Prefix
<1>9. Recency' = [k \in 1..n |-> IF k = 1 THEN t ELSE IF k <= p THEN R[k - 1] ELSE R[k]]
  <2>1. ASSUME NEW k \in 1..n
        PROVE  tags'[replacement_info'[k]] = IF k = 1 THEN t ELSE IF k <= p THEN R[k - 1] ELSE R[k]
    <3>1. k # 1 => k - 1 \in 1..n
      BY <1>8
    <3>2. R[k] = tags[replacement_info[k]] /\ (k # 1 => R[k - 1] = tags[replacement_info[k - 1]])
      BY <1>7, <3>1
    <3> QED
      BY <1>4, <3>2
  <2> QED
    BY <1>6, <2>1
<1>10. Recency' = <<t>> \o SubSeq(R, 1, p - 1) \o SubSeq(R, p + 1, Len(R))
  <2>1. R \in Seq(Tags) /\ p \in 1..Len(R)
    BY <1>4, <1>7
  <2>2. \A k \in 1..n : (k # 1 => R[k - 1] \in Tags) /\ R[k] \in Tags
    <3>1. R \in Seq(Tags) /\ Len(R) = n
      BY <1>7
    <3> QED
      BY <1>8, <3>1
  <2>3. Recency' \in Seq(Tags) /\ Len(Recency') = n
    BY <1>8, <1>9, <2>2
  <2>4. \A k \in 1..n : Recency'[k] = IF k = 1 THEN t ELSE IF k <= p THEN R[k - 1] ELSE R[k]
    BY <1>9
  <2>5. Len(R) = n
    BY <1>7
  <2>6. \A k \in 1..Len(R) :
           Recency'[k] = IF k = 1 THEN t ELSE IF k <= p THEN R[k - 1] ELSE R[k]
    BY <2>4, <2>5
  <2> HIDE DEF R
  <2> DEFINE f == Recency'
  <2>7. f \in Seq(Tags) /\ Len(f) = Len(R)
    BY <2>3, <2>5
  <2>8. \A k \in 1..Len(R) : f[k] = IF k = 1 THEN t ELSE IF k <= p THEN R[k - 1] ELSE R[k]
    BY <2>6
  <2> HIDE DEF f
  <2>9. f = <<t>> \o SubSeq(R, 1, p - 1) \o SubSeq(R, p + 1, Len(R))
    BY <2>1, <2>7, <2>8, MovedToFront
  <2> QED
    BY <2>9 DEF f
<1>11. R[p] = t /\ p \in 1..Len(R)
  BY <1>1, <1>4, <1>7
<1> QED
  BY <1>4, <1>10, <1>11 DEF Abs!Use, R

\* A write is Insert of LRUSet: the last way of the list is not valid, or it is
\* that of the oldest tag.
LEMMA WriteIsInsert ==
    ASSUME Careful, IInv, policy = "LRU", NEW n, Prefix(replacement_info, tags, n),
           NEW t \in Tags, Write(t)
    PROVE  (\E m \in 0..ways : Prefix(replacement_info', tags', m)) /\ Abs!Insert(t)
<1> DEFINE w == replacement_info[ways]
           m == IF n = ways THEN ways ELSE n + 1
           R == Recency
<1>1. Permutes(replacement_info) /\ tags \in [Way -> Tags \cup {NoTag}] /\ t # NoTag
  BY TagAssumption DEF IInv, Types, InfoOK, TypeOK
<1>2. w \in Way
  BY <1>1, WayNumbers DEF Permutes
<1>3. /\ replacement_info' = lru_touch(replacement_info, w) /\ policy' = policy
      /\ tags' = [tags EXCEPT ![w] = t] /\ t \notin DOMAIN lookup_helper
  BY DEF Write, touch, victim, lru_victim, read_no_touch
<1>4. tags'[w] = t /\ \A x \in Way : x # w => tags'[x] = tags[x]
  BY <1>1, <1>2, <1>3
<1>5. n \in 0..ways /\ \A k \in 1..n : k \in 1..ways
  BY WayNumbers DEF Prefix
<1>6. m \in 1..ways /\ (n = ways => m = ways) /\ (n # ways => m = n + 1)
  BY <1>5, WayNumbers
<1> HIDE DEF w, m
<1>7. /\ Prefix(replacement_info', tags', m)
      /\ \A k \in 1..m : tags'[replacement_info'[k]] =
           IF k = 1 THEN t ELSE tags[replacement_info[k - 1]]
  <2>1. /\ tags'[replacement_info[ways]] = t
        /\ \A x \in Way : x # replacement_info[ways] => tags'[x] = tags[x]
    BY <1>4 DEF w
  <2>2. IF n = ways THEN m = ways ELSE m = n + 1
    BY <1>6
  <2>3. m \in 1..ways /\ t # NoTag /\ Permutes(replacement_info)
    BY <1>1, <1>6
  <2>4. /\ Prefix(lru_touch(replacement_info, replacement_info[ways]), tags', m)
        /\ \A k \in 1..m : tags'[lru_touch(replacement_info, replacement_info[ways])[k]] =
             IF k = 1 THEN t ELSE tags[replacement_info[k - 1]]
    BY <2>1, <2>2, <2>3, PrefixWritten
  <2> QED
    BY <1>3, <2>4 DEF w
<1>8. m = Filled'
  BY <1>7, PrefixIsFilled DEF Filled
<1>9. Recency' = [k \in 1..m |-> tags'[replacement_info'[k]]]
  BY <1>3, <1>8 DEF Recency
<1>10. R = [k \in 1..n |-> tags[replacement_info[k]]] /\ R \in Seq(Tags) /\ Len(R) = n
  BY RecencyIs
<1> HIDE DEF R
<1>11. t \notin {R[k] : k \in 1..Len(R)}
  <2> SUFFICES ASSUME NEW k \in 1..n, R[k] = t PROVE FALSE
    BY <1>10
  <2>1. replacement_info[k] \in Way /\ tags[replacement_info[k]] = t
    BY <1>1, <1>5, <1>10 DEF Permutes
  <2> QED
    BY <1>1, <1>3, <2>1 DEF IInv, LookupFindsTags
<1>12. \A k \in 1..m : k # 1 => k - 1 \in 1..n
  BY <1>5, <1>6, WayNumbers
<1>13. Recency' = [k \in 1..m |-> IF k = 1 THEN t ELSE R[k - 1]]
  BY <1>7, <1>9, <1>10, <1>12
<1>14. CASE n = ways
  <2>1. m = (ways - 1) + 1 /\ ways - 1 \in 0..Len(R)
    BY <1>6, <1>10, <1>14, WayNumbers
  <2>2. Recency' = <<t>> \o SubSeq(R, 1, ways - 1)
    BY <1>10, <1>13, <2>1, PutInFront
  <2> QED
    BY <1>6, <1>7, <1>10, <1>11, <1>14, <2>2, WayNumbers DEF Abs!Insert, Abs!Held, R
<1>15. CASE n # ways
  <2>1. m = n + 1 /\ n \in 0..Len(R)
    BY <1>5, <1>6, <1>10, <1>15
  <2>2. Recency' = <<t>> \o SubSeq(R, 1, n)
    BY <1>10, <1>13, <2>1, PutInFront
  <2>3. SubSeq(R, 1, n) = R
    <3>1. R \in Seq(Tags) /\ Len(R) = n
      BY <1>10
    <3> QED
      BY <3>1
  <2>4. Recency' = <<t>> \o R /\ Len(R) # ways
    BY <1>10, <1>15, <2>2, <2>3
  <2>5. \E i \in 0..ways : Prefix(replacement_info', tags', i)
    BY <1>6, <1>7
  <2> QED
    BY <1>11, <2>4, <2>5 DEF Abs!Insert, Abs!Held, R
<1> QED
  BY <1>14, <1>15

\* The invariant of the refinement: with LRU the ways that were never written are
\* the last ones of the list.
LInv == IInv /\ (policy = "LRU" => \E n \in 0..ways : Prefix(replacement_info, tags, n))

\* For every number of ways and every set of tags: the tags, the hash table and
\* the list of a set with LRU are the tags that were used last, and a set that is
\* not full evicts nothing (ImplementsLRUSet).
THEOREM TagSetLRU ==
    ASSUME Careful
    PROVE  Spec => ImplementsLRUSet
<1>1. ASSUME Init PROVE LInv /\ (policy = "LRU" => Abs!Init)
  <2>1. ASSUME policy = "LRU" PROVE Prefix(replacement_info, tags, 0)
    <3>1. \A k \in 1..ways : replacement_info[k] \in Way
      BY <1>1, <2>1, FirstList DEF Init, replacement_at_first, Permutes
    <3>2. tags = [w \in Way |-> NoTag]
      BY <1>1 DEF Init
    <3> QED
      BY <3>1, <3>2, WayNumbers DEF Prefix
  <2>2. LInv
    BY <1>1, <2>1, InitInv, WayNumbers DEF LInv
  <2>3. ASSUME policy = "LRU" PROVE Recency = <<>>
    <3>1. Recency \in Seq(Tags) /\ Len(Recency) = 0
      BY <2>1, <2>2, <2>3, RecencyIs DEF LInv
    <3> QED
      BY <3>1
  <2> QED
    BY <2>2, <2>3 DEF Abs!Init
<1>2. ASSUME LInv, [Next]_vars
      PROVE  LInv' /\ [policy = "LRU" => Abs!Next]_vars
  <2>1. ASSUME NEW t \in Tags, Read(t) \/ Write(t)
        PROVE  LInv' /\ (policy = "LRU" => Abs!Next)
    <3>1. IInv'
      BY <1>2, <2>1, ReadInv, WriteInv DEF LInv
    <3>2. policy' = policy
      BY <2>1 DEF Read, Write
    <3>3. ASSUME policy = "LRU"
          PROVE  (\E m \in 0..ways : Prefix(replacement_info', tags', m)) /\ (Abs!Use(t) \/ Abs!Insert(t))
      <4>1. PICK n \in 0..ways : Prefix(replacement_info, tags, n)
        BY <1>2, <3>3 DEF LInv
      <4> QED
        BY <1>2, <2>1, <3>3, <4>1, HitIsUse, WriteIsInsert DEF LInv
    <3>4. policy = "LRU" => Abs!Next
      BY <3>3 DEF Abs!Next
    <3> QED
      BY <3>1, <3>2, <3>3, <3>4 DEF LInv
  <2>2. CASE UNCHANGED vars
    BY <1>2, <2>2 DEF LInv, IInv, Types, TypeOK, LookupFindsTags, vars
  <2> QED
    BY <1>2, <2>1, <2>2 DEF Next
<1> QED
  BY <1>1, <1>2, PTL DEF Spec, ImplementsLRUSet
=============================================================================
