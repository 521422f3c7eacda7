--------------------------- MODULE ListUseProofs ----------------------------
(***************************************************************************)
(* Theorems about module ListUse, for any number of lists and of nodes:    *)
(* the pointers of libk/list.c implement sequences.                        *)
(*                                                                         *)
(* The module starts with what the traversals of libk/list.c come to       *)
(* (module List), for any heap of links over finitely many nodes.  Walk is *)
(* defined by recursion.  It is shown to be the one sequence of nodes that *)
(* starts at the head, follows the links and goes on until NULL or until   *)
(* it has made as many steps as there are nodes; a proof about a list then *)
(* only has to name that sequence.                                         *)
(***************************************************************************)
EXTENDS ListUse, SequenceTheorems, FiniteSetTheorems, WellFoundedInduction, TLAPS

(* A set of natural numbers that is not empty has a least element.          *)
LEMMA LeastNatural ==
    ASSUME NEW T \in SUBSET Nat, T # {}
    PROVE  \E x \in T : \A y \in T : x <= y
<1> DEFINE R == OpToRel(<, Nat)
<1>1. IsWellFoundedOn(R, Nat)
  BY NatLessThanWellFounded
<1>2. \A x, y \in Nat : <<x, y>> \in R <=> x < y
  BY DEF OpToRel
<1> HIDE DEF R
<1>3. \E x \in T : \A y \in T : ~ (<<y, x>> \in R)
  BY <1>1, WFMin
<1>4. PICK x \in T : \A y \in T : ~ (<<y, x>> \in R)
  BY <1>3
<1>5. \A y \in T : ~(y < x)
  BY <1>2, <1>4
<1>6. QED
  BY <1>5

(* Induction over the natural numbers, for the numbers in a set.            *)
LEMMA InductionOnNat ==
    ASSUME NEW S, 0 \in S, \A n \in Nat : n \in S => n + 1 \in S
    PROVE  \A n \in Nat : n \in S
<1> SUFFICES ASSUME NEW k \in Nat, k \notin S PROVE FALSE
  OBVIOUS
<1> DEFINE T == {n \in Nat : n \notin S}
<1>1. PICK x \in T : \A y \in T : x <= y
  <2>1. T \in SUBSET Nat /\ T # {}
    OBVIOUS
  <2> HIDE DEF T
  <2>2. QED
    BY <2>1, LeastNatural
<1>2. x # 0 /\ x - 1 \in Nat /\ x - 1 \notin T
  BY <1>1
<1>3. QED
  BY <1>2

(* A function on 1..n is a sequence.                                        *)
LEMMA FunctionIsSeq ==
    ASSUME NEW n \in Nat, NEW T, NEW f \in [1..n -> T]
    PROVE  f \in Seq(T) /\ Len(f) = n
OBVIOUS

-----------------------------------------------------------------------------
Pointer == Node \cup {NULL}

(* s follows the links of h from a for n steps, or until NULL.              *)
Path(h, s, n, a) ==
    /\ s \in Seq(Pointer)
    /\ Len(s) >= 1 /\ Len(s) <= n + 1
    /\ s[1] = a
    /\ \A i \in 1..(Len(s) - 1) : s[i] # NULL /\ s[i + 1] = h.next[s[i]]
    /\ Len(s) = n + 1 \/ s[Len(s)] = NULL

(* A path that begins with one more link.                                   *)
LEMMA PathStart ==
    ASSUME NEW h \in Heap, NEW n \in Nat, NEW a \in Pointer,
           n = 0 \/ a = NULL
    PROVE  Path(h, <<a>>, n, a)
BY DEF Path

LEMMA PathExtends ==
    ASSUME NEW h \in Heap, NEW n \in Nat, NEW a \in Pointer, n # 0, a # NULL,
           NEW s, Path(h, s, n - 1, h.next[a])
    PROVE  Path(h, <<a>> \o s, n, a)
<1> DEFINE t == <<a>> \o s
<1>1. /\ <<a>> \in Seq(Pointer) /\ Len(<<a>>) = 1 /\ <<a>>[1] = a
      /\ s \in Seq(Pointer) /\ Len(s) \in Nat
  BY DEF Path
<1>2. /\ t \in Seq(Pointer) /\ Len(t) = Len(s) + 1
      /\ \A i \in 1..(Len(s) + 1) : t[i] = IF i <= 1 THEN <<a>>[i] ELSE s[i - 1]
  BY <1>1, ConcatProperties
<1>3. t[1] = a /\ \A i \in 1..Len(s) : t[i + 1] = s[i]
  BY <1>1, <1>2
<1> HIDE DEF t
<1>4. ASSUME NEW i \in 1..(Len(t) - 1)
      PROVE  t[i] # NULL /\ t[i + 1] = h.next[t[i]]
  <2>1. CASE i = 1
    BY <2>1, <1>1, <1>2, <1>3 DEF Path
  <2>2. CASE i # 1
    <3>1. i - 1 \in 1..(Len(s) - 1) /\ i - 1 \in 1..Len(s) /\ i \in 1..Len(s)
      BY <2>2, <1>1, <1>2
    <3>2. t[i] = s[i - 1] /\ t[i + 1] = s[i]
      BY <3>1, <1>1, <1>3
    <3>3. s[i - 1] # NULL /\ s[i] = h.next[s[i - 1]]
      BY <3>1, <1>1 DEF Path
    <3>4. QED
      BY <3>2, <3>3
  <2>3. QED
    BY <2>1, <2>2
<1>5. Len(t) = n + 1 \/ t[Len(t)] = NULL
  BY <1>1, <1>2, <1>3 DEF Path
<1>6. QED
  BY <1>1, <1>2, <1>3, <1>4, <1>5 DEF Path, t

(* There is a path from every node, for any number of steps.                *)
LEMMA PathExists ==
    ASSUME NEW h \in Heap
    PROVE  \A n \in Nat : \A a \in Pointer : \E s : Path(h, s, n, a)
<1> DEFINE S == {n \in Nat : \A a \in Pointer : \E s : Path(h, s, n, a)}
<1>1. 0 \in S
  BY PathStart
<1>2. ASSUME NEW n \in Nat, n \in S PROVE n + 1 \in S
  <2> SUFFICES ASSUME NEW a \in Pointer PROVE \E s : Path(h, s, n + 1, a)
    OBVIOUS
  <2>1. CASE a = NULL
    <3>1. n + 1 \in Nat
      OBVIOUS
    <3>2. QED
      BY <2>1, <3>1, PathStart
  <2>2. CASE a # NULL
    <3>1. h.next[a] \in Pointer
      BY <2>2 DEF Heap, Pointer
    <3>2. PICK s : Path(h, s, n, h.next[a])
      BY <3>1, <1>2
    <3>3. Path(h, <<a>> \o s, n + 1, a)
      <4>1. n + 1 \in Nat /\ n + 1 # 0 /\ (n + 1) - 1 = n
        OBVIOUS
      <4>2. QED
        BY <4>1, <3>2, <2>2, PathExtends
    <3>4. QED
      BY <3>3
  <2>3. QED
    BY <2>1, <2>2
<1> HIDE DEF S
<1>3. \A n \in Nat : n \in S
  BY <1>1, <1>2, InductionOnNat
<1>4. QED
  BY <1>3 DEF S

(* There is only one: two of them agree wherever both are defined, and the  *)
(* shorter one would end with NULL in the middle of the longer.             *)
LEMMA PathUnique ==
    ASSUME NEW h \in Heap, NEW n \in Nat, NEW a \in Pointer,
           NEW s, NEW t, Path(h, s, n, a), Path(h, t, n, a)
    PROVE  s = t
<1>1. /\ s \in Seq(Pointer) /\ Len(s) \in Nat /\ Len(s) >= 1
      /\ t \in Seq(Pointer) /\ Len(t) \in Nat /\ Len(t) >= 1
  BY DEF Path
<1> DEFINE S == {k \in Nat : k + 1 <= Len(s) /\ k + 1 <= Len(t) => s[k + 1] = t[k + 1]}
<1>2. 0 \in S
  BY DEF Path
<1>3. ASSUME NEW k \in Nat, k \in S PROVE k + 1 \in S
  <2> SUFFICES ASSUME k + 2 <= Len(s), k + 2 <= Len(t) PROVE s[k + 2] = t[k + 2]
    BY <1>1
  <2>1. s[k + 1] = t[k + 1]
    BY <1>3, <1>1
  <2>2. k + 1 \in 1..(Len(s) - 1) /\ k + 1 \in 1..(Len(t) - 1) /\ (k + 1) + 1 = k + 2
    BY <1>1
  <2>3. s[k + 2] = h.next[s[k + 1]] /\ t[k + 2] = h.next[t[k + 1]]
    BY <2>2 DEF Path
  <2>4. QED
    BY <2>1, <2>3
<1> HIDE DEF S
<1>4. \A k \in Nat : k \in S
  BY <1>2, <1>3, InductionOnNat
<1>5. ASSUME NEW i \in Nat, i >= 1, i <= Len(s), i <= Len(t) PROVE s[i] = t[i]
  <2>1. i - 1 \in S /\ (i - 1) + 1 = i
    BY <1>4, <1>5
  <2>2. QED
    BY <2>1, <1>5 DEF S
<1>6. Len(s) = Len(t)
  <2>1. ASSUME Len(s) < Len(t) PROVE FALSE
    <3>1. s[Len(s)] = NULL
      BY <2>1, <1>1 DEF Path
    <3>2. t[Len(s)] # NULL
      BY <2>1, <1>1 DEF Path
    <3>3. QED
      BY <3>1, <3>2, <2>1, <1>1, <1>5
  <2>2. ASSUME Len(t) < Len(s) PROVE FALSE
    <3>1. t[Len(t)] = NULL
      BY <2>2, <1>1 DEF Path
    <3>2. s[Len(t)] # NULL
      BY <2>2, <1>1 DEF Path
    <3>3. QED
      BY <3>1, <3>2, <2>2, <1>1, <1>5
  <2>3. QED
    BY <2>1, <2>2, <1>1
<1>7. QED
  BY <1>1, <1>5, <1>6, SeqEqual

(* Walk is the path from the head for as many steps as there are nodes.     *)
Follow(h, f) ==
    [p \in Nat \X Pointer |->
        IF p[1] = 0 \/ p[2] = NULL THEN <<p[2]>>
        ELSE <<p[2]>> \o f[<<p[1] - 1, h.next[p[2]]>>]]

LEMMA FollowIsPath ==
    ASSUME NEW h \in Heap, NEW f, f = Follow(h, f)
    PROVE  \A n \in Nat : \A a \in Pointer : Path(h, f[<<n, a>>], n, a)
<1>1. ASSUME NEW n \in Nat, NEW a \in Pointer
      PROVE  f[<<n, a>>] = IF n = 0 \/ a = NULL THEN <<a>>
                           ELSE <<a>> \o f[<<n - 1, h.next[a]>>]
  BY DEF Follow
<1> DEFINE S == {n \in Nat : \A a \in Pointer : Path(h, f[<<n, a>>], n, a)}
<1>2. 0 \in S
  BY <1>1, PathStart
<1>3. ASSUME NEW n \in Nat, n \in S PROVE n + 1 \in S
  <2>0. n + 1 \in Nat /\ n + 1 # 0 /\ (n + 1) - 1 = n
    OBVIOUS
  <2> SUFFICES ASSUME NEW a \in Pointer PROVE Path(h, f[<<n + 1, a>>], n + 1, a)
    OBVIOUS
  <2>1. CASE a = NULL
    BY <2>0, <2>1, <1>1, PathStart
  <2>2. CASE a # NULL
    <3>1. h.next[a] \in Pointer
      BY <2>2 DEF Heap, Pointer
    <3>2. Path(h, f[<<n, h.next[a]>>], n, h.next[a])
      BY <3>1, <1>3
    <3>3. Path(h, <<a>> \o f[<<n, h.next[a]>>], n + 1, a)
      BY <2>0, <3>2, <2>2, PathExtends
    <3>4. f[<<n + 1, a>>] = <<a>> \o f[<<n, h.next[a]>>]
      BY <2>0, <2>2, <1>1
    <3>5. QED
      BY <3>3, <3>4
  <2>3. QED
    BY <2>1, <2>2
<1> HIDE DEF S
<1>4. \A n \in Nat : n \in S
  BY <1>2, <1>3, InductionOnNat
<1>5. QED
  BY <1>4 DEF S

(* The recursion has a solution, the function of the paths.                 *)
LEMMA FollowSolved ==
    ASSUME NEW h \in Heap
    PROVE  \E f : f = Follow(h, f)
<1> DEFINE g == [p \in Nat \X Pointer |-> CHOOSE s : Path(h, s, p[1], p[2])]
<1>1. ASSUME NEW n \in Nat, NEW a \in Pointer PROVE Path(h, g[<<n, a>>], n, a)
  BY PathExists
<1> DEFINE k == Follow(h, g)
<1>2. ASSUME NEW n \in Nat, NEW a \in Pointer PROVE k[<<n, a>>] = g[<<n, a>>]
  <2> DEFINE s == k[<<n, a>>]
  <2> HIDE DEF g
  <2>0. s = IF n = 0 \/ a = NULL THEN <<a>>
            ELSE <<a>> \o g[<<n - 1, h.next[a]>>]
    BY DEF Follow
  <2> HIDE DEF k, s
  <2>1. CASE n = 0 \/ a = NULL
    <3>1. s = <<a>>
      BY <2>0, <2>1
    <3>2. Path(h, s, n, a)
      BY <2>1, <3>1, PathStart
    <3>3. QED
      BY <3>2, <1>1, PathUnique DEF s
  <2>2. CASE n # 0 /\ a # NULL
    <3>1. n - 1 \in Nat /\ h.next[a] \in Pointer
      BY <2>2 DEF Heap, Pointer
    <3>2. Path(h, g[<<n - 1, h.next[a]>>], n - 1, h.next[a])
      BY <3>1, <1>1
    <3>3. Path(h, s, n, a)
      BY <2>0, <2>2, <3>2, PathExtends
    <3>4. QED
      BY <3>3, <1>1, PathUnique DEF s
  <2>3. QED
    BY <2>1, <2>2
<1>3. g = k
  <2>1. ASSUME NEW p \in Nat \X Pointer PROVE g[p] = k[p]
    <3>1. PICK n \in Nat, a \in Pointer : p = <<n, a>>
      OBVIOUS
    <3> HIDE DEF g, k
    <3>2. QED
      BY <3>1, <1>2
  <2>2. QED
    BY <2>1 DEF Follow
<1>4. QED
  BY <1>3

LEMMA WalkIsPath ==
    ASSUME IsFiniteSet(Node), NEW h \in Heap, NEW l, HeadNode(l) \in Node
    PROVE  Path(h, Walk(h, l), Cardinality(Node), HeadNode(l))
<1> DEFINE f == CHOOSE g : g = Follow(h, g)
<1>1. f = Follow(h, f)
  BY FollowSolved
<1>2. DOMAIN h.next = Node
  BY DEF Heap
<1>3. Walk(h, l) = f[<<Cardinality(Node), HeadNode(l)>>]
  BY <1>2 DEF Walk, Follow, Pointer
<1> HIDE DEF f
<1>4. Cardinality(Node) \in Nat /\ HeadNode(l) \in Pointer
  BY FS_CardinalityType DEF Pointer
<1>5. QED
  BY <1>1, <1>3, <1>4, FollowIsPath

(* So it is known as soon as such a path is.                                *)
LEMMA WalkIs ==
    ASSUME IsFiniteSet(Node), NEW h \in Heap, NEW l, HeadNode(l) \in Node,
           NEW s, Path(h, s, Cardinality(Node), HeadNode(l))
    PROVE  Walk(h, l) = s
<1>1. Cardinality(Node) \in Nat /\ HeadNode(l) \in Pointer
  BY FS_CardinalityType DEF Pointer
<1>2. QED
  BY <1>1, WalkIsPath, PathUnique

(* Where the head leads to is on the list, so list_pop takes it out.        *)
LEMMA FirstIsReached ==
    ASSUME IsFiniteSet(Node), NEW h \in Heap, NEW l, HeadNode(l) \in Node,
           h.next[HeadNode(l)] \in Node
    PROVE  Reaches(h, l, h.next[HeadNode(l)])
<1> DEFINE w == Walk(h, l)
<1>1. Path(h, w, Cardinality(Node), HeadNode(l))
  BY WalkIsPath
<1>2. Cardinality(Node) \in Nat /\ Cardinality(Node) # 0
  BY FS_CardinalityType, FS_EmptySet
<1> HIDE DEF w
<1>3. HeadNode(l) # NULL /\ h.next[HeadNode(l)] # NULL
  BY NullAssumption
<1>4. Len(w) \in Nat /\ Len(w) >= 2
  BY <1>1, <1>2, <1>3 DEF Path
<1>5. w[2] = h.next[HeadNode(l)]
  <2>1. 1 \in 1..(Len(w) - 1) /\ 1 + 1 = 2
    BY <1>4
  <2>2. QED
    BY <2>1, <1>1 DEF Path
<1>6. 2 \in 1..Len(w)
  BY <1>4
<1>7. QED
  BY <1>3, <1>5, <1>6 DEF w, Reaches, Visited

-----------------------------------------------------------------------------
(* S gives every list the sequence of its nodes.  Nd(S, l, i) is the node   *)
(* at place i of list l, the head at 0 and the tail behind the last node.   *)
Nd(S, l, i) ==
    IF i = 0 THEN HeadNode(l)
    ELSE IF i = Len(S[l]) + 1 THEN TailNode(l) ELSE S[l][i]

In(S, n) == \E l \in ListId : \E i \in 1..Len(S[l]) : S[l][i] = n

(* No node is in two places.                                                *)
Once(S) ==
    \A l, k \in ListId : \A i \in 1..Len(S[l]), j \in 1..Len(S[k]) :
        S[l][i] = S[k][j] => l = k /\ i = j

(* The links lead from place to place and back.                             *)
Joined(h, S) ==
    \A l \in ListId : \A i \in 0..Len(S[l]) :
        /\ h.next[Nd(S, l, i)] = Nd(S, l, i + 1)
        /\ h.prev[Nd(S, l, i + 1)] = Nd(S, l, i)

Ended(h) == \A l \in ListId : h.prev[HeadNode(l)] = NULL /\ h.next[TailNode(l)] = NULL

Apart(h, S) == \A n \in Item : ~In(S, n) => h.next[n] = NULL /\ h.prev[n] = NULL

Shape(h, S) ==
    /\ h \in Heap /\ S \in [ListId -> Seq(Item)]
    /\ Once(S) /\ Joined(h, S) /\ Ended(h) /\ Apart(h, S)

(* The inductive invariant: the heap has the shape of some sequences.       *)
ListInv == \E S : Shape(heap, S)

-----------------------------------------------------------------------------
LEMMA NodeFacts ==
    /\ IsFiniteSet(Node) /\ NULL \notin Node
    /\ \A l \in ListId : HeadNode(l) \in Node /\ TailNode(l) \in Node
    /\ \A l \in ListId : HeadNode(l) \notin Item /\ TailNode(l) \notin Item
    /\ \A l, k \in ListId : /\ HeadNode(l) # TailNode(k)
                            /\ HeadNode(l) = HeadNode(k) => l = k
                            /\ TailNode(l) = TailNode(k) => l = k
    /\ \A n \in Item : n \in Node
BY NodeAssumption, NullAssumption DEF AllNodes, Sentinel, HeadNode, TailNode

LEMMA SeqFacts ==
    ASSUME NEW S \in [ListId -> Seq(Item)], NEW l \in ListId
    PROVE  /\ S[l] \in Seq(Item) /\ Len(S[l]) \in Nat
           /\ \A i \in 1..Len(S[l]) : S[l][i] \in Item
<1>1. S[l] \in Seq(Item)
  OBVIOUS
<1>2. QED
  BY <1>1, LenProperties, ElementOfSeq

(* Places hold nodes, different places different nodes.                     *)
LEMMA NdType ==
    ASSUME NEW S \in [ListId -> Seq(Item)], NEW l \in ListId
    PROVE  \A i \in 0..(Len(S[l]) + 1) :
               /\ Nd(S, l, i) \in Node
               /\ i \in 1..Len(S[l]) => Nd(S, l, i) = S[l][i] /\ Nd(S, l, i) \in Item
               /\ i # 0 => Nd(S, l, i) # HeadNode(l)
<1>1. Len(S[l]) \in Nat /\ \A i \in 1..Len(S[l]) : S[l][i] \in Item
  BY SeqFacts
<1>2. SUFFICES ASSUME NEW i \in 0..(Len(S[l]) + 1)
      PROVE  /\ Nd(S, l, i) \in Node
             /\ i \in 1..Len(S[l]) => Nd(S, l, i) = S[l][i] /\ Nd(S, l, i) \in Item
             /\ i # 0 => Nd(S, l, i) # HeadNode(l)
  OBVIOUS
<1>3. CASE i = 0
  BY <1>1, <1>3, NodeFacts DEF Nd
<1>4. CASE i = Len(S[l]) + 1
  BY <1>1, <1>4, NodeFacts DEF Nd
<1>5. CASE i \in 1..Len(S[l])
  BY <1>1, <1>5, NodeFacts DEF Nd
<1>6. QED
  BY <1>1, <1>3, <1>4, <1>5

LEMMA NdDistinct ==
    ASSUME NEW S \in [ListId -> Seq(Item)], Once(S),
           NEW l \in ListId, NEW k \in ListId,
           NEW i \in 0..(Len(S[l]) + 1), NEW j \in 0..(Len(S[k]) + 1),
           Nd(S, l, i) = Nd(S, k, j)
    PROVE  l = k /\ i = j
<1>1. /\ Len(S[l]) \in Nat /\ \A x \in 1..Len(S[l]) : S[l][x] \in Item
      /\ Len(S[k]) \in Nat /\ \A x \in 1..Len(S[k]) : S[k][x] \in Item
  BY SeqFacts
<1>2. CASE i = 0
  BY <1>1, <1>2, NodeFacts DEF Nd
<1>3. CASE i = Len(S[l]) + 1
  BY <1>1, <1>3, NodeFacts DEF Nd
<1>4. CASE i \in 1..Len(S[l]) /\ j \in 1..Len(S[k])
  BY <1>1, <1>4 DEF Nd, Once
<1>5. CASE i \in 1..Len(S[l]) /\ j \notin 1..Len(S[k])
  BY <1>1, <1>5, NodeFacts DEF Nd
<1>6. QED
  BY <1>1, <1>2, <1>3, <1>4, <1>5

(* The traversal of a list that has a shape.                                *)
Full(S, l) == [i \in 1..(Len(S[l]) + 3) |-> IF i = Len(S[l]) + 3 THEN NULL ELSE Nd(S, l, i - 1)]

LEMMA ShapeWalk ==
    ASSUME NEW h, NEW S, Shape(h, S), NEW l \in ListId
    PROVE  Walk(h, l) = Full(S, l)
<1> DEFINE n == Len(S[l])
<1> DEFINE w == Full(S, l)
<1>0. S \in [ListId -> Seq(Item)] /\ h \in Heap /\ Once(S) /\ Joined(h, S) /\ Ended(h)
  BY DEF Shape
<1>1. n \in Nat
  BY <1>0, SeqFacts
<1>2. \A i \in 0..(n + 1) : Nd(S, l, i) \in Node
  BY <1>0, NdType
<1>3. n + 2 <= Cardinality(Node)
  <2> DEFINE f == [i \in 1..(n + 2) |-> Nd(S, l, i - 1)]
  <2>1. f \in [1..(n + 2) -> Node]
    BY <1>1, <1>2
  <2>2. ASSUME NEW i \in 1..(n + 2), NEW j \in 1..(n + 2), f[i] = f[j] PROVE i = j
    <3>1. i - 1 \in 0..(n + 1) /\ j - 1 \in 0..(n + 1)
      BY <1>1
    <3>2. Nd(S, l, i - 1) = Nd(S, l, j - 1)
      BY <2>2
    <3>3. i - 1 = j - 1
      BY <1>0, <3>1, <3>2, NdDistinct
    <3>4. QED
      BY <3>3, <1>1
  <2>3. f \in Injection(1..(n + 2), Node)
    BY <2>1, <2>2 DEF Injection, IsInjective
  <2>4. Cardinality(1..(n + 2)) <= Cardinality(Node)
    BY <2>3, NodeFacts, FS_Injection
  <2>5. Cardinality(1..(n + 2)) = n + 2
    <3>1. 1 \in Int /\ n + 2 \in Int /\ ~(1 > n + 2) /\ (n + 2) - 1 + 1 = n + 2
      BY <1>1
    <3>2. Cardinality(1..(n + 2)) = IF 1 > n + 2 THEN 0 ELSE (n + 2) - 1 + 1
      BY <3>1, FS_Interval
    <3>3. QED
      BY <3>1, <3>2
  <2>6. QED
    BY <2>4, <2>5
<1>4. \A i \in 1..(n + 3) : w[i] \in Pointer
  BY <1>1, <1>2 DEF Full, Pointer
<1>5. w \in Seq(Pointer) /\ Len(w) = n + 3
  <2>1. n + 3 \in Nat /\ w \in [1..(n + 3) -> Pointer]
    BY <1>1, <1>2 DEF Full, Pointer
  <2> HIDE DEF w, n
  <2>2. QED
    BY <2>1, FunctionIsSeq
<1>6. w[1] = HeadNode(l)
  BY <1>1 DEF Full, Nd
<1>7. ASSUME NEW i \in 1..(Len(w) - 1) PROVE w[i] # NULL /\ w[i + 1] = h.next[w[i]]
  <2>1. i \in 1..(n + 2) /\ i - 1 \in 0..(n + 1) /\ i + 1 \in 1..(n + 3) /\ i # n + 3
    BY <1>1, <1>5
  <2>2. w[i] = Nd(S, l, i - 1)
    BY <2>1, <1>1 DEF Full
  <2>3. w[i] # NULL
    BY <2>1, <2>2, <1>2, NodeFacts
  <2>4. CASE i = n + 2
    <3>1. w[i] = TailNode(l) /\ w[i + 1] = NULL
      BY <2>2, <2>4, <2>1, <1>1 DEF Full, Nd
    <3>2. QED
      BY <3>1, <2>3, <1>0 DEF Ended
  <2>5. CASE i # n + 2
    <3>1. i - 1 \in 0..n /\ (i - 1) + 1 = i /\ i + 1 # n + 3 /\ (i + 1) - 1 = i
      BY <2>1, <2>5, <1>1
    <3>2. h.next[Nd(S, l, i - 1)] = Nd(S, l, i)
      BY <3>1, <1>0 DEF Joined
    <3>3. w[i + 1] = Nd(S, l, i)
      BY <3>1, <2>1 DEF Full
    <3>4. QED
      BY <3>2, <3>3, <2>2, <2>3
  <2>6. QED
    BY <2>4, <2>5
<1>8. w[Len(w)] = NULL
  BY <1>1, <1>5 DEF Full
<1>9. Path(h, w, Cardinality(Node), HeadNode(l))
  <2>1. Cardinality(Node) \in Nat
    BY NodeFacts, FS_CardinalityType
  <2> HIDE DEF w
  <2>2. QED
    BY <2>1, <1>1, <1>3, <1>5, <1>6, <1>7, <1>8 DEF Path
<1>10. QED
  <2> HIDE DEF w
  <2>1. Walk(h, l) = w
    BY <1>0, <1>9, NodeFacts, WalkIs
  <2>2. QED
    BY <2>1 DEF w

(* What the walk says of the list.                                          *)
LEMMA ShapeReaches ==
    ASSUME NEW h, NEW S, Shape(h, S), NEW l \in ListId
    PROVE  /\ \A a : Reaches(h, l, a) <=> \E i \in 0..(Len(S[l]) + 1) : a = Nd(S, l, i)
           /\ Ends(h, l)
<1>0. S \in [ListId -> Seq(Item)]
  BY DEF Shape
<1>1. Len(S[l]) \in Nat
  BY <1>0, SeqFacts
<1>2. \A i \in 0..(Len(S[l]) + 1) : Nd(S, l, i) \in Node /\ Nd(S, l, i) # NULL
  BY <1>0, NdType, NodeFacts
<1> DEFINE w == Full(S, l)
<1>3. Walk(h, l) = w
  BY ShapeWalk
<1>4. /\ Len(w) = Len(S[l]) + 3
      /\ w[Len(S[l]) + 3] = NULL
      /\ \A i \in 0..(Len(S[l]) + 1) : w[i + 1] = Nd(S, l, i)
  BY <1>1 DEF Full
<1> HIDE DEF w
<1>5. ASSUME NEW a, NEW i \in 0..(Len(S[l]) + 1), a = Nd(S, l, i) PROVE Reaches(h, l, a)
  <2>1. i + 1 \in 1..Len(w) /\ w[i + 1] = a /\ a # NULL
    BY <1>1, <1>2, <1>4, <1>5
  <2>2. QED
    BY <2>1, <1>3 DEF Reaches, Visited
<1>6. ASSUME NEW a, Reaches(h, l, a) PROVE \E i \in 0..(Len(S[l]) + 1) : a = Nd(S, l, i)
  <2>1. PICK i \in 1..Len(w) : w[i] = a /\ a # NULL
    BY <1>3, <1>6 DEF Reaches, Visited
  <2>2. i - 1 \in 0..(Len(S[l]) + 1) /\ (i - 1) + 1 = i
    BY <2>1, <1>1, <1>4
  <2>3. QED
    BY <2>1, <2>2, <1>4
<1>7. Ends(h, l)
  BY <1>3, <1>4 DEF Ends
<1>8. QED
  BY <1>5, <1>6, <1>7

LEMMA ShapeElements ==
    ASSUME NEW h, NEW S, Shape(h, S), NEW l \in ListId
    PROVE  /\ SubSeq(Walk(h, l), 2, Len(Walk(h, l)) - 2) = S[l]
           /\ list_size(h, l) = Len(S[l])
<1>0. S \in [ListId -> Seq(Item)]
  BY DEF Shape
<1>1. S[l] \in Seq(Item) /\ Len(S[l]) \in Nat /\ \A i \in 1..Len(S[l]) : S[l][i] \in Item
  BY <1>0, SeqFacts
<1> DEFINE w == Full(S, l)
<1> DEFINE m == Len(S[l]) + 1
<1>2. Walk(h, l) = w
  BY ShapeWalk
<1>3. Len(w) = Len(S[l]) + 3 /\ \A i \in 1..Len(S[l]) : w[i + 1] = S[l][i]
  BY <1>1 DEF Full, Nd
<1> HIDE DEF w
<1>4. \A i \in 2..m : w[i] \in Item
  <2> TAKE i \in 2..m
  <2>1. i - 1 \in 1..Len(S[l]) /\ (i - 1) + 1 = i
    BY <1>1
  <2>2. QED
    BY <2>1, <1>1, <1>3
<1>5. 2 \in Int /\ m \in Int /\ Len(w) - 2 = m /\ m - 2 + 1 = Len(S[l])
  BY <1>1, <1>3
<1> HIDE DEF m
<1>6. /\ SubSeq(w, 2, m) \in Seq(Item)
      /\ Len(SubSeq(w, 2, m)) = IF 2 <= m THEN m - 2 + 1 ELSE 0
      /\ \A i \in 1..(m - 2 + 1) : SubSeq(w, 2, m)[i] = w[2 + i - 1]
  BY <1>4, <1>5, SubSeqProperties
<1>7. Len(SubSeq(w, 2, m)) = Len(S[l])
  BY <1>1, <1>5, <1>6
<1>8. ASSUME NEW i \in 1..Len(S[l]) PROVE SubSeq(w, 2, m)[i] = S[l][i]
  <2>1. 2 + i - 1 = i + 1
    BY <1>1
  <2>2. QED
    BY <2>1, <1>3, <1>5, <1>6
<1>9. SubSeq(w, 2, m) = S[l]
  BY <1>1, <1>6, <1>7, <1>8, SeqEqual
<1>10. QED
  BY <1>1, <1>2, <1>3, <1>5, <1>9 DEF list_size

-----------------------------------------------------------------------------
(* The node at a place is not one that is in no list.                       *)
LEMMA NotAPlace ==
    ASSUME NEW S \in [ListId -> Seq(Item)], NEW n \in Item, ~In(S, n),
           NEW m \in ListId, NEW i \in 0..(Len(S[m]) + 1)
    PROVE  Nd(S, m, i) # n
<1>1. Len(S[m]) \in Nat
  BY SeqFacts
<1>2. QED
  BY <1>1, NodeFacts DEF Nd, In

(* A node linked in between places k and k + 1: the sequence s and the heap *)
(* g that come of it.                                                       *)
SplicedSeq(S, l, k, n, s) ==
    /\ s \in Seq(Item) /\ Len(s) = Len(S[l]) + 1
    /\ \A i \in 1..Len(s) :
           s[i] = IF i <= k THEN S[l][i] ELSE IF i = k + 1 THEN n ELSE S[l][i - 1]
SplicedHeap(h, a, b, n, g) ==
    /\ g \in Heap
    /\ \A x \in Node : g.next[x] = IF x = a THEN n ELSE IF x = n THEN b ELSE h.next[x]
    /\ \A x \in Node : g.prev[x] = IF x = b THEN n ELSE IF x = n THEN a ELSE h.prev[x]

LEMMA SpliceShape ==
    ASSUME NEW h, NEW S, Shape(h, S),
           NEW l \in ListId, NEW k \in 0..Len(S[l]), NEW n \in Item, ~In(S, n),
           NEW s, SplicedSeq(S, l, k, n, s),
           NEW g, SplicedHeap(h, Nd(S, l, k), Nd(S, l, k + 1), n, g)
    PROVE  Shape(g, [S EXCEPT ![l] = s])
<1> USE DEF SplicedSeq, SplicedHeap
<1> DEFINE T == [S EXCEPT ![l] = s]
<1>0. h \in Heap /\ S \in [ListId -> Seq(Item)] /\ Once(S) /\ Joined(h, S) /\ Ended(h) /\ Apart(h, S)
  BY DEF Shape
<1>1. \A m \in ListId : Len(S[m]) \in Nat
  BY <1>0, SeqFacts
<1>2. T \in [ListId -> Seq(Item)] /\ T[l] = s /\ \A m \in ListId : m # l => T[m] = S[m]
  BY <1>0
<1> HIDE DEF T
<1>3. ASSUME NEW m \in ListId, m # l PROVE \A i : Nd(T, m, i) = Nd(S, m, i)
  BY <1>2, <1>3 DEF Nd
<1>4. ASSUME NEW i \in 0..(Len(s) + 1)
      PROVE  Nd(T, l, i) = IF i <= k THEN Nd(S, l, i)
                           ELSE IF i = k + 1 THEN n ELSE Nd(S, l, i - 1)
  <2>1. k \in Nat /\ i \in Nat /\ Len(S[l]) \in Nat
    BY <1>1
  <2>2. CASE i = 0
    BY <2>1, <2>2 DEF Nd
  <2>3. CASE i = Len(s) + 1
    BY <2>1, <2>3, <1>2 DEF Nd
  <2>4. CASE i \in 1..Len(s)
    <3>1. Nd(T, l, i) = s[i]
      BY <2>1, <2>4, <1>2 DEF Nd
    <3>2. QED
      BY <2>1, <2>4, <3>1 DEF Nd
  <2>5. QED
    BY <2>1, <2>2, <2>3, <2>4
<1>5. \A m \in ListId : \A i \in 0..(Len(S[m]) + 1) :
          Nd(S, m, i) \in Node /\ Nd(S, m, i) # n
  BY <1>0, NdType, NotAPlace
<1>6. \A m \in ListId : \A i \in 0..(Len(S[m]) + 1) : \A j \in 0..(Len(S[l]) + 1) :
          Nd(S, m, i) = Nd(S, l, j) => m = l /\ i = j
  BY <1>0, NdDistinct
<1>7. n \in Node
  BY NodeFacts
<1>8. Once(T)
  <2>1. ASSUME NEW i \in 1..Len(s), NEW j \in 1..Len(s), s[i] = s[j] PROVE i = j
    <3> DEFINE old(x) == IF x <= k THEN x ELSE x - 1
    <3>0. k \in Nat /\ Len(S[l]) \in Nat
      BY <1>1
    <3>1. ASSUME NEW x \in 1..Len(s), x # k + 1
          PROVE  old(x) \in 1..Len(S[l]) /\ s[x] = S[l][old(x)]
      BY <3>0, <3>1
    <3>2. \A x \in 1..Len(S[l]) : S[l][x] # n
      BY DEF In
    <3>3. \A x, y \in 1..Len(S[l]) : S[l][x] = S[l][y] => x = y
      BY <1>0 DEF Once
    <3>4. CASE i = k + 1 /\ j # k + 1
      <4>1. s[i] = n
        BY <3>0, <3>4
      <4>2. QED
        BY <4>1, <3>1, <3>2, <3>4, <2>1
    <3>5. CASE i # k + 1 /\ j = k + 1
      <4>1. s[j] = n
        BY <3>0, <3>5
      <4>2. QED
        BY <4>1, <3>1, <3>2, <3>5, <2>1
    <3>6. CASE i # k + 1 /\ j # k + 1
      <4>0. /\ old(i) \in 1..Len(S[l]) /\ s[i] = S[l][old(i)]
            /\ old(j) \in 1..Len(S[l]) /\ s[j] = S[l][old(j)]
        BY <3>1, <3>6
      <4>1. old(i) = old(j)
        <5> HIDE DEF old
        <5>1. QED
          BY <4>0, <3>3, <2>1
      <4>2. QED
        BY <4>1, <3>0, <3>6
    <3>7. QED
      BY <3>4, <3>5, <3>6
  <2>2. ASSUME NEW m \in ListId, m # l, NEW i \in 1..Len(s), NEW j \in 1..Len(S[m])
        PROVE  s[i] # S[m][j]
    <3>1. CASE i <= k
      <4>1. i \in 1..Len(S[l]) /\ s[i] = S[l][i]
        BY <3>1, <1>1
      <4>2. QED
        BY <4>1, <2>2, <1>0 DEF Once
    <3>2. CASE i = k + 1
      BY <3>2, <2>2, <1>1 DEF In
    <3>3. CASE i > k + 1
      <4>1. i - 1 \in 1..Len(S[l]) /\ s[i] = S[l][i - 1]
        BY <3>3, <1>1
      <4>2. QED
        BY <4>1, <2>2, <1>0 DEF Once
    <3>4. QED
      BY <3>1, <3>2, <3>3, <1>1
  <2>3. ASSUME NEW m \in ListId, NEW p \in ListId, NEW i \in 1..Len(T[m]), NEW j \in 1..Len(T[p]),
               T[m][i] = T[p][j]
        PROVE  m = p /\ i = j
    <3>1. CASE m = l /\ p = l
      <4>1. T[m] = s /\ T[p] = s
        BY <3>1, <1>2
      <4>2. QED
        BY <3>1, <4>1, <2>3, <2>1
    <3>2. CASE m = l /\ p # l
      <4>1. T[m] = s /\ T[p] = S[p]
        BY <3>2, <1>2
      <4>2. i \in 1..Len(s) /\ j \in 1..Len(S[p]) /\ s[i] = S[p][j]
        BY <4>1, <2>3
      <4>3. QED
        BY <3>2, <4>2, <2>2
    <3>3. CASE m # l /\ p = l
      <4>1. T[m] = S[m] /\ T[p] = s
        BY <3>3, <1>2
      <4>2. QED
        BY <3>3, <4>1, <2>3, <2>2
    <3>4. CASE m # l /\ p # l
      BY <3>4, <2>3, <1>0, <1>2 DEF Once
    <3>5. QED
      BY <3>1, <3>2, <3>3, <3>4
  <2>4. QED
    BY <2>3 DEF Once
<1>9. Joined(g, T)
  <2> SUFFICES ASSUME NEW m \in ListId, NEW i \in 0..Len(T[m])
               PROVE  /\ g.next[Nd(T, m, i)] = Nd(T, m, i + 1)
                      /\ g.prev[Nd(T, m, i + 1)] = Nd(T, m, i)
    BY DEF Joined
  <2>1. CASE m # l
    <3>1. i \in 0..Len(S[m]) /\ i \in 0..(Len(S[m]) + 1) /\ i + 1 \in 0..(Len(S[m]) + 1)
      BY <2>1, <1>1, <1>2
    <3>2. k \in 0..(Len(S[l]) + 1) /\ k + 1 \in 0..(Len(S[l]) + 1)
      BY <1>1
    <3>3. h.next[Nd(S, m, i)] = Nd(S, m, i + 1) /\ h.prev[Nd(S, m, i + 1)] = Nd(S, m, i)
      BY <3>1, <1>0 DEF Joined
    <3>4. /\ Nd(S, m, i) # Nd(S, l, k) /\ Nd(S, m, i) # n
          /\ Nd(S, m, i + 1) # Nd(S, l, k + 1) /\ Nd(S, m, i + 1) # n
          /\ Nd(S, m, i) \in Node /\ Nd(S, m, i + 1) \in Node
      BY <2>1, <3>1, <3>2, <1>5, <1>6
    <3>5. QED
      BY <2>1, <3>3, <3>4, <1>3
  <2>2. CASE m = l
    <3>0. i \in 0..(Len(S[l]) + 1) /\ i \in 0..(Len(s) + 1) /\ i + 1 \in 0..(Len(s) + 1)
          /\ k \in 0..(Len(S[l]) + 1) /\ k + 1 \in 0..(Len(S[l]) + 1) /\ k \in Nat
          /\ i \in Nat /\ Len(S[l]) \in Nat
      BY <2>2, <1>1, <1>2
    <3>1. CASE i < k
      <4>1. Nd(T, l, i) = Nd(S, l, i) /\ Nd(T, l, i + 1) = Nd(S, l, i + 1)
        BY <3>0, <3>1, <1>4
      <4>2. i \in 0..Len(S[l]) /\ i + 1 \in 0..(Len(S[l]) + 1) /\ i # k /\ i + 1 # k + 1
        BY <3>0, <3>1
      <4>3. h.next[Nd(S, l, i)] = Nd(S, l, i + 1) /\ h.prev[Nd(S, l, i + 1)] = Nd(S, l, i)
        BY <4>2, <1>0 DEF Joined
      <4>4. /\ Nd(S, l, i) # Nd(S, l, k) /\ Nd(S, l, i) # n /\ Nd(S, l, i) \in Node
            /\ Nd(S, l, i + 1) # Nd(S, l, k + 1) /\ Nd(S, l, i + 1) # n /\ Nd(S, l, i + 1) \in Node
        BY <3>0, <4>2, <1>5, <1>6
      <4>5. QED
        BY <2>2, <4>1, <4>3, <4>4
    <3>2. CASE i = k
      <4>1. Nd(T, l, i) = Nd(S, l, k) /\ Nd(T, l, i + 1) = n
        BY <3>0, <3>2, <1>4
      <4>2. n # Nd(S, l, k + 1) /\ Nd(S, l, k) \in Node
        BY <3>0, <1>5
      <4>3. QED
        BY <2>2, <4>1, <4>2, <1>7
    <3>3. CASE i = k + 1
      <4>1. Nd(T, l, i) = n /\ Nd(T, l, i + 1) = Nd(S, l, k + 1)
        BY <3>0, <3>3, <1>4
      <4>2. n # Nd(S, l, k) /\ Nd(S, l, k + 1) \in Node
        BY <3>0, <1>5
      <4>3. QED
        BY <2>2, <4>1, <4>2, <1>7
    <3>4. CASE i > k + 1
      <4>1. Nd(T, l, i) = Nd(S, l, i - 1) /\ Nd(T, l, i + 1) = Nd(S, l, i)
        BY <3>0, <3>4, <1>4
      <4>2. i - 1 \in 0..Len(S[l]) /\ i - 1 \in 0..(Len(S[l]) + 1) /\ (i - 1) + 1 = i /\ i - 1 # k /\ i # k + 1
        BY <3>0, <3>4, <2>2, <1>2
      <4>3. h.next[Nd(S, l, i - 1)] = Nd(S, l, i) /\ h.prev[Nd(S, l, i)] = Nd(S, l, i - 1)
        BY <4>2, <1>0 DEF Joined
      <4>4. /\ Nd(S, l, i - 1) # Nd(S, l, k) /\ Nd(S, l, i - 1) # n /\ Nd(S, l, i - 1) \in Node
            /\ Nd(S, l, i) # Nd(S, l, k + 1) /\ Nd(S, l, i) # n /\ Nd(S, l, i) \in Node
        BY <3>0, <4>2, <1>5, <1>6
      <4>5. QED
        BY <2>2, <4>1, <4>3, <4>4
    <3>5. QED
      BY <3>0, <3>1, <3>2, <3>3, <3>4
  <2>3. QED
    BY <2>1, <2>2
<1>10. Ended(g)
  <2> SUFFICES ASSUME NEW m \in ListId
               PROVE  g.prev[HeadNode(m)] = NULL /\ g.next[TailNode(m)] = NULL
    BY DEF Ended
  <2>1. HeadNode(m) = Nd(S, m, 0) /\ TailNode(m) = Nd(S, m, Len(S[m]) + 1)
    BY <1>1 DEF Nd
  <2>2. /\ 0 \in 0..(Len(S[m]) + 1) /\ Len(S[m]) + 1 \in 0..(Len(S[m]) + 1)
        /\ k \in 0..(Len(S[l]) + 1) /\ k + 1 \in 0..(Len(S[l]) + 1) /\ 0 # k + 1
        /\ m = l => Len(S[m]) + 1 # k
    BY <1>1
  <2>3. HeadNode(m) # Nd(S, l, k + 1) /\ TailNode(m) # Nd(S, l, k)
    <3>1. HeadNode(m) # Nd(S, l, k + 1)
      BY <2>1, <2>2, <1>6
    <3>2. ASSUME Nd(S, m, Len(S[m]) + 1) = Nd(S, l, k) PROVE FALSE
      <4>1. m = l /\ Len(S[m]) + 1 = k
        BY <3>2, <2>2, <1>6
      <4>2. QED
        BY <4>1, <2>2
    <3>3. QED
      BY <3>1, <3>2, <2>1
  <2>4. HeadNode(m) # n /\ TailNode(m) # n /\ HeadNode(m) \in Node /\ TailNode(m) \in Node
    BY NodeFacts
  <2>5. QED
    BY <2>3, <2>4, <1>0 DEF Ended
<1>11. Apart(g, T)
  <2> SUFFICES ASSUME NEW x \in Item, ~In(T, x)
               PROVE  g.next[x] = NULL /\ g.prev[x] = NULL
    BY DEF Apart
  <2>1. x # n
    <3>1. k + 1 \in 1..Len(s) /\ s[k + 1] = n
      BY <1>1
    <3>2. QED
      BY <3>1, <1>2 DEF In
  <2>2. ~In(S, x)
    <3>1. ASSUME NEW m \in ListId, NEW i \in 1..Len(S[m]), S[m][i] = x PROVE FALSE
      <4>1. CASE m # l
        BY <4>1, <3>1, <1>2 DEF In
      <4>2. CASE m = l
        <5>1. \E j \in 1..Len(s) : s[j] = x
          <6>1. CASE i <= k
            <7>1. i \in 1..Len(s) /\ s[i] = x
              BY <6>1, <4>2, <3>1, <1>1
            <7>2. QED
              BY <7>1
          <6>2. CASE i > k
            <7>1. i + 1 \in 1..Len(s) /\ s[i + 1] = x
              BY <6>2, <4>2, <3>1, <1>1
            <7>2. QED
              BY <7>1
          <6>3. QED
            BY <6>1, <6>2, <1>1
        <5>2. QED
          BY <5>1, <1>2 DEF In
      <4>3. QED
        BY <4>1, <4>2
    <3>2. QED
      BY <3>1 DEF In
  <2>3. x # Nd(S, l, k) /\ x # Nd(S, l, k + 1)
    <3>1. k \in 0..(Len(S[l]) + 1) /\ k + 1 \in 0..(Len(S[l]) + 1)
      BY <1>1
    <3>2. QED
      BY <2>2, <3>1, <1>0, NotAPlace
  <2>4. x \in Node
    BY NodeFacts
  <2>5. QED
    BY <2>1, <2>2, <2>3, <2>4, <1>0 DEF Apart
<1>12. QED
  BY <1>2, <1>8, <1>9, <1>10, <1>11 DEF Shape, T

(* The node at place k taken out.                                           *)
CutSeq(S, l, k, s) ==
    /\ s \in Seq(Item) /\ Len(s) = Len(S[l]) - 1
    /\ \A i \in 1..Len(s) : s[i] = IF i < k THEN S[l][i] ELSE S[l][i + 1]
CutHeap(h, a, b, n, g) ==
    /\ g \in Heap
    /\ \A x \in Node : g.next[x] = IF x = a THEN b ELSE IF x = n THEN NULL ELSE h.next[x]
    /\ \A x \in Node : g.prev[x] = IF x = b THEN a ELSE IF x = n THEN NULL ELSE h.prev[x]

LEMMA UnspliceShape ==
    ASSUME NEW h, NEW S, Shape(h, S),
           NEW l \in ListId, NEW k \in 1..Len(S[l]),
           NEW s, CutSeq(S, l, k, s),
           NEW g, CutHeap(h, Nd(S, l, k - 1), Nd(S, l, k + 1), Nd(S, l, k), g)
    PROVE  Shape(g, [S EXCEPT ![l] = s])
<1> USE DEF CutSeq, CutHeap
<1> DEFINE T == [S EXCEPT ![l] = s]
<1>0. h \in Heap /\ S \in [ListId -> Seq(Item)] /\ Once(S) /\ Joined(h, S) /\ Ended(h) /\ Apart(h, S)
  BY DEF Shape
<1>1. \A m \in ListId : Len(S[m]) \in Nat
  BY <1>0, SeqFacts
<1>2. T \in [ListId -> Seq(Item)] /\ T[l] = s /\ \A m \in ListId : m # l => T[m] = S[m]
  BY <1>0
<1> HIDE DEF T
<1>3. ASSUME NEW m \in ListId, m # l PROVE \A i : Nd(T, m, i) = Nd(S, m, i)
  BY <1>2, <1>3 DEF Nd
<1>4. ASSUME NEW i \in 0..(Len(s) + 1)
      PROVE  Nd(T, l, i) = IF i < k THEN Nd(S, l, i) ELSE Nd(S, l, i + 1)
  <2>1. k \in Nat /\ k > 0 /\ i \in Nat /\ Len(S[l]) \in Nat
    BY <1>1
  <2>2. CASE i = 0
    BY <2>1, <2>2 DEF Nd
  <2>3. CASE i = Len(s) + 1
    BY <2>1, <2>3, <1>2 DEF Nd
  <2>4. CASE i \in 1..Len(s)
    <3>1. Nd(T, l, i) = s[i]
      BY <2>1, <2>4, <1>2 DEF Nd
    <3>2. QED
      BY <2>1, <2>4, <3>1 DEF Nd
  <2>5. QED
    BY <2>1, <2>2, <2>3, <2>4
<1>5. \A m \in ListId : \A i \in 0..(Len(S[m]) + 1) : Nd(S, m, i) \in Node
  BY <1>0, NdType
<1>6. \A m \in ListId : \A i \in 0..(Len(S[m]) + 1) : \A j \in 0..(Len(S[l]) + 1) :
          Nd(S, m, i) = Nd(S, l, j) => m = l /\ i = j
  BY <1>0, NdDistinct
<1>7. /\ k - 1 \in 0..(Len(S[l]) + 1) /\ k \in 0..(Len(S[l]) + 1)
      /\ k + 1 \in 0..(Len(S[l]) + 1) /\ k \in Nat /\ k - 1 # k + 1 /\ k + 1 # 0
      /\ Len(S[l]) \in Nat
  BY <1>1
<1>8. Once(T)
  <2> DEFINE old(x) == IF x < k THEN x ELSE x + 1
  <2>0. ASSUME NEW x \in 1..Len(s)
        PROVE  old(x) \in 1..Len(S[l]) /\ s[x] = S[l][old(x)]
    BY <1>7
  <2>1. ASSUME NEW i \in 1..Len(s), NEW j \in 1..Len(s), s[i] = s[j] PROVE i = j
    <3>1. old(i) = old(j)
      <4>1. /\ old(i) \in 1..Len(S[l]) /\ s[i] = S[l][old(i)]
            /\ old(j) \in 1..Len(S[l]) /\ s[j] = S[l][old(j)]
        BY <2>0
      <4>2. \A x, y \in 1..Len(S[l]) : S[l][x] = S[l][y] => x = y
        BY <1>0 DEF Once
      <4> HIDE DEF old
      <4>3. QED
        BY <4>1, <4>2, <2>1
    <3>2. QED
      BY <3>1, <1>7
  <2>2. ASSUME NEW m \in ListId, m # l, NEW i \in 1..Len(s), NEW j \in 1..Len(S[m])
        PROVE  s[i] # S[m][j]
    <3>1. old(i) \in 1..Len(S[l]) /\ s[i] = S[l][old(i)]
      BY <2>0
    <3> HIDE DEF old
    <3>2. QED
      BY <3>1, <2>2, <1>0 DEF Once
  <2>3. ASSUME NEW m \in ListId, NEW p \in ListId, NEW i \in 1..Len(T[m]), NEW j \in 1..Len(T[p]),
               T[m][i] = T[p][j]
        PROVE  m = p /\ i = j
    <3>1. CASE m = l /\ p = l
      <4>1. T[m] = s /\ T[p] = s
        BY <3>1, <1>2
      <4>2. QED
        BY <3>1, <4>1, <2>3, <2>1
    <3>2. CASE m = l /\ p # l
      <4>1. T[m] = s /\ T[p] = S[p]
        BY <3>2, <1>2
      <4>2. i \in 1..Len(s) /\ j \in 1..Len(S[p]) /\ s[i] = S[p][j]
        BY <4>1, <2>3
      <4>3. QED
        BY <3>2, <4>2, <2>2
    <3>3. CASE m # l /\ p = l
      <4>1. T[m] = S[m] /\ T[p] = s
        BY <3>3, <1>2
      <4>2. j \in 1..Len(s) /\ i \in 1..Len(S[m]) /\ s[j] = S[m][i]
        BY <4>1, <2>3
      <4>3. QED
        BY <3>3, <4>2, <2>2
    <3>4. CASE m # l /\ p # l
      BY <3>4, <2>3, <1>0, <1>2 DEF Once
    <3>5. QED
      BY <3>1, <3>2, <3>3, <3>4
  <2>4. QED
    BY <2>3 DEF Once
<1>9. Joined(g, T)
  <2> SUFFICES ASSUME NEW m \in ListId, NEW i \in 0..Len(T[m])
               PROVE  /\ g.next[Nd(T, m, i)] = Nd(T, m, i + 1)
                      /\ g.prev[Nd(T, m, i + 1)] = Nd(T, m, i)
    BY DEF Joined
  <2>1. CASE m # l
    <3>1. i \in 0..Len(S[m]) /\ i \in 0..(Len(S[m]) + 1) /\ i + 1 \in 0..(Len(S[m]) + 1)
      BY <2>1, <1>1, <1>2
    <3>2. h.next[Nd(S, m, i)] = Nd(S, m, i + 1) /\ h.prev[Nd(S, m, i + 1)] = Nd(S, m, i)
      BY <3>1, <1>0 DEF Joined
    <3>3. /\ Nd(S, m, i) # Nd(S, l, k - 1) /\ Nd(S, m, i) # Nd(S, l, k)
          /\ Nd(S, m, i + 1) # Nd(S, l, k + 1) /\ Nd(S, m, i + 1) # Nd(S, l, k)
          /\ Nd(S, m, i) \in Node /\ Nd(S, m, i + 1) \in Node
      BY <2>1, <3>1, <1>5, <1>6, <1>7
    <3>4. QED
      BY <2>1, <3>2, <3>3, <1>3
  <2>2. CASE m = l
    <3>0. /\ i \in 0..(Len(S[l]) + 1) /\ i \in 0..(Len(s) + 1) /\ i + 1 \in 0..(Len(s) + 1)
          /\ i + 1 \in 0..(Len(S[l]) + 1) /\ i \in Nat
      BY <2>2, <1>2, <1>7
    <3>1. CASE i + 1 < k
      <4>1. Nd(T, l, i) = Nd(S, l, i) /\ Nd(T, l, i + 1) = Nd(S, l, i + 1)
        BY <3>0, <3>1, <1>4, <1>7
      <4>2. i \in 0..Len(S[l]) /\ i # k /\ i # k - 1 /\ i + 1 # k + 1 /\ i + 1 # k
        BY <3>0, <3>1, <1>7
      <4>3. h.next[Nd(S, l, i)] = Nd(S, l, i + 1) /\ h.prev[Nd(S, l, i + 1)] = Nd(S, l, i)
        BY <4>2, <1>0 DEF Joined
      <4>4. /\ Nd(S, l, i) # Nd(S, l, k - 1) /\ Nd(S, l, i) # Nd(S, l, k)
            /\ Nd(S, l, i + 1) # Nd(S, l, k + 1) /\ Nd(S, l, i + 1) # Nd(S, l, k)
            /\ Nd(S, l, i) \in Node /\ Nd(S, l, i + 1) \in Node
        BY <3>0, <4>2, <1>5, <1>6, <1>7
      <4>5. QED
        BY <2>2, <4>1, <4>3, <4>4
    <3>2. CASE i + 1 = k
      <4>1. i = k - 1 /\ (i + 1) + 1 = k + 1
        BY <3>0, <3>2, <1>7
      <4>2. Nd(T, l, i) = Nd(S, l, k - 1) /\ Nd(T, l, i + 1) = Nd(S, l, k + 1)
        BY <3>0, <3>2, <4>1, <1>4, <1>7
      <4>3. Nd(S, l, k - 1) \in Node /\ Nd(S, l, k + 1) \in Node
        BY <1>5, <1>7
      <4>4. QED
        BY <2>2, <4>2, <4>3
    <3>3. CASE i + 1 > k
      <4>1. Nd(T, l, i) = Nd(S, l, i + 1) /\ Nd(T, l, i + 1) = Nd(S, l, i + 2)
        <5>1. ~(i < k) /\ ~(i + 1 < k) /\ (i + 1) + 1 = i + 2
          BY <3>0, <3>3, <1>7
        <5>2. QED
          BY <5>1, <3>0, <1>4
      <4>2. /\ i + 1 \in 0..Len(S[l]) /\ i + 2 \in 0..(Len(S[l]) + 1) /\ (i + 1) + 1 = i + 2
            /\ i + 1 # k /\ i + 1 # k - 1 /\ i + 2 # k + 1 /\ i + 2 # k
        BY <3>0, <3>3, <2>2, <1>2, <1>7
      <4>3. h.next[Nd(S, l, i + 1)] = Nd(S, l, i + 2) /\ h.prev[Nd(S, l, i + 2)] = Nd(S, l, i + 1)
        BY <4>2, <1>0 DEF Joined
      <4>4. /\ Nd(S, l, i + 1) # Nd(S, l, k - 1) /\ Nd(S, l, i + 1) # Nd(S, l, k)
            /\ Nd(S, l, i + 2) # Nd(S, l, k + 1) /\ Nd(S, l, i + 2) # Nd(S, l, k)
            /\ Nd(S, l, i + 1) \in Node /\ Nd(S, l, i + 2) \in Node
        BY <3>0, <4>2, <1>5, <1>6, <1>7
      <4>5. QED
        BY <2>2, <4>1, <4>3, <4>4
    <3>4. QED
      BY <3>0, <3>1, <3>2, <3>3, <1>7
  <2>3. QED
    BY <2>1, <2>2
<1>10. Ended(g)
  <2> SUFFICES ASSUME NEW m \in ListId
               PROVE  g.prev[HeadNode(m)] = NULL /\ g.next[TailNode(m)] = NULL
    BY DEF Ended
  <2>1. HeadNode(m) = Nd(S, m, 0) /\ TailNode(m) = Nd(S, m, Len(S[m]) + 1)
    BY <1>1 DEF Nd
  <2>2. /\ 0 \in 0..(Len(S[m]) + 1) /\ Len(S[m]) + 1 \in 0..(Len(S[m]) + 1)
        /\ m = l => Len(S[m]) + 1 # k - 1
    BY <1>1
  <2>3. HeadNode(m) # Nd(S, l, k + 1)
    BY <2>1, <2>2, <1>6, <1>7
  <2>4. ASSUME Nd(S, m, Len(S[m]) + 1) = Nd(S, l, k - 1) PROVE FALSE
    <3>1. m = l /\ Len(S[m]) + 1 = k - 1
      BY <2>4, <2>2, <1>6, <1>7
    <3>2. QED
      BY <3>1, <2>2
  <2>5. HeadNode(m) \in Node /\ TailNode(m) \in Node
    BY NodeFacts
  <2>6. QED
    BY <2>1, <2>3, <2>4, <2>5, <1>0 DEF Ended
<1>11. Apart(g, T)
  <2> SUFFICES ASSUME NEW x \in Item, ~In(T, x)
               PROVE  g.next[x] = NULL /\ g.prev[x] = NULL
    BY DEF Apart
  <2>0. x \in Node
    BY NodeFacts
  <2>1. ASSUME NEW m \in ListId, NEW i \in 1..Len(S[m]), S[m][i] = x
        PROVE  m = l /\ i = k
    <3>1. m = l
      BY <2>1, <1>2 DEF In
    <3>2. ASSUME i < k PROVE FALSE
      <4>1. i \in 1..Len(s) /\ s[i] = x
        BY <3>1, <3>2, <2>1, <1>7
      <4>2. QED
        BY <4>1, <1>2 DEF In
    <3>3. ASSUME i > k PROVE FALSE
      <4>1. i - 1 \in 1..Len(s) /\ s[i - 1] = x
        BY <3>1, <3>3, <2>1, <1>7
      <4>2. QED
        BY <4>1, <1>2 DEF In
    <3>4. QED
      BY <3>1, <3>2, <3>3, <1>7
  <2>2. ASSUME NEW j \in 0..(Len(S[l]) + 1), j # k PROVE x # Nd(S, l, j)
    <3>0. j \in 1..Len(S[l]) \/ j = 0 \/ j = Len(S[l]) + 1
      BY <1>7
    <3>1. CASE j \in 1..Len(S[l])
      <4>1. Nd(S, l, j) = S[l][j]
        BY <3>1, <1>7 DEF Nd
      <4>2. QED
        BY <4>1, <3>1, <2>1, <2>2
    <3>2. CASE j = 0 \/ j = Len(S[l]) + 1
      BY <3>2, <1>7, NodeFacts DEF Nd
    <3>3. QED
      BY <3>0, <3>1, <3>2
  <2>3. x # Nd(S, l, k - 1) /\ x # Nd(S, l, k + 1)
    BY <2>2, <1>7
  <2>4. CASE x = Nd(S, l, k)
    BY <2>0, <2>3, <2>4
  <2>5. CASE x # Nd(S, l, k)
    <3>1. Nd(S, l, k) = S[l][k]
      BY <1>7 DEF Nd
    <3>2. ~In(S, x)
      BY <2>1, <2>5, <3>1 DEF In
    <3>3. QED
      BY <2>0, <2>3, <2>5, <3>2, <1>0 DEF Apart
  <2>6. QED
    BY <2>4, <2>5
<1>12. QED
  BY <1>2, <1>8, <1>9, <1>10, <1>11 DEF Shape, T

-----------------------------------------------------------------------------
(* What the operations do to the links.                                     *)
LEMMA InsertFrontLinks ==
    ASSUME NEW h \in Heap, NEW a \in Node, NEW b \in Node, NEW n \in Node,
           h.next[a] = b, a # n, b # n
    PROVE  SplicedHeap(h, a, b, n, list_insert_front(h, a, n))
BY NodeFacts DEF SplicedHeap, Heap, list_insert_front, SetNext, SetPrev

LEMMA InsertEndLinks ==
    ASSUME NEW h \in Heap, NEW a \in Node, NEW b \in Node, NEW n \in Node,
           h.prev[b] = a, a # n, b # n
    PROVE  SplicedHeap(h, a, b, n, list_insert_end(h, b, n))
BY NodeFacts DEF SplicedHeap, Heap, list_insert_end, SetNext, SetPrev

LEMMA DeleteLinks ==
    ASSUME NEW h \in Heap, NEW a \in Node, NEW b \in Node, NEW n \in Node, NEW l,
           h.prev[n] = a, h.next[n] = b, a # n, b # n, Deleted(h, l, n) # NULL
    PROVE  CutHeap(h, a, b, n, list_delete(h, l, n))
BY NodeFacts DEF CutHeap, Heap, list_delete, SetNext, SetPrev

(* A node that no list reaches is in no sequence, and the reverse.          *)
LEMMA ShapeMembers ==
    ASSUME NEW h, NEW S, Shape(h, S), NEW l \in ListId
    PROVE  /\ \A n \in Item : Reaches(h, l, n) <=> \E i \in 1..Len(S[l]) : S[l][i] = n
           /\ \A n \in Node : Deleted(h, l, n) =
                  IF \E i \in 1..Len(S[l]) : S[l][i] = n THEN n ELSE NULL
           /\ \A n : DeleteTerminates(h, l, n)
<1>0. S \in [ListId -> Seq(Item)]
  BY DEF Shape
<1>1. Len(S[l]) \in Nat /\ \A i \in 1..Len(S[l]) : S[l][i] \in Item
  BY <1>0, SeqFacts
<1>2. /\ \A a : Reaches(h, l, a) <=> \E i \in 0..(Len(S[l]) + 1) : a = Nd(S, l, i)
      /\ Ends(h, l)
  BY ShapeReaches
<1>3. \A i \in 0..(Len(S[l]) + 1) :
          \/ i = 0 /\ Nd(S, l, i) = HeadNode(l)
          \/ i = Len(S[l]) + 1 /\ Nd(S, l, i) = TailNode(l)
          \/ i \in 1..Len(S[l]) /\ Nd(S, l, i) = S[l][i]
  BY <1>1 DEF Nd
<1>4. \A i \in 1..Len(S[l]) : i \in 0..(Len(S[l]) + 1) /\ Nd(S, l, i) = S[l][i]
  BY <1>1 DEF Nd
<1>5. ASSUME NEW n \in Node, n \notin {HeadNode(l), TailNode(l)}
      PROVE  Reaches(h, l, n) <=> \E i \in 1..Len(S[l]) : S[l][i] = n
  BY <1>2, <1>3, <1>4, <1>5
<1>6. HeadNode(l) \notin Item /\ TailNode(l) \notin Item /\ \A n \in Item : n \in Node
  BY NodeFacts
<1>7. ASSUME NEW n \in Node
      PROVE  Deleted(h, l, n) = IF \E i \in 1..Len(S[l]) : S[l][i] = n THEN n ELSE NULL
  <2>1. CASE n \in {HeadNode(l), TailNode(l)}
    BY <2>1, <1>1, <1>6 DEF Deleted
  <2>2. CASE n \notin {HeadNode(l), TailNode(l)}
    BY <2>2, <1>5 DEF Deleted
  <2>3. QED
    BY <2>1, <2>2
<1>8. QED
  BY <1>2, <1>5, <1>6, <1>7 DEF DeleteTerminates

(* The invariant names the elements.                                        *)
Lists(h) == [l \in ListId |-> SubSeq(Walk(h, l), 2, Len(Walk(h, l)) - 2)]

LEMMA ShapeLists ==
    ASSUME NEW h, NEW S, Shape(h, S)
    PROVE  Lists(h) = S
<1>1. S \in [ListId -> Seq(Item)]
  BY DEF Shape
<1>2. \A l \in ListId : SubSeq(Walk(h, l), 2, Len(Walk(h, l)) - 2) = S[l]
  BY ShapeElements
<1>3. QED
  BY <1>1, <1>2 DEF Lists

-----------------------------------------------------------------------------
(* One lemma for each operation: the shape it leaves.                       *)
LEMMA InsertShape ==
    ASSUME NEW h, NEW S, Shape(h, S), NEW l \in ListId, NEW n \in Item, ~In(S, n)
    PROVE  Shape(list_insert(h, l, n), [S EXCEPT ![l] = <<n>> \o S[l]])
<1> DEFINE s == <<n>> \o S[l]
<1>0. h \in Heap /\ S \in [ListId -> Seq(Item)] /\ Joined(h, S)
  BY DEF Shape
<1>1. S[l] \in Seq(Item) /\ Len(S[l]) \in Nat
  BY <1>0, SeqFacts
<1>2. SplicedSeq(S, l, 0, n, s)
  BY <1>1 DEF SplicedSeq
<1> HIDE DEF s
<1>3. 0 \in 0..Len(S[l]) /\ 0 \in 0..(Len(S[l]) + 1) /\ 0 + 1 \in 0..(Len(S[l]) + 1)
  BY <1>1
<1>4. /\ Nd(S, l, 0) = HeadNode(l) /\ h.next[Nd(S, l, 0)] = Nd(S, l, 0 + 1)
      /\ Nd(S, l, 0) \in Node /\ Nd(S, l, 0 + 1) \in Node
      /\ Nd(S, l, 0) # n /\ Nd(S, l, 0 + 1) # n /\ n \in Node
  <2>1. Nd(S, l, 0) = HeadNode(l)
    BY DEF Nd
  <2>2. h.next[Nd(S, l, 0)] = Nd(S, l, 0 + 1)
    BY <1>0, <1>3 DEF Joined
  <2>3. QED
    BY <2>1, <2>2, <1>0, <1>3, NdType, NotAPlace, NodeFacts
<1> DEFINE g == list_insert_front(h, Nd(S, l, 0), n)
<1>5. SplicedHeap(h, Nd(S, l, 0), Nd(S, l, 0 + 1), n, g)
  BY <1>0, <1>4, InsertFrontLinks
<1> HIDE DEF g
<1>6. Shape(g, [S EXCEPT ![l] = s])
  BY <1>2, <1>3, <1>5, SpliceShape
<1>7. QED
  BY <1>4, <1>6 DEF g, s, list_insert

LEMMA InsertEndShape ==
    ASSUME NEW h, NEW S, Shape(h, S), NEW l \in ListId, NEW n \in Item, ~In(S, n)
    PROVE  Shape(list_insert_end(h, TailNode(l), n), [S EXCEPT ![l] = Append(S[l], n)])
<1> DEFINE s == Append(S[l], n)
<1> DEFINE k == Len(S[l])
<1>0. h \in Heap /\ S \in [ListId -> Seq(Item)] /\ Joined(h, S)
  BY DEF Shape
<1>1. S[l] \in Seq(Item) /\ k \in Nat
  BY <1>0, SeqFacts
<1>2. SplicedSeq(S, l, k, n, s)
  BY <1>1 DEF SplicedSeq
<1> HIDE DEF s
<1>3. k \in 0..Len(S[l]) /\ k \in 0..(Len(S[l]) + 1) /\ k + 1 \in 0..(Len(S[l]) + 1)
  BY <1>1
<1>4. /\ Nd(S, l, k + 1) = TailNode(l) /\ h.prev[Nd(S, l, k + 1)] = Nd(S, l, k)
      /\ Nd(S, l, k) \in Node /\ Nd(S, l, k + 1) \in Node
      /\ Nd(S, l, k) # n /\ Nd(S, l, k + 1) # n /\ n \in Node
  <2>1. Nd(S, l, k + 1) = TailNode(l)
    BY <1>1 DEF Nd
  <2>2. h.prev[Nd(S, l, k + 1)] = Nd(S, l, k)
    BY <1>0, <1>3 DEF Joined
  <2>3. QED
    BY <2>1, <2>2, <1>0, <1>3, NdType, NotAPlace, NodeFacts
<1> DEFINE g == list_insert_end(h, Nd(S, l, k + 1), n)
<1>5. SplicedHeap(h, Nd(S, l, k), Nd(S, l, k + 1), n, g)
  BY <1>0, <1>4, InsertEndLinks
<1> HIDE DEF g, k
<1>6. Shape(g, [S EXCEPT ![l] = s])
  BY <1>2, <1>3, <1>5, SpliceShape
<1>7. QED
  BY <1>4, <1>6 DEF g, s

LEMMA CutShape ==
    ASSUME NEW h, NEW S, Shape(h, S), NEW l \in ListId, NEW k \in 1..Len(S[l]),
           NEW s, CutSeq(S, l, k, s)
    PROVE  Shape(list_delete(h, l, S[l][k]), [S EXCEPT ![l] = s])
<1>0. h \in Heap /\ S \in [ListId -> Seq(Item)] /\ Once(S) /\ Joined(h, S)
  BY DEF Shape
<1>1. Len(S[l]) \in Nat /\ S[l][k] \in Item /\ S[l][k] \in Node
  BY <1>0, SeqFacts, NodeFacts
<1>2. /\ k - 1 \in 0..Len(S[l]) /\ k \in 0..Len(S[l]) /\ (k - 1) + 1 = k
      /\ k - 1 \in 0..(Len(S[l]) + 1) /\ k \in 0..(Len(S[l]) + 1) /\ k + 1 \in 0..(Len(S[l]) + 1)
      /\ k - 1 # k /\ k + 1 # k
  BY <1>1
<1>3. Nd(S, l, k) = S[l][k]
  BY <1>1 DEF Nd
<1>4. /\ h.prev[Nd(S, l, k)] = Nd(S, l, k - 1)
      /\ h.next[Nd(S, l, k)] = Nd(S, l, k + 1)
  BY <1>0, <1>2 DEF Joined
<1>5. /\ Nd(S, l, k - 1) \in Node /\ Nd(S, l, k) \in Node /\ Nd(S, l, k + 1) \in Node
      /\ Nd(S, l, k - 1) # Nd(S, l, k) /\ Nd(S, l, k + 1) # Nd(S, l, k)
  BY <1>0, <1>2, NdType, NdDistinct
<1>6. Deleted(h, l, Nd(S, l, k)) # NULL
  BY <1>1, <1>3, <1>5, ShapeMembers, NodeFacts
<1> DEFINE g == list_delete(h, l, Nd(S, l, k))
<1>7. CutHeap(h, Nd(S, l, k - 1), Nd(S, l, k + 1), Nd(S, l, k), g)
  BY <1>0, <1>4, <1>5, <1>6, DeleteLinks
<1> HIDE DEF g
<1>8. Shape(g, [S EXCEPT ![l] = s])
  BY <1>7, UnspliceShape
<1>9. QED
  BY <1>3, <1>8 DEF g

(* The two sequences that come of it: with any node left out, or the first. *)
LEMMA CutAnywhere ==
    ASSUME NEW S \in [ListId -> Seq(Item)], NEW l \in ListId, NEW k \in 1..Len(S[l])
    PROVE  /\ CutSeq(S, l, k, SubSeq(S[l], 1, k - 1) \o SubSeq(S[l], k + 1, Len(S[l])))
           /\ CutSeq(S, l, 1, Tail(S[l]))
<1> DEFINE s == S[l]
<1> DEFINE p == SubSeq(s, 1, k - 1)
<1> DEFINE q == SubSeq(s, k + 1, Len(s))
<1>1. s \in Seq(Item) /\ Len(s) \in Nat /\ \A i \in 1..Len(s) : s[i] \in Item
  BY SeqFacts
<1>2. k \in 1..Len(s)
  OBVIOUS
<1> HIDE DEF s
<1>3. /\ p \in Seq(Item) /\ Len(p) = k - 1
      /\ \A i \in 1..(k - 1) : p[i] = s[i]
  <2>1. 1 \in Int /\ k - 1 \in Int /\ \A i \in 1..(k - 1) : s[i] \in Item
    BY <1>1, <1>2
  <2>2. /\ p \in Seq(Item) /\ Len(p) = IF 1 <= k - 1 THEN (k - 1) - 1 + 1 ELSE 0
        /\ \A i \in 1..((k - 1) - 1 + 1) : p[i] = s[1 + i - 1]
    BY <2>1, SubSeqProperties
  <2> HIDE DEF p
  <2>3. QED
    BY <2>2, <1>1, <1>2
<1>4. /\ q \in Seq(Item) /\ Len(q) = Len(s) - k
      /\ \A i \in 1..(Len(s) - k) : q[i] = s[i + k]
  <2>1. k + 1 \in Int /\ Len(s) \in Int /\ \A i \in (k + 1)..Len(s) : s[i] \in Item
    BY <1>1, <1>2
  <2>2. /\ q \in Seq(Item) /\ Len(q) = IF k + 1 <= Len(s) THEN Len(s) - (k + 1) + 1 ELSE 0
        /\ \A i \in 1..(Len(s) - (k + 1) + 1) : q[i] = s[(k + 1) + i - 1]
    BY <2>1, SubSeqProperties
  <2> HIDE DEF q
  <2>3. \A i \in 1..(Len(s) - k) : (k + 1) + i - 1 = i + k /\ i \in 1..(Len(s) - (k + 1) + 1)
    BY <1>1, <1>2
  <2>4. QED
    BY <2>2, <2>3, <1>1, <1>2
<1> HIDE DEF p, q
<1>5. /\ p \o q \in Seq(Item) /\ Len(p \o q) = Len(s) - 1
      /\ \A i \in 1..(Len(s) - 1) : (p \o q)[i] = IF i < k THEN s[i] ELSE s[i + 1]
  <2>1. /\ p \o q \in Seq(Item) /\ Len(p \o q) = Len(p) + Len(q)
        /\ \A i \in 1..(Len(p) + Len(q)) :
               (p \o q)[i] = IF i <= Len(p) THEN p[i] ELSE q[i - Len(p)]
    BY <1>3, <1>4, ConcatProperties
  <2>2. Len(p \o q) = Len(s) - 1 /\ Len(p) + Len(q) = Len(s) - 1
    BY <2>1, <1>1, <1>2, <1>3, <1>4
  <2>3. ASSUME NEW i \in 1..(Len(s) - 1)
        PROVE  (p \o q)[i] = IF i < k THEN s[i] ELSE s[i + 1]
    <3>1. (p \o q)[i] = IF i <= k - 1 THEN p[i] ELSE q[i - (k - 1)]
      BY <2>1, <2>2, <1>3
    <3>2. CASE i < k
      <4>1. i <= k - 1 /\ i \in 1..(k - 1)
        BY <3>2, <1>1, <1>2
      <4>2. QED
        BY <3>1, <3>2, <4>1, <1>3
    <3>3. CASE i >= k
      <4>1. ~(i <= k - 1) /\ ~(i < k) /\ i - (k - 1) \in 1..(Len(s) - k)
            /\ (i - (k - 1)) + k = i + 1
        BY <3>3, <1>1, <1>2
      <4>2. q[i - (k - 1)] = s[i + 1]
        BY <4>1, <1>4
      <4>3. QED
        BY <3>1, <4>1, <4>2
    <3>4. i < k \/ i >= k
      BY <1>1, <1>2
    <3>5. QED
      BY <3>2, <3>3, <3>4
  <2>4. QED
    BY <2>1, <2>2, <2>3
<1>6. CutSeq(S, l, k, p \o q)
  BY <1>1, <1>5 DEF CutSeq, s
<1>7. CutSeq(S, l, 1, Tail(S[l]))
  BY <1>1, <1>2, HeadTailProperties DEF CutSeq, s
<1>8. QED
  BY <1>6, <1>7 DEF p, q, s

LEMMA PopShape ==
    ASSUME NEW h, NEW S, Shape(h, S), NEW l \in ListId
    PROVE  /\ S[l] = <<>> => list_pop(h, l) = h /\ Popped(h, l) = NULL
           /\ S[l] # <<>> => /\ Shape(list_pop(h, l), [S EXCEPT ![l] = Tail(S[l])])
                             /\ Popped(h, l) = Head(S[l])
<1>0. h \in Heap /\ S \in [ListId -> Seq(Item)] /\ Joined(h, S)
  BY DEF Shape
<1>1. S[l] \in Seq(Item) /\ Len(S[l]) \in Nat /\ \A i \in 1..Len(S[l]) : S[l][i] \in Item
  BY <1>0, SeqFacts
<1>2. h.next[HeadNode(l)] = Nd(S, l, 1)
  <2>1. 0 \in 0..Len(S[l]) /\ 0 + 1 = 1 /\ Nd(S, l, 0) = HeadNode(l)
    BY <1>1 DEF Nd
  <2>2. QED
    BY <2>1, <1>0 DEF Joined
<1>3. CASE S[l] = <<>>
  <2>1. Len(S[l]) = 0
    BY <1>3
  <2>2. list_isEmpty(h, l)
    BY <2>1, <1>2 DEF Nd, list_isEmpty
  <2>3. QED
    BY <2>2, <1>3 DEF list_pop, Popped
<1>4. CASE S[l] # <<>>
  <2>1. 1 \in 1..Len(S[l]) /\ S[l][1] \in Item /\ S[l][1] \in Node /\ Head(S[l]) = S[l][1]
    BY <1>1, <1>4, NodeFacts
  <2>2. h.next[HeadNode(l)] = S[l][1]
    BY <1>1, <1>2, <2>1 DEF Nd
  <2>3. ~list_isEmpty(h, l)
    BY <2>1, <2>2, NodeFacts DEF list_isEmpty
  <2>4. CutSeq(S, l, 1, Tail(S[l]))
    BY <2>1, <1>0, CutAnywhere
  <2>5. Shape(list_delete(h, l, S[l][1]), [S EXCEPT ![l] = Tail(S[l])])
    BY <2>1, <2>4, CutShape
  <2>6. Deleted(h, l, S[l][1]) = S[l][1]
    BY <2>1, ShapeMembers
  <2>7. QED
    BY <1>4, <2>1, <2>2, <2>3, <2>5, <2>6 DEF list_pop, Popped
<1>5. QED
  BY <1>3, <1>4

-----------------------------------------------------------------------------
(* The sequences of module SeqLists, now and after the step.                *)
lists == [l \in ListId |-> Elements(l)]

LEMMA NamesLists ==
    ASSUME NEW S
    PROVE  /\ Shape(heap, S) => lists = S
           /\ Shape(heap', S) => lists' = S
<1>1. lists = Lists(heap) /\ lists' = Lists(heap')
  BY DEF lists, Lists, Elements
<1>2. QED
  BY <1>1, ShapeLists

LEMMA InitShape ==
    ASSUME Init
    PROVE  Shape(heap, [l \in ListId |-> <<>>])
<1> DEFINE S == [l \in ListId |-> <<>>]
<1>1. S \in [ListId -> Seq(Item)] /\ \A l \in ListId : S[l] = <<>> /\ Len(S[l]) = 0
  OBVIOUS
<1> HIDE DEF S
<1>2. /\ \A l \in ListId : /\ HeadNode(l) \in Sentinel /\ HeadNode(l)[1] = "head" /\ HeadNode(l)[2] = l
                           /\ TailNode(l) \in Sentinel /\ TailNode(l)[1] = "tail" /\ TailNode(l)[2] = l
      /\ \A a \in Sentinel : a[2] \in ListId
      /\ \A n \in Item : n \notin Sentinel
  BY NodeAssumption DEF Sentinel, HeadNode, TailNode
<1>3. heap \in Heap
  BY <1>2, NodeFacts DEF Init, Heap
<1>4. /\ \A l \in ListId : /\ heap.next[HeadNode(l)] = TailNode(l)
                           /\ heap.prev[TailNode(l)] = HeadNode(l)
                           /\ heap.prev[HeadNode(l)] = NULL
                           /\ heap.next[TailNode(l)] = NULL
      /\ \A n \in Item : heap.next[n] = NULL /\ heap.prev[n] = NULL
  BY <1>2, NodeFacts DEF Init
<1>5. Once(S)
  BY <1>1 DEF Once
<1>6. Joined(heap, S)
  <2> SUFFICES ASSUME NEW l \in ListId, NEW i \in 0..Len(S[l])
               PROVE  /\ heap.next[Nd(S, l, i)] = Nd(S, l, i + 1)
                      /\ heap.prev[Nd(S, l, i + 1)] = Nd(S, l, i)
    BY DEF Joined
  <2>1. i = 0 /\ Len(S[l]) = 0
    BY <1>1
  <2>2. Nd(S, l, i) = HeadNode(l) /\ Nd(S, l, i + 1) = TailNode(l)
    BY <2>1 DEF Nd
  <2>3. QED
    BY <2>2, <1>4
<1>7. QED
  BY <1>1, <1>3, <1>4, <1>5, <1>6 DEF Shape, Ended, Apart, S

(* Whether a node is in no list.                                            *)
LEMMA InNoListIs ==
    ASSUME NEW S, Shape(heap, S), NEW n \in Item
    PROVE  InNoList(n) <=> ~In(S, n)
<1>1. \A l \in ListId : Reaches(heap, l, n) <=> \E i \in 1..Len(S[l]) : S[l][i] = n
  BY ShapeMembers
<1>2. QED
  BY <1>1 DEF InNoList, In

LEMMA LinkedIs ==
    ASSUME NEW S, Shape(heap, S), NEW n \in Item
    PROVE  n \in Abstract!Linked <=> In(S, n)
<1>1. S \in [ListId -> Seq(Item)]
  BY DEF Shape
<1>2. \A l \in ListId : DOMAIN S[l] = 1..Len(S[l])
  BY <1>1
<1>3. lists = S
  BY NamesLists
<1>4. n \in Abstract!Linked <=> \E l \in ListId : n \in {lists[l][x] : x \in DOMAIN lists[l]}
  BY DEF Abstract!Linked, Abstract!Range, lists
<1>5. QED
  BY <1>2, <1>3, <1>4 DEF In

(* Every step leaves a shape and is a step of the sequences.                *)
LEMMA StepImplements ==
    ASSUME ListInv, [Next]_vars
    PROVE  ListInv' /\ [Abstract!Next]_<<lists, done>>
<1>1. PICK S : Shape(heap, S)
  BY DEF ListInv
<1>2. lists = S /\ S \in [ListId -> Seq(Item)]
  BY <1>1, NamesLists DEF Shape
<1>3. ASSUME NEW l \in ListId, NEW n \in Item, Insert(l, n)
      PROVE  ListInv' /\ Abstract!Insert(l, n)
  <2> DEFINE T == [S EXCEPT ![l] = <<n>> \o S[l]]
  <2>1. ~In(S, n)
    BY <1>1, <1>3, InNoListIs DEF Insert
  <2>2. Shape(heap', T)
    BY <1>1, <1>3, <2>1, InsertShape DEF Insert
  <2> HIDE DEF T
  <2>3. lists' = T
    BY <2>2, NamesLists
  <2>4. n \notin Abstract!Linked
    BY <2>1, <1>1, LinkedIs
  <2>5. lists' = [lists EXCEPT ![l] = <<n>> \o @]
    BY <2>3, <1>2 DEF T
  <2>6. QED
    BY <2>2, <2>4, <2>5, <1>3 DEF ListInv, Abstract!Insert, lists, Insert
<1>4. ASSUME NEW l \in ListId, NEW n \in Item, InsertEnd(l, n)
      PROVE  ListInv' /\ Abstract!InsertEnd(l, n)
  <2> DEFINE T == [S EXCEPT ![l] = Append(S[l], n)]
  <2>1. ~In(S, n)
    BY <1>1, <1>4, InNoListIs DEF InsertEnd
  <2>2. Shape(heap', T)
    BY <1>1, <1>4, <2>1, InsertEndShape DEF InsertEnd
  <2> HIDE DEF T
  <2>3. lists' = T
    BY <2>2, NamesLists
  <2>4. n \notin Abstract!Linked
    BY <2>1, <1>1, LinkedIs
  <2>5. lists' = [lists EXCEPT ![l] = Append(@, n)]
    BY <2>3, <1>2 DEF T
  <2>6. QED
    BY <2>2, <2>4, <2>5, <1>4 DEF ListInv, Abstract!InsertEnd, lists, InsertEnd
<1>5. ASSUME NEW l \in ListId, NEW n \in Node, Delete(l, n)
      PROVE  ListInv' /\ Abstract!Delete(l, n)
  <2>0. S[l] \in Seq(Item) /\ DOMAIN S[l] = 1..Len(S[l]) /\ lists[l] = S[l]
    BY <1>2
  <2>1. Deleted(heap, l, n) = IF \E i \in 1..Len(S[l]) : S[l][i] = n THEN n ELSE NULL
    BY <1>1, ShapeMembers
  <2>2. n \in Abstract!Range(S[l]) <=> \E i \in 1..Len(S[l]) : S[l][i] = n
    BY <2>0 DEF Abstract!Range
  <2>3. done' = <<"delete", l, n, IF n \in Abstract!Range(lists[l]) THEN n ELSE NULL>>
    BY <2>0, <2>1, <2>2, <1>5 DEF Delete
  <2>4. CASE n \notin Abstract!Range(S[l])
    <3>1. heap' = heap
      BY <2>1, <2>2, <2>4, <1>5 DEF Delete, list_delete
    <3>2. lists' = S
      BY <1>1, <3>1, NamesLists
    <3>3. [lists EXCEPT ![l] = Abstract!Without(@, n)] = lists
      BY <2>0, <2>4, <1>2 DEF Abstract!Without
    <3>4. QED
      BY <1>1, <1>2, <2>3, <3>1, <3>2, <3>3 DEF ListInv, Abstract!Delete, lists
  <2>5. CASE n \in Abstract!Range(S[l])
    <3> DEFINE k == CHOOSE i \in 1..Len(S[l]) : S[l][i] = n
    <3> DEFINE s == SubSeq(S[l], 1, k - 1) \o SubSeq(S[l], k + 1, Len(S[l]))
    <3>1. k \in 1..Len(S[l]) /\ S[l][k] = n
      BY <2>2, <2>5
    <3>2. Abstract!Without(S[l], n) = s
      BY <2>5 DEF Abstract!Without, Abstract!RemoveAt
    <3> HIDE DEF k
    <3>3. CutSeq(S, l, k, s)
      BY <3>1, <1>2, CutAnywhere
    <3> HIDE DEF s
    <3>4. Shape(list_delete(heap, l, n), [S EXCEPT ![l] = s])
      BY <1>1, <3>1, <3>3, CutShape
    <3>5. Shape(heap', [S EXCEPT ![l] = s])
      BY <3>4, <1>5 DEF Delete
    <3>6. lists' = [S EXCEPT ![l] = s]
      BY <3>5, NamesLists
    <3>7. lists' = [lists EXCEPT ![l] = Abstract!Without(@, n)]
      BY <1>2, <2>0, <3>2, <3>6
    <3>8. QED
      BY <2>3, <3>5, <3>7 DEF ListInv, Abstract!Delete, lists
  <2>6. QED
    BY <2>4, <2>5
<1>6. ASSUME NEW l \in ListId, Pop(l) PROVE ListInv' /\ Abstract!Pop(l)
  <2>0. lists[l] = S[l]
    BY <1>2
  <2>1. CASE S[l] = <<>>
    <3>1. heap' = heap /\ done' = <<"pop", l, NULL>>
      BY <1>1, <1>6, <2>1, PopShape DEF Pop
    <3>2. lists' = lists
      BY <1>1, <1>2, <3>1, NamesLists
    <3>3. QED
      BY <1>1, <2>0, <2>1, <3>1, <3>2 DEF ListInv, Abstract!Pop, lists
  <2>2. CASE S[l] # <<>>
    <3>1. Shape(heap', [S EXCEPT ![l] = Tail(S[l])]) /\ done' = <<"pop", l, Head(S[l])>>
      BY <1>1, <1>6, <2>2, PopShape DEF Pop
    <3>2. lists' = [S EXCEPT ![l] = Tail(S[l])]
      BY <3>1, NamesLists
    <3>3. lists' = [lists EXCEPT ![l] = Tail(@)] /\ done' = <<"pop", l, Head(lists[l])>>
      BY <1>2, <2>0, <3>1, <3>2
    <3>4. QED
      BY <2>0, <2>2, <3>1, <3>3 DEF ListInv, Abstract!Pop, lists
  <2>3. QED
    BY <2>1, <2>2
<1>7. ASSUME NEW l \in ListId, Size(l) PROVE ListInv' /\ Abstract!Size(l)
  <2>1. heap' = heap /\ done' = <<"size", l, Len(S[l])>>
    BY <1>1, <1>7, ShapeElements DEF Size
  <2>2. lists' = lists /\ lists[l] = S[l]
    BY <1>1, <1>2, <2>1, NamesLists
  <2>3. QED
    BY <1>1, <2>1, <2>2 DEF ListInv, Abstract!Size, lists
<1>8. CASE UNCHANGED vars
  <2>1. heap' = heap /\ done' = done
    BY <1>8 DEF vars
  <2>2. lists' = lists
    BY <1>1, <1>2, <2>1, NamesLists
  <2>3. QED
    BY <1>1, <2>1, <2>2 DEF ListInv
<1>9. CASE Next
  BY <1>9, <1>3, <1>4, <1>5, <1>6, <1>7 DEF Next, Abstract!Next
<1>10. QED
  BY <1>8, <1>9

(* libk/list.c implements sequences: for any number of lists and nodes, as   *)
(* long as a node is inserted only while it is in no list, every operation   *)
(* does to the links what the operation of the same name does to the         *)
(* sequence, and returns the same.                                           *)
THEOREM ListsAreSequences == Spec => ImplementsSequences
<1>1. Init => ListInv /\ Abstract!Init
  <2> SUFFICES ASSUME Init PROVE ListInv /\ Abstract!Init
    OBVIOUS
  <2>1. Shape(heap, [l \in ListId |-> <<>>])
    BY InitShape
  <2>2. lists = [l \in ListId |-> <<>>]
    BY <2>1, NamesLists
  <2>3. QED
    BY <2>1, <2>2 DEF ListInv, Abstract!Init, lists, Init
<1>2. ListInv /\ [Next]_vars => ListInv' /\ [Abstract!Next]_<<lists, done>>
  BY StepImplements
<1>3. QED
  BY <1>1, <1>2, PTL DEF Spec, ImplementsSequences, Abstract!Spec, lists

(* The initial heap is the one list_init leaves, whatever list it is called  *)
(* for.                                                                      *)
LEMMA InitIsListInit == ASSUME Init, NEW l \in ListId PROVE list_init(heap, l) = heap
<1>1. /\ HeadNode(l) \in Sentinel /\ HeadNode(l)[1] = "head" /\ HeadNode(l)[2] = l
      /\ TailNode(l) \in Sentinel /\ TailNode(l)[1] = "tail" /\ TailNode(l)[2] = l
      /\ HeadNode(l) \in Node /\ TailNode(l) \in Node
  BY NodeAssumption, NodeFacts DEF Sentinel, HeadNode, TailNode
<1>2. /\ heap.next[HeadNode(l)] = TailNode(l) /\ heap.prev[TailNode(l)] = HeadNode(l)
      /\ heap.prev[HeadNode(l)] = NULL /\ heap.next[TailNode(l)] = NULL
  BY <1>1 DEF Init
<1>3. heap \in Heap
  BY InitShape DEF Shape
<1>4. ASSUME NEW a \in Node
      PROVE  SetNext(heap, a, heap.next[a]) = heap /\ SetPrev(heap, a, heap.prev[a]) = heap
  <2>1. /\ [heap.next EXCEPT ![a] = heap.next[a]] = heap.next
        /\ [heap.prev EXCEPT ![a] = heap.prev[a]] = heap.prev
    BY <1>3 DEF Heap
  <2>2. /\ [heap EXCEPT !.next = heap.next] = heap
        /\ [heap EXCEPT !.prev = heap.prev] = heap
    BY <1>3 DEF Heap
  <2>3. a # NULL
    BY NodeFacts
  <2>4. QED
    BY <2>1, <2>2, <2>3 DEF SetNext, SetPrev
<1>5. QED
  BY <1>1, <1>2, <1>4 DEF list_init

(* The links back mirror the links forward, for any number of lists and      *)
(* nodes, and a node that was deleted is left without links: libk/list.c     *)
(* never leaves a list half linked.                                          *)
THEOREM LinksAreMirrored == Spec => []LinksMirror
<1>1. Init => ListInv
  BY InitShape DEF ListInv
<1>2. ListInv /\ [Next]_vars => ListInv'
  BY StepImplements
<1>3. ListInv => LinksMirror
  <2> SUFFICES ASSUME ListInv PROVE LinksMirror
    OBVIOUS
  <2>1. PICK S : Shape(heap, S)
    BY DEF ListInv
  <2>2. S \in [ListId -> Seq(Item)] /\ Joined(heap, S) /\ Ended(heap) /\ Apart(heap, S)
    BY <2>1 DEF Shape
  <2>3. ASSUME NEW l \in ListId PROVE Intact(heap, l)
    <3> DEFINE w == Full(S, l)
    <3>1. Len(S[l]) \in Nat
      BY <2>2, SeqFacts
    <3>2. Walk(heap, l) = w
      BY <2>1, ShapeWalk
    <3>3. /\ Len(w) = Len(S[l]) + 3
          /\ w[Len(S[l]) + 3] = NULL
          /\ \A i \in 0..(Len(S[l]) + 1) : w[i + 1] = Nd(S, l, i)
      BY <3>1 DEF Full
    <3> HIDE DEF w
    <3>4. w[Len(w) - 1] = TailNode(l)
      <4>1. Len(S[l]) + 1 \in 0..(Len(S[l]) + 1) /\ Len(w) - 1 = (Len(S[l]) + 1) + 1
        BY <3>1, <3>3
      <4>2. w[Len(w) - 1] = Nd(S, l, Len(S[l]) + 1)
        BY <4>1, <3>3
      <4>3. QED
        BY <4>2, <3>1 DEF Nd
    <3>5. ASSUME NEW i \in 1..(Len(w) - 2) PROVE heap.prev[w[i + 1]] = w[i]
      <4>1. /\ i - 1 \in 0..Len(S[l]) /\ i - 1 \in 0..(Len(S[l]) + 1)
            /\ i \in 0..(Len(S[l]) + 1) /\ (i - 1) + 1 = i
        BY <3>1, <3>3
      <4>2. w[i] = Nd(S, l, i - 1) /\ w[i + 1] = Nd(S, l, i)
        BY <4>1, <3>3
      <4>3. heap.prev[Nd(S, l, i)] = Nd(S, l, i - 1)
        BY <4>1, <2>2 DEF Joined
      <4>4. QED
        BY <4>2, <4>3
    <3>6. heap.prev[HeadNode(l)] = NULL
      BY <2>2 DEF Ended
    <3>7. QED
      BY <3>1, <3>2, <3>3, <3>4, <3>5, <3>6 DEF Intact
  <2>4. ASSUME NEW n \in Item, InNoList(n) PROVE heap.next[n] = NULL /\ heap.prev[n] = NULL
    BY <2>1, <2>2, <2>4, InNoListIs DEF Apart
  <2>5. QED
    BY <2>3, <2>4 DEF LinksMirror
<1>4. QED
  BY <1>1, <1>2, <1>3, PTL DEF Spec
=============================================================================
