-------------------------- MODULE SemaphoreProofs ---------------------------
(***************************************************************************)
(* Theorems about module Semaphore, for any number of threads, calls and   *)
(* kills.                                                                  *)
(***************************************************************************)
EXTENDS Semaphore, SequenceTheorems, FiniteSetTheorems, WellFoundedInduction, TLAPS

-----------------------------------------------------------------------------
Label == {"idle", "dead", "acquire", "spin", "release", "down", "take", "refuse",
          "link", "unlock", "block", "blocked", "up", "give", "wake"}

SemType ==
    /\ val \in Nat /\ lock \in {0, 1} /\ heap \in Heap
    /\ pc \in [Thread -> Label] /\ op \in [Thread -> Ops \cup {"none", "woken"}]
    /\ v \in [Thread -> Int] /\ calls \in Nat
    /\ began \in Nat /\ ended \in Nat /\ lost \in Nat /\ waits \in Nat /\ returned \in Nat

(* The call a thread is in, where it is in it.                              *)
CallInv ==
    \A t \in Thread :
        /\ pc[t] \in {"acquire", "spin", "release"} => op[t] # "none"
        /\ pc[t] \in {"down", "take", "refuse"} => op[t] \in {"down", "try_down"}
        /\ pc[t] \in {"link", "unlock", "block", "blocked"} => op[t] = "down"
        /\ pc[t] \in {"up", "give", "wake"} => op[t] = "up"

(* The spin lock excludes: what a thread has read is what there is.         *)
LockInv ==
    /\ \A t \in Thread : Holds(t) => lock = 1
    /\ \A t, u \in Thread : Holds(t) /\ Holds(u) => t = u

ReadInv ==
    \A t \in Thread :
        /\ pc[t] \in {"take", "give"} => v[t] = val
        /\ pc[t] = "take" => val > 0
        /\ pc[t] = "wake" => ~list_isEmpty(heap, W)

(* No link leads to the node of a thread; unless a waiter was linked while  *)
(* one was, the list is empty or holds the node at NULL.                    *)
Hd == HeadNode(W)
Tl == TailNode(W)
N0 == NodeOf(NULL)

NoThreadLinked(h) ==
    \A n \in Node : \A t \in Thread : h.next[n] # NodeOf(t) /\ h.prev[n] # NodeOf(t)

HeapInv ==
    /\ NoThreadLinked(heap)
    /\ "twice" \notin incidents =>
         \/ heap.next[Hd] = Tl
         \/ heap.next[Hd] = N0 /\ heap.next[N0] = Tl /\ heap.prev[N0] = Hd

(* The threads in a call that have a unit in hand, or owe one.              *)
HasUnit(o, p) ==
    \/ o = "up" /\ p \in {"acquire", "spin", "up", "give", "wake"}
    \/ o = "woken" /\ p \in {"acquire", "spin"}
    \/ o # "up" /\ p = "release"

InHand == {t \in Thread : HasUnit(op[t], pc[t])}

UnitInv ==
    /\ val + ended + lost + Cardinality(InHand) <= InitVal + began + returned
    /\ "killed" \notin incidents =>
         val + ended + lost + Cardinality(InHand) = InitVal + began + returned

WaitInv ==
    "twice" \notin incidents =>
        /\ lost <= waits
        /\ ~list_isEmpty(heap, W) => lost < waits

(* The inductive invariant.                                                 *)
SemInv == SemType /\ CallInv /\ LockInv /\ ReadInv /\ HeapInv /\ UnitInv /\ WaitInv

-----------------------------------------------------------------------------
(* The list of waiters.                                                     *)
LEMMA NodeFacts ==
    /\ Hd \in Node /\ Tl \in Node /\ N0 \in Node /\ NULL \notin Node
    /\ Hd # Tl /\ Hd # N0 /\ Tl # N0
    /\ \A t \in Thread : /\ NodeOf(t) \in Node
                         /\ NodeOf(t) # Hd /\ NodeOf(t) # Tl /\ NodeOf(t) # N0
                         /\ NodeOf(t) # NULL
BY SemaphoreAssumption, NodeAssumption, NullAssumption
   DEF AllNodes, Hd, Tl, N0, HeadNode, TailNode, NodeOf, W

LEMMA NodesFinite == IsFiniteSet(Node)
<1> DEFINE S == Thread \cup {NULL}
<1> DEFINE T == {NodeOf(t) : t \in S}
<1> DEFINE f == [t \in S |-> NodeOf(t)]
<1>1. IsFiniteSet(S)
  BY SemaphoreAssumption, FS_AddElement
<1>2. f \in Surjection(S, T)
  BY DEF Surjection
<1>3. IsFiniteSet(T)
  <2> HIDE DEF S, T, f
  <2>1. QED
    BY <1>1, <1>2, FS_Surjection
<1>4. IsFiniteSet({Hd} \cup {Tl})
  <2>1. IsFiniteSet({Hd}) /\ IsFiniteSet({Tl})
    BY FS_Singleton
  <2>2. QED
    BY <2>1, FS_Union
<1>5. Node = ({Hd} \cup {Tl}) \cup T
  BY NodeAssumption DEF AllNodes, Hd, Tl
<1> HIDE DEF T
<1>6. QED
  BY <1>3, <1>4, <1>5, FS_Union

LEMMA SetKeeps ==
    ASSUME NEW h \in Heap, NoThreadLinked(h), NEW a \in Node \cup {NULL},
           NEW b \in Node \cup {NULL}, \A t \in Thread : b # NodeOf(t)
    PROVE  /\ SetNext(h, a, b) \in Heap /\ NoThreadLinked(SetNext(h, a, b))
           /\ SetPrev(h, a, b) \in Heap /\ NoThreadLinked(SetPrev(h, a, b))
BY DEF Heap, SetNext, SetPrev, NoThreadLinked

LEMMA LinkOf ==
    ASSUME NEW h \in Heap, NoThreadLinked(h), NEW a \in Node
    PROVE  /\ h.next[a] \in Node \cup {NULL} /\ \A t \in Thread : h.next[a] # NodeOf(t)
           /\ h.prev[a] \in Node \cup {NULL} /\ \A t \in Thread : h.prev[a] # NodeOf(t)
BY DEF Heap, NoThreadLinked

LEMMA InsertKeeps ==
    ASSUME NEW h \in Heap, NoThreadLinked(h)
    PROVE  list_insert(h, W, N0) \in Heap /\ NoThreadLinked(list_insert(h, W, N0))
<1> DEFINE h1 == SetPrev(h, h.next[Hd], N0)
<1> DEFINE h2 == SetNext(h1, N0, h1.next[Hd])
<1> DEFINE h3 == SetNext(h2, Hd, N0)
<1> DEFINE h4 == SetPrev(h3, N0, Hd)
<1>0. list_insert(h, W, N0) = h4
  BY DEF list_insert, list_insert_front, Hd
<1>1. h1 \in Heap /\ NoThreadLinked(h1)
  BY SetKeeps, LinkOf, NodeFacts
<1> HIDE DEF h1
<1>2. h2 \in Heap /\ NoThreadLinked(h2)
  BY <1>1, SetKeeps, LinkOf, NodeFacts
<1> HIDE DEF h2
<1>3. h3 \in Heap /\ NoThreadLinked(h3)
  BY <1>2, SetKeeps, NodeFacts
<1> HIDE DEF h3
<1>4. h4 \in Heap /\ NoThreadLinked(h4)
  BY <1>3, SetKeeps, NodeFacts
<1>5. QED
  BY <1>0, <1>4

LEMMA InsertLinks ==
    ASSUME NEW h \in Heap, h.next[Hd] = Tl
    PROVE  /\ list_insert(h, W, N0).next[Hd] = N0
           /\ list_insert(h, W, N0).next[N0] = Tl
           /\ list_insert(h, W, N0).prev[N0] = Hd
BY NodeFacts DEF list_insert, list_insert_front, SetNext, SetPrev, Heap, Hd

LEMMA PopKeeps ==
    ASSUME NEW h \in Heap, NoThreadLinked(h)
    PROVE  /\ list_pop(h, W) \in Heap /\ NoThreadLinked(list_pop(h, W))
           /\ \A t \in Thread : Popped(h, W) # NodeOf(t)
<1> DEFINE n == h.next[Hd]
<1>0. n \in Node \cup {NULL} /\ \A t \in Thread : n # NodeOf(t)
  BY LinkOf, NodeFacts
<1>1. Deleted(h, W, n) \in {n, NULL}
  BY DEF Deleted
<1>2. \A t \in Thread : Popped(h, W) # NodeOf(t)
  BY <1>0, <1>1, NodeFacts DEF Popped, Hd
<1>3. CASE list_isEmpty(h, W) \/ Deleted(h, W, n) = NULL
  BY <1>2, <1>3 DEF list_pop, list_delete, Hd
<1>4. CASE ~list_isEmpty(h, W) /\ Deleted(h, W, n) # NULL
  <2>0. n \in Node
    BY <1>0, <1>1, <1>4
  <2> DEFINE h1 == SetNext(h, h.prev[n], h.next[n])
  <2> DEFINE h2 == SetPrev(h1, h1.next[n], h1.prev[n])
  <2> DEFINE h3 == SetNext(h2, n, NULL)
  <2> DEFINE h4 == SetPrev(h3, n, NULL)
  <2>1. list_pop(h, W) = h4
    BY <1>4 DEF list_pop, list_delete, Hd
  <2> HIDE DEF n
  <2>2. h1 \in Heap /\ NoThreadLinked(h1)
    BY <2>0, SetKeeps, LinkOf
  <2> HIDE DEF h1
  <2>3. h2 \in Heap /\ NoThreadLinked(h2)
    BY <2>0, <2>2, SetKeeps, LinkOf
  <2> HIDE DEF h2
  <2>4. h3 \in Heap /\ NoThreadLinked(h3)
    BY <2>0, <2>3, SetKeeps, NodeFacts
  <2> HIDE DEF h3
  <2>5. h4 \in Heap /\ NoThreadLinked(h4)
    BY <2>0, <2>4, SetKeeps, NodeFacts
  <2>6. QED
    BY <1>2, <2>1, <2>5
<1>5. QED
  BY <1>3, <1>4

(* The list of waiters is one of the lists of module ListUse, which shows   *)
(* what a traversal reaches; the operators of List are the same there.      *)
LU == INSTANCE ListUseProofs WITH ListId <- {W}, Item <- AllNodes \ {HeadNode(W), TailNode(W)}, done <- 0

(* The first node of the list of waiters is found by list_delete.           *)
LEMMA FirstWaiterReached ==
    ASSUME NEW h \in Heap, h.next[Hd] \in Node
    PROVE  Reaches(h, W, h.next[Hd])
<1>1. LU!NodeAssumption /\ LU!NullAssumption
  BY NodesFinite, NodeAssumption, NullAssumption
     DEF LU!NodeAssumption, LU!NullAssumption, LU!AllNodes, LU!Sentinel, AllNodes, HeadNode, TailNode,
     NodeOf, IsFiniteSet, LU!IsFiniteSet
<1>2. h \in LU!Heap /\ LU!IsFiniteSet(Node) /\ LU!HeadNode(W) = Hd /\ Hd \in Node
  BY NodesFinite, NodeFacts DEF Heap, LU!Heap, HeadNode, LU!HeadNode, Hd, IsFiniteSet, LU!IsFiniteSet
<1>3. LU!Reaches(h, W, h.next[Hd])
  BY <1>1, <1>2, LU!FirstIsReached
<1>4. Walk(h, W) = LU!Walk(h, W)
  BY DEF Walk, LU!Walk, HeadNode, LU!HeadNode, Cardinality, LU!Cardinality
<1> QED
  BY <1>3, <1>4 DEF Reaches, LU!Reaches, Visited, LU!Visited

(* list_pop of the only waiter leaves an empty list.                         *)
LEMMA PopLinks ==
    ASSUME NEW h \in Heap, h.next[Hd] = N0, h.next[N0] = Tl, h.prev[N0] = Hd
    PROVE  list_pop(h, W).next[Hd] = Tl
<1>1. Reaches(h, W, N0)
  <2>1. HeadNode(W) \in Node /\ h.next[HeadNode(W)] = N0 /\ N0 \in Node
    BY NodeFacts DEF Hd
  <2>2. QED
    BY <2>1, FirstWaiterReached
<1>2. Deleted(h, W, N0) = N0
  BY <1>1, NodeFacts DEF Deleted, Hd, Tl
<1>3. ~list_isEmpty(h, W) /\ N0 # NULL
  BY NodeFacts DEF list_isEmpty, Hd, Tl
<1>4. QED
  BY <1>2, <1>3, NodeFacts DEF list_pop, list_delete, SetNext, SetPrev, Heap, Hd, Tl

-----------------------------------------------------------------------------
(* The units in hand, counted.                                              *)
LEMMA InHandCount == IsFiniteSet(InHand) /\ Cardinality(InHand) \in Nat
<1>1. InHand \subseteq Thread
  BY DEF InHand
<1>2. QED
  BY <1>1, SemaphoreAssumption, FS_Subset, FS_CardinalityType

(* A step of t leaves what the others have in hand alone.                   *)
OnlyMoves(t) ==
    \A u \in Thread \ {t} : HasUnit(op'[u], pc'[u]) <=> HasUnit(op[u], pc[u])

LEMMA SameUnits ==
    ASSUME NEW t \in Thread, OnlyMoves(t), HasUnit(op'[t], pc'[t]) <=> HasUnit(op[t], pc[t])
    PROVE  Cardinality(InHand') = Cardinality(InHand)
<1>1. InHand' = InHand
  BY DEF InHand, OnlyMoves
<1>2. QED
  BY <1>1

LEMMA OneMore ==
    ASSUME NEW t \in Thread, OnlyMoves(t), HasUnit(op'[t], pc'[t]), ~HasUnit(op[t], pc[t])
    PROVE  Cardinality(InHand') = Cardinality(InHand) + 1
<1>1. InHand' = InHand \cup {t} /\ t \notin InHand
  BY DEF InHand, OnlyMoves
<1>2. QED
  BY <1>1, InHandCount, FS_AddElement

LEMMA OneLess ==
    ASSUME NEW t \in Thread, OnlyMoves(t), ~HasUnit(op'[t], pc'[t]), HasUnit(op[t], pc[t])
    PROVE  Cardinality(InHand') = Cardinality(InHand) - 1
<1>1. InHand' = InHand \ {t} /\ t \in InHand
  BY DEF InHand, OnlyMoves
<1>2. QED
  BY <1>1, InHandCount, FS_RemoveElement

-----------------------------------------------------------------------------
(* The invariant is inductive, action by action.                            *)
LEMMA InitSem == Init => SemInv
<1> SUFFICES ASSUME Init PROVE SemInv
  OBVIOUS
<1>1. Unlinked \in Heap /\ NoThreadLinked(Unlinked)
  BY NodeFacts DEF Unlinked, Heap, NoThreadLinked
<1>2. heap \in Heap /\ NoThreadLinked(heap) /\ heap.next[Hd] = Tl
  <2> DEFINE h1 == SetPrev(Unlinked, Hd, NULL)
  <2> DEFINE h2 == SetNext(h1, Hd, Tl)
  <2> DEFINE h3 == SetPrev(h2, Tl, Hd)
  <2> DEFINE h4 == SetNext(h3, Tl, NULL)
  <2>0. heap = h4
    BY DEF Init, list_init, Hd, Tl
  <2>1. h1 \in Heap /\ NoThreadLinked(h1)
    BY <1>1, SetKeeps, NodeFacts
  <2> HIDE DEF h1
  <2>2. h2 \in Heap /\ NoThreadLinked(h2) /\ h2.next[Hd] = Tl
    <3>1. h2.next[Hd] = Tl
      BY <2>1, NodeFacts DEF SetNext, Heap
    <3>2. QED
      BY <3>1, <2>1, SetKeeps, NodeFacts
  <2> HIDE DEF h2
  <2>3. h3 \in Heap /\ NoThreadLinked(h3) /\ h3.next[Hd] = Tl
    <3>1. h3.next[Hd] = Tl
      BY <2>2, NodeFacts DEF SetPrev, Heap
    <3>2. QED
      BY <3>1, <2>2, SetKeeps, NodeFacts
  <2> HIDE DEF h3
  <2>4. h4 \in Heap /\ NoThreadLinked(h4) /\ h4.next[Hd] = Tl
    <3>1. h4.next[Hd] = Tl
      BY <2>3, NodeFacts DEF SetNext, Heap
    <3>2. QED
      BY <3>1, <2>3, SetKeeps, NodeFacts
  <2>5. QED
    BY <2>0, <2>4
<1>3. Cardinality(InHand) = 0
  <2>1. InHand = {}
    BY DEF Init, InHand, HasUnit
  <2>2. QED
    BY <2>1, FS_EmptySet
<1>4. SemType /\ CallInv /\ LockInv /\ ReadInv
  BY <1>2, SemaphoreAssumption DEF Init, SemType, CallInv, LockInv, ReadInv, Holds, Label
<1>5. HeapInv /\ WaitInv
  BY <1>2 DEF Init, HeapInv, WaitInv, list_isEmpty, Hd, Tl
<1>6. UnitInv
  BY <1>3, SemaphoreAssumption DEF Init, UnitInv
<1>7. QED
  BY <1>4, <1>5, <1>6 DEF SemInv

LEMMA CallKeeps ==
    ASSUME SemInv, NEW t \in Thread, NEW o \in Ops, Call(t, o)
    PROVE  SemInv'
<1> USE DEF SemInv, Call, At, Goto, sem, count
<1>1. SemType'
  BY SemaphoreAssumption DEF SemType, Label, Ops
<1>2. CallInv'
  BY DEF SemType, CallInv, Ops, Label
<1>3. LockInv'
  BY DEF SemType, LockInv, Holds, CallInv
<1>4. ReadInv'
  BY DEF SemType, ReadInv, LockInv, Holds, CallInv
<1>5. HeapInv' /\ WaitInv'
  BY DEF HeapInv, NoThreadLinked, WaitInv
<1>6. UnitInv'
  <2>1. OnlyMoves(t)
    BY DEF SemType, OnlyMoves
  <2>2. CASE o = "up"
    <3>1. Cardinality(InHand') = Cardinality(InHand) + 1
      BY <2>1, <2>2, OneMore DEF SemType, CallInv, HasUnit, Ops
    <3>2. QED
      BY <3>1, <2>2, InHandCount, SemaphoreAssumption DEF SemType, UnitInv
  <2>3. CASE o # "up"
    <3>1. Cardinality(InHand') = Cardinality(InHand)
      BY <2>1, <2>3, SameUnits DEF SemType, CallInv, HasUnit, Ops
    <3>2. QED
      BY <3>1, <2>3, InHandCount, SemaphoreAssumption DEF SemType, UnitInv
  <2>4. QED
    BY <2>2, <2>3
<1>7. QED
  BY <1>1, <1>2, <1>3, <1>4, <1>5, <1>6

LEMMA AcquireTestKeeps ==
    ASSUME SemInv, NEW t \in Thread, AcquireTest(t)
    PROVE  SemInv'
<1> USE DEF SemInv, AcquireTest, At, Goto, sem, count
<1>0. pc' = [pc EXCEPT ![t] = "spin"]
  BY DEF SemType
<1>1. SemType'
  BY SemaphoreAssumption, <1>0 DEF SemType, Label, CallInv, ReadInv
<1>2. CallInv'
  BY <1>0 DEF SemType, CallInv, Label
<1>3. LockInv'
  BY <1>0 DEF SemType, LockInv, Holds, CallInv
<1>4. ReadInv'
  BY <1>0 DEF SemType, ReadInv, LockInv, Holds, CallInv
<1>5. HeapInv' /\ WaitInv'
  BY DEF HeapInv, NoThreadLinked, WaitInv
<1>6. UnitInv'
  <2>1. OnlyMoves(t)
    BY <1>0 DEF SemType, OnlyMoves
  <2>2. Cardinality(InHand') = Cardinality(InHand)
    BY <2>1, SameUnits, <1>0 DEF SemType, CallInv, HasUnit
  <2>3. QED
    BY <2>2, InHandCount, SemaphoreAssumption, <1>0 DEF SemType, UnitInv
<1>7. QED
  BY <1>1, <1>2, <1>3, <1>4, <1>5, <1>6

LEMMA TestAndSetKeeps ==
    ASSUME SemInv, NEW t \in Thread, test_and_set(t)
    PROVE  SemInv'
<1> USE DEF SemInv, test_and_set, At, Goto, sem, count
<1>1. SemType'
  BY SemaphoreAssumption DEF SemType, Label, Ops, Body, CallInv, ReadInv
<1>2. CallInv'
  BY DEF SemType, CallInv, Body, Ops, Label
<1>3. LockInv'
  BY DEF SemType, LockInv, Holds, CallInv, Body, Ops, WasFree
<1>4. ReadInv'
  BY DEF SemType, ReadInv, LockInv, Holds, CallInv, Body, Ops
<1>5. HeapInv' /\ WaitInv'
  BY DEF HeapInv, NoThreadLinked, WaitInv
<1>6. UnitInv'
  <2>1. OnlyMoves(t)
    BY DEF SemType, OnlyMoves
  <2>2. Cardinality(InHand') = Cardinality(InHand)
    BY <2>1, SameUnits DEF SemType, CallInv, HasUnit, Body, Ops
  <2>3. QED
    BY <2>2, InHandCount, SemaphoreAssumption DEF SemType, UnitInv
<1>7. QED
  BY <1>1, <1>2, <1>3, <1>4, <1>5, <1>6

LEMMA ReleaseKeeps ==
    ASSUME SemInv, NEW t \in Thread, Release(t)
    PROVE  SemInv'
<1> USE DEF SemInv, Release, At, Goto, Forget, sem, count
<1>0. lock = 1
  BY DEF SemType, LockInv, Holds
<1>1. SemType'
  BY SemaphoreAssumption, <1>0 DEF SemType, Label, CallInv, ReadInv
<1>2. CallInv'
  BY <1>0 DEF SemType, CallInv, Label
<1>3. LockInv'
  BY <1>0 DEF SemType, LockInv, Holds, CallInv
<1>4. ReadInv'
  BY <1>0 DEF SemType, ReadInv, LockInv, Holds, CallInv
<1>5. HeapInv' /\ WaitInv'
  BY DEF HeapInv, NoThreadLinked, WaitInv
<1>6. UnitInv'
  <2>1. OnlyMoves(t)
    BY <1>0 DEF SemType, OnlyMoves
  <2>2. CASE op[t] = "up"
    <3>1. Cardinality(InHand') = Cardinality(InHand)
      BY <2>1, <2>2, SameUnits, <1>0 DEF SemType, CallInv, HasUnit
    <3>2. QED
      BY <3>1, <2>2, InHandCount, SemaphoreAssumption, <1>0 DEF SemType, UnitInv
  <2>3. CASE op[t] # "up"
    <3>1. Cardinality(InHand') = Cardinality(InHand) - 1
      BY <2>1, <2>3, OneLess, <1>0 DEF SemType, CallInv, HasUnit
    <3>2. QED
      BY <3>1, <2>3, InHandCount, SemaphoreAssumption, <1>0 DEF SemType, UnitInv
  <2>4. QED
    BY <2>2, <2>3
<1>7. QED
  BY <1>1, <1>2, <1>3, <1>4, <1>5, <1>6

LEMMA DownTestKeeps ==
    ASSUME SemInv, NEW t \in Thread, DownTest(t)
    PROVE  SemInv'
<1> USE DEF SemInv, DownTest, At, Goto, sem, count
<1>1. SemType'
  BY SemaphoreAssumption DEF SemType, Label, CallInv, ReadInv
<1>2. CallInv'
  BY DEF SemType, CallInv, Label
<1>3. LockInv'
  BY DEF SemType, LockInv, Holds, CallInv
<1>4. ReadInv'
  BY DEF SemType, ReadInv, LockInv, Holds, CallInv
<1>5. HeapInv' /\ WaitInv'
  BY DEF HeapInv, NoThreadLinked, WaitInv
<1>6. UnitInv'
  <2>1. OnlyMoves(t)
    BY DEF SemType, OnlyMoves
  <2>2. Cardinality(InHand') = Cardinality(InHand)
    BY <2>1, SameUnits DEF SemType, CallInv, HasUnit
  <2>3. QED
    BY <2>2, InHandCount, SemaphoreAssumption DEF SemType, UnitInv
<1>7. QED
  BY <1>1, <1>2, <1>3, <1>4, <1>5, <1>6

LEMMA TakeKeeps ==
    ASSUME SemInv, NEW t \in Thread, Take(t)
    PROVE  SemInv'
<1> USE DEF SemInv, Take, At, Goto, sem, count
<1>1. SemType'
  BY SemaphoreAssumption DEF SemType, Label, CallInv, ReadInv
<1>2. CallInv'
  BY DEF SemType, CallInv, Label
<1>3. LockInv'
  BY DEF SemType, LockInv, Holds, CallInv
<1>4. ReadInv'
  BY DEF SemType, ReadInv, LockInv, Holds, CallInv
<1>5. HeapInv' /\ WaitInv'
  BY DEF HeapInv, NoThreadLinked, WaitInv
<1>6. UnitInv'
  <2>1. OnlyMoves(t)
    BY DEF SemType, OnlyMoves
  <2>2. Cardinality(InHand') = Cardinality(InHand) + 1
    BY <2>1, OneMore DEF SemType, CallInv, HasUnit
  <2>3. QED
    BY <2>2, InHandCount, SemaphoreAssumption DEF SemType, UnitInv, ReadInv
<1>7. QED
  BY <1>1, <1>2, <1>3, <1>4, <1>5, <1>6

LEMMA RefuseKeepsInv ==
    ASSUME SemInv, NEW t \in Thread, Refuse(t)
    PROVE  SemInv'
<1> USE DEF SemInv, Refuse, At, Goto, Forget, sem, count
<1>0. lock = 1
  BY DEF SemType, LockInv, Holds
<1>1. SemType'
  BY SemaphoreAssumption, <1>0 DEF SemType, Label, CallInv, ReadInv
<1>2. CallInv'
  BY <1>0 DEF SemType, CallInv, Label
<1>3. LockInv'
  BY <1>0 DEF SemType, LockInv, Holds, CallInv
<1>4. ReadInv'
  BY <1>0 DEF SemType, ReadInv, LockInv, Holds, CallInv
<1>5. HeapInv' /\ WaitInv'
  BY DEF HeapInv, NoThreadLinked, WaitInv
<1>6. UnitInv'
  <2>1. OnlyMoves(t)
    BY <1>0 DEF SemType, OnlyMoves
  <2>2. Cardinality(InHand') = Cardinality(InHand)
    BY <2>1, SameUnits, <1>0 DEF SemType, CallInv, HasUnit
  <2>3. QED
    BY <2>2, InHandCount, SemaphoreAssumption, <1>0 DEF SemType, UnitInv
<1>7. QED
  BY <1>1, <1>2, <1>3, <1>4, <1>5, <1>6

LEMMA LinkKeeps ==
    ASSUME SemInv, NEW t \in Thread, Link(t)
    PROVE  SemInv'
<1> USE DEF SemInv, Link, At, Goto, sem, count
<1>1. SemType'
  BY SemaphoreAssumption, InsertKeeps DEF SemType, Label, CallInv, ReadInv, HeapInv, owner, N0
<1>2. CallInv'
  BY DEF SemType, CallInv, Label
<1>3. LockInv'
  BY DEF SemType, LockInv, Holds, CallInv
<1>4. ReadInv'
  BY DEF SemType, ReadInv, LockInv, Holds, CallInv
<1>5. HeapInv' /\ WaitInv'
  <2>1. NoThreadLinked(heap')
    BY InsertKeeps DEF SemType, HeapInv, owner, N0
  <2>2. CASE "twice" \in incidents'
    BY <2>1, <2>2 DEF HeapInv, WaitInv
  <2>3. CASE "twice" \notin incidents'
    <3>1. "twice" \notin incidents /\ heap.next[Hd] = Tl
      BY <2>3 DEF Meet, list_isEmpty, Hd, Tl
    <3>2. heap'.next[Hd] = N0 /\ heap'.next[N0] = Tl /\ heap'.prev[N0] = Hd
      BY <3>1, InsertLinks DEF SemType, owner, N0
    <3>3. HeapInv'
      BY <2>1, <3>2 DEF HeapInv
    <3>4. WaitInv'
      BY <3>1 DEF SemType, WaitInv
    <3>5. QED
      BY <3>3, <3>4
  <2>4. QED
    BY <2>2, <2>3
<1>6. UnitInv'
  <2>1. OnlyMoves(t)
    BY DEF SemType, OnlyMoves
  <2>2. Cardinality(InHand') = Cardinality(InHand)
    BY <2>1, SameUnits DEF SemType, CallInv, HasUnit
  <2>3. QED
    BY <2>2, InHandCount, SemaphoreAssumption DEF SemType, UnitInv
<1>7. QED
  BY <1>1, <1>2, <1>3, <1>4, <1>5, <1>6

LEMMA UnlockKeeps ==
    ASSUME SemInv, NEW t \in Thread, Unlock(t)
    PROVE  SemInv'
<1> USE DEF SemInv, Unlock, At, Goto, sem, count
<1>0. lock = 1
  BY DEF SemType, LockInv, Holds
<1>1. SemType'
  BY SemaphoreAssumption, <1>0 DEF SemType, Label, CallInv, ReadInv
<1>2. CallInv'
  BY <1>0 DEF SemType, CallInv, Label
<1>3. LockInv'
  BY <1>0 DEF SemType, LockInv, Holds, CallInv
<1>4. ReadInv'
  BY <1>0 DEF SemType, ReadInv, LockInv, Holds, CallInv
<1>5. HeapInv' /\ WaitInv'
  BY DEF HeapInv, NoThreadLinked, WaitInv
<1>6. UnitInv'
  <2>1. OnlyMoves(t)
    BY <1>0 DEF SemType, OnlyMoves
  <2>2. Cardinality(InHand') = Cardinality(InHand)
    BY <2>1, SameUnits, <1>0 DEF SemType, CallInv, HasUnit
  <2>3. QED
    BY <2>2, InHandCount, SemaphoreAssumption, <1>0 DEF SemType, UnitInv
<1>7. QED
  BY <1>1, <1>2, <1>3, <1>4, <1>5, <1>6

LEMMA BlockKeeps ==
    ASSUME SemInv, NEW t \in Thread, Block(t)
    PROVE  SemInv'
<1> USE DEF SemInv, Block, At, Goto, sem, count
<1>1. SemType'
  BY SemaphoreAssumption DEF SemType, Label, CallInv, ReadInv
<1>2. CallInv'
  BY DEF SemType, CallInv, Label
<1>3. LockInv'
  BY DEF SemType, LockInv, Holds, CallInv
<1>4. ReadInv'
  BY DEF SemType, ReadInv, LockInv, Holds, CallInv
<1>5. HeapInv' /\ WaitInv'
  BY DEF HeapInv, NoThreadLinked, WaitInv
<1>6. UnitInv'
  <2>1. OnlyMoves(t)
    BY DEF SemType, OnlyMoves
  <2>2. CASE UNCHANGED <<op, returned>>
    <3>1. Cardinality(InHand') = Cardinality(InHand)
      BY <2>1, <2>2, SameUnits DEF SemType, CallInv, HasUnit
    <3>2. QED
      BY <3>1, <2>2, InHandCount, SemaphoreAssumption DEF SemType, UnitInv
  <2>3. CASE returned' = returned + 1
    <3>1. Cardinality(InHand') = Cardinality(InHand) + 1
      BY <2>1, <2>3, OneMore DEF SemType, CallInv, HasUnit
    <3>2. QED
      BY <3>1, <2>3, InHandCount, SemaphoreAssumption DEF SemType, UnitInv
  <2>4. QED
    BY <2>2, <2>3
<1>7. QED
  BY <1>1, <1>2, <1>3, <1>4, <1>5, <1>6

LEMMA UpTestKeeps ==
    ASSUME SemInv, NEW t \in Thread, UpTest(t)
    PROVE  SemInv'
<1> USE DEF SemInv, UpTest, At, Goto, sem, count
<1>1. SemType'
  BY SemaphoreAssumption DEF SemType, Label, CallInv, ReadInv
<1>2. CallInv'
  BY DEF SemType, CallInv, Label
<1>3. LockInv'
  BY DEF SemType, LockInv, Holds, CallInv
<1>4. ReadInv'
  BY DEF SemType, ReadInv, LockInv, Holds, CallInv
<1>5. HeapInv' /\ WaitInv'
  BY DEF HeapInv, NoThreadLinked, WaitInv
<1>6. UnitInv'
  <2>1. OnlyMoves(t)
    BY DEF SemType, OnlyMoves
  <2>2. Cardinality(InHand') = Cardinality(InHand)
    BY <2>1, SameUnits DEF SemType, CallInv, HasUnit
  <2>3. QED
    BY <2>2, InHandCount, SemaphoreAssumption DEF SemType, UnitInv
<1>7. QED
  BY <1>1, <1>2, <1>3, <1>4, <1>5, <1>6

LEMMA GiveKeeps ==
    ASSUME SemInv, NEW t \in Thread, Give(t)
    PROVE  SemInv'
<1> USE DEF SemInv, Give, At, Goto, sem, count
<1>1. SemType'
  BY SemaphoreAssumption DEF SemType, Label, CallInv, ReadInv
<1>2. CallInv'
  BY DEF SemType, CallInv, Label
<1>3. LockInv'
  BY DEF SemType, LockInv, Holds, CallInv
<1>4. ReadInv'
  BY DEF SemType, ReadInv, LockInv, Holds, CallInv
<1>5. HeapInv' /\ WaitInv'
  BY DEF HeapInv, NoThreadLinked, WaitInv
<1>6. UnitInv'
  <2>1. OnlyMoves(t)
    BY DEF SemType, OnlyMoves
  <2>2. Cardinality(InHand') = Cardinality(InHand) - 1
    BY <2>1, OneLess DEF SemType, CallInv, HasUnit
  <2>3. QED
    BY <2>2, InHandCount, SemaphoreAssumption DEF SemType, UnitInv, ReadInv
<1>7. QED
  BY <1>1, <1>2, <1>3, <1>4, <1>5, <1>6

LEMMA WakeKeeps ==
    ASSUME SemInv, NEW t \in Thread, Wake(t)
    PROVE  SemInv'
<1> USE DEF SemInv, Wake, At, Goto, sem, count
<1>0. /\ pc' = [pc EXCEPT ![t] = "release"] /\ op' = op
      /\ heap' \in Heap /\ NoThreadLinked(heap')
  <2>1. /\ heap' \in Heap /\ NoThreadLinked(heap')
        /\ \A u \in Thread : NodeOf(u) # Popped(heap, W)
    BY PopKeeps DEF SemType, HeapInv
  <2>2. QED
    BY <2>1 DEF SemType
<1>1. SemType'
  BY SemaphoreAssumption, <1>0 DEF SemType, Label, CallInv, ReadInv
<1>2. CallInv'
  BY <1>0 DEF SemType, CallInv, Label
<1>3. LockInv'
  BY <1>0 DEF SemType, LockInv, Holds, CallInv
<1>4. ReadInv'
  BY <1>0 DEF SemType, ReadInv, LockInv, Holds, CallInv
<1>5. HeapInv' /\ WaitInv'
  <2>1. CASE "twice" \in incidents'
    BY <1>0, <2>1 DEF HeapInv, WaitInv
  <2>2. CASE "twice" \notin incidents'
    <3>1. heap.next[Hd] = N0 /\ heap.next[N0] = Tl /\ heap.prev[N0] = Hd /\ ~list_isEmpty(heap, W)
      BY <2>2 DEF HeapInv, ReadInv, list_isEmpty, Hd, Tl
    <3>2. heap'.next[Hd] = Tl
      BY <3>1, PopLinks DEF SemType
    <3>3. HeapInv'
      BY <1>0, <3>2 DEF HeapInv
    <3>4. WaitInv'
      BY <2>2, <3>1, <3>2 DEF SemType, WaitInv, list_isEmpty, Hd, Tl
    <3>5. QED
      BY <3>3, <3>4
  <2>3. QED
    BY <2>1, <2>2
<1>6. UnitInv'
  <2>1. OnlyMoves(t)
    BY <1>0 DEF SemType, OnlyMoves
  <2>2. Cardinality(InHand') = Cardinality(InHand) - 1
    BY <2>1, OneLess, <1>0 DEF SemType, CallInv, HasUnit
  <2>3. QED
    BY <2>2, InHandCount, SemaphoreAssumption, <1>0 DEF SemType, UnitInv
<1>7. QED
  BY <1>1, <1>2, <1>3, <1>4, <1>5, <1>6

LEMMA KillKeeps ==
    ASSUME SemInv, NEW t \in Thread, Kill(t)
    PROVE  SemInv'
<1> USE DEF SemInv, Kill, At, Goto, Forget, sem, count
<1>1. SemType'
  BY SemaphoreAssumption DEF SemType, Label, CallInv, ReadInv
<1>2. CallInv'
  BY DEF SemType, CallInv, Label
<1>3. LockInv'
  BY DEF SemType, LockInv, Holds, CallInv
<1>4. ReadInv'
  BY DEF SemType, ReadInv, LockInv, Holds, CallInv
<1>5. HeapInv' /\ WaitInv'
  BY DEF HeapInv, NoThreadLinked, WaitInv
<1>6. UnitInv'
  <2>1. OnlyMoves(t)
    BY DEF SemType, OnlyMoves
  <2>2. CASE HasUnit(op[t], pc[t])
    <3>1. Cardinality(InHand') = Cardinality(InHand) - 1
      BY <2>1, <2>2, OneLess DEF SemType, CallInv, HasUnit
    <3>2. QED
      BY <3>1, <2>2, InHandCount, SemaphoreAssumption DEF SemType, UnitInv
  <2>3. CASE ~HasUnit(op[t], pc[t])
    <3>1. Cardinality(InHand') = Cardinality(InHand)
      BY <2>1, <2>3, SameUnits DEF SemType, CallInv, HasUnit
    <3>2. QED
      BY <3>1, <2>3, InHandCount, SemaphoreAssumption DEF SemType, UnitInv
  <2>4. QED
    BY <2>2, <2>3
<1>7. QED
  BY <1>1, <1>2, <1>3, <1>4, <1>5, <1>6

LEMMA NextKeeps == SemInv /\ [Next]_vars => SemInv'
<1> SUFFICES ASSUME SemInv, [Next]_vars PROVE SemInv'
  OBVIOUS
<1>1. CASE UNCHANGED vars
  BY <1>1 DEF SemInv, SemType, CallInv, LockInv, Holds, ReadInv, HeapInv, NoThreadLinked,
              UnitInv, InHand, WaitInv, vars, sem, count
<1>2. CASE Next
  <2>1. PICK t \in Thread : Step(t) \/ Kill(t) \/ \E o \in Ops : Call(t, o)
    BY <1>2 DEF Next
  <2>2. CASE Step(t)
    BY <2>2, AcquireTestKeeps, TestAndSetKeeps, ReleaseKeeps, DownTestKeeps, TakeKeeps,
       RefuseKeepsInv, LinkKeeps, UnlockKeeps, BlockKeeps, UpTestKeeps, GiveKeeps, WakeKeeps
       DEF Step
  <2>3. CASE Kill(t)
    BY <2>3, KillKeeps
  <2>4. CASE \E o \in Ops : Call(t, o)
    BY <2>4, CallKeeps
  <2>5. QED
    BY <2>1, <2>2, <2>3, <2>4
<1>3. QED
  BY <1>1, <1>2

LEMMA SemInvBalances == SemInv => UnitsBalance
<1> SUFFICES ASSUME SemInv PROVE UnitsBalance
  OBVIOUS
<1>1. val >= 0 /\ (returned = 0 => ended <= InitVal + began)
  BY InHandCount, SemaphoreAssumption DEF SemInv, SemType, UnitInv
<1>2. Quiet => Cardinality(InHand) = 0
  <2>1. Quiet => InHand = {}
    BY DEF Quiet, InHand, HasUnit
  <2>2. QED
    BY <2>1, FS_EmptySet
<1>3. Quiet /\ "killed" \notin incidents => val + ended + lost = InitVal + began + returned
  BY <1>2, SemaphoreAssumption DEF SemInv, SemType, UnitInv
<1>4. QED
  BY <1>1, <1>3 DEF UnitsBalance, SemInv, WaitInv

(* No semaphore has more units than it was given: the spin lock makes the   *)
(* read of s->val and its write one step, no two downs take the same unit,  *)
(* and the ups that waiters swallow are the only units that go missing.     *)
THEOREM UnitsAreBalanced == Spec => []UnitsBalance
<1>1. QED
  BY InitSem, NextKeeps, SemInvBalances, PTL DEF Spec
=============================================================================
