-------------------------------- MODULE List --------------------------------
(***************************************************************************)
(* libk/list.c: the intrusive doubly linked list of the kernel, at the     *)
(* level of its pointers.                                                  *)
(*                                                                         *)
(* A list l is a pair of sentinel nodes; every other node is a field of    *)
(* the structure that is linked (struct thread, struct process, ...), so a *)
(* node can be reached from a list it was never inserted in, or be linked  *)
(* twice.  The scheduler does both, hence a heap of links and no           *)
(* sequences.  A heap is a record of two functions from nodes to nodes or  *)
(* NULL; the operators map a heap to a heap.                               *)
(*                                                                         *)
(* The kernel runs without paging: an assignment through NULL lands in     *)
(* physical page 0, where no list node lives, so it is dropped.  No        *)
(* function of list.c reads a link through NULL.                           *)
(***************************************************************************)
EXTENDS Naturals, Sequences, FiniteSets

CONSTANTS Node, \* every list_node_t of the system, the sentinels included
          NULL

ASSUME NullAssumption == NULL \notin Node

Heap == [next : [Node -> Node \cup {NULL}], prev : [Node -> Node \cup {NULL}]]

(* &list->head and &list->tail.                                            *)
HeadNode(l) == <<"head", l>>
TailNode(l) == <<"tail", l>>

(* a->next = b and a->prev = b.                                            *)
SetNext(h, a, b) ==
    IF a = NULL THEN h ELSE [h EXCEPT !.next = [@ EXCEPT ![a] = b]]
SetPrev(h, a, b) ==
    IF a = NULL THEN h ELSE [h EXCEPT !.prev = [@ EXCEPT ![a] = b]]

list_init(h, l) ==
    LET h1 == SetPrev(h, HeadNode(l), NULL)
        h2 == SetNext(h1, HeadNode(l), TailNode(l))
        h3 == SetPrev(h2, TailNode(l), HeadNode(l))
    IN  SetNext(h3, TailNode(l), NULL)

list_insert_front(h, head, node) ==
    LET h1 == SetPrev(h, h.next[head], node)
        h2 == SetNext(h1, node, h1.next[head])
        h3 == SetNext(h2, head, node)
    IN  SetPrev(h3, node, head)

list_insert(h, l, node) == list_insert_front(h, HeadNode(l), node)

(* mutant: the old last node still leads to the tail.                        *)
list_insert_end_unlinked(h, tail, node) ==
    SetNext(SetPrev(SetPrev(h, node, h.prev[tail]), tail, node), node, tail)

list_insert_end(h, tail, node) ==
    LET h1 == SetNext(h, h.prev[tail], node)
        h2 == SetPrev(h1, node, h1.prev[tail])
        h3 == SetPrev(h2, tail, node)
    IN  SetNext(h3, node, tail)

(* The nodes a traversal from the head comes to, in order.  There are        *)
(* Cardinality(Node) nodes: a traversal that leaves the list has met NULL    *)
(* after as many steps, one that has not is in a cycle and goes on for ever. *)
Walk(h, l) ==
    LET from[p \in Nat \X (DOMAIN h.next \cup {NULL})] ==
            LET n == p[1]  a == p[2] IN
            IF n = 0 \/ a = NULL THEN <<a>> ELSE <<a>> \o from[<<n - 1, h.next[a]>>]
    IN  from[<<Cardinality(DOMAIN h.next), HeadNode(l)>>]

Visited(h, l) == LET w == Walk(h, l) IN {w[i] : i \in 1..Len(w)} \ {NULL}

Reaches(h, l, node) == node \in Visited(h, l)

Ends(h, l) == LET w == Walk(h, l) IN w[Len(w)] = NULL

(* The loop of list_delete leaves at the node or at NULL.                  *)
DeleteTerminates(h, l, node) == Reaches(h, l, node) \/ Ends(h, l)

(* What list_delete returns: the node, or NULL if it is not on the list.   *)
Deleted(h, l, node) ==
    IF Reaches(h, l, node) /\ node \notin {HeadNode(l), TailNode(l)}
    THEN node
    ELSE NULL

(* mutant: the link back from the successor is forgotten.                    *)
list_delete_oneway(h, l, node) ==
    IF Deleted(h, l, node) = NULL THEN h
    ELSE SetPrev(SetNext(SetNext(h, h.prev[node], h.next[node]), node, NULL), node, NULL)

list_delete(h, l, node) ==
    IF Deleted(h, l, node) = NULL THEN h
    ELSE LET h1 == SetNext(h, h.prev[node], h.next[node])
             h2 == SetPrev(h1, h1.next[node], h1.prev[node])
         IN  SetPrev(SetNext(h2, node, NULL), node, NULL)

list_isEmpty(h, l) == h.next[HeadNode(l)] = TailNode(l)

(* What list_pop returns, and the heap it leaves.                          *)
Popped(h, l) == IF list_isEmpty(h, l) THEN NULL ELSE Deleted(h, l, h.next[HeadNode(l)])

list_pop(h, l) ==
    IF list_isEmpty(h, l) THEN h ELSE list_delete(h, l, h.next[HeadNode(l)])

(* list_size counts the steps from head.next to the first node without a     *)
(* successor, which is the tail when the list is intact; w is the head, the  *)
(* nodes counted, that last node and NULL.                                   *)
list_size(h, l) ==
    LET w == Walk(h, l) IN IF Len(w) < 3 THEN 0 ELSE Len(w) - 3

-----------------------------------------------------------------------------
(* The list is what its interface promises: the traversal ends at the tail,  *)
(* and every link forward is matched by the link back.                       *)
Intact(h, l) ==
    LET w == Walk(h, l) n == Len(w) IN
    /\ n > 2 /\ w[n] = NULL /\ w[n - 1] = TailNode(l)
    /\ h.prev[HeadNode(l)] = NULL
    /\ \A i \in 1..(n - 2) : h.prev[w[i + 1]] = w[i]

Members(h, l) == Visited(h, l) \ {HeadNode(l), TailNode(l)}
=============================================================================
