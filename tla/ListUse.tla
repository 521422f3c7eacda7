------------------------------ MODULE ListUse -------------------------------
(***************************************************************************)
(* libk/list.c driven by code that uses it as its header intends: a node   *)
(* is inserted only while it is in no list.  The module shows that the     *)
(* links of module List then implement the sequences of module SeqLists.   *)
(* (The scheduler also inserts nodes that are linked already; what that    *)
(* does to the links is in module Kernel.)                                 *)
(***************************************************************************)
EXTENDS List

CONSTANTS ListId, Item

VARIABLES heap, done

vars == <<heap, done>>

Sentinel == {"head", "tail"} \X ListId
AllNodes == Sentinel \cup Item

ASSUME NodeAssumption ==
    /\ AllNodes \subseteq Node /\ IsFiniteSet(Node)
    /\ Item \cap Sentinel = {}

(* list_init has been called for every list, and no node is linked.        *)
Init ==
    /\ heap = [next |-> [a \in Node |-> IF a \in Sentinel /\ a[1] = "head"
                                        THEN TailNode(a[2]) ELSE NULL],
               prev |-> [a \in Node |-> IF a \in Sentinel /\ a[1] = "tail"
                                        THEN HeadNode(a[2]) ELSE NULL]]
    /\ done = <<"init">>

InNoList(n) == \A l \in ListId : ~Reaches(heap, l, n)

Insert(l, n) ==
    /\ InNoList(n)
    /\ heap' = list_insert(heap, l, n)
    /\ done' = <<"insert", l, n>>

InsertEnd(l, n) ==
    /\ InNoList(n)
    /\ heap' = list_insert_end(heap, TailNode(l), n)
    /\ done' = <<"insert_end", l, n>>

(* Any node may be asked for, a sentinel or a node of another list too.    *)
Delete(l, n) ==
    /\ DeleteTerminates(heap, l, n)
    /\ heap' = list_delete(heap, l, n)
    /\ done' = <<"delete", l, n, Deleted(heap, l, n)>>

Pop(l) ==
    /\ heap' = list_pop(heap, l)
    /\ done' = <<"pop", l, Popped(heap, l)>>

Size(l) ==
    /\ done' = <<"size", l, list_size(heap, l)>>
    /\ UNCHANGED heap

Next ==
    \E l \in ListId :
        \/ Pop(l) \/ Size(l)
        \/ \E n \in Item : Insert(l, n) \/ InsertEnd(l, n)
        \/ \E n \in Node : Delete(l, n)

Spec == Init /\ [][Next]_vars

-----------------------------------------------------------------------------
(* The nodes of list l from head to tail.                                  *)
Elements(l) == LET w == Walk(heap, l) IN SubSeq(w, 2, Len(w) - 2)

Abstract == INSTANCE SeqLists WITH lists <- [l \in ListId |-> Elements(l)]

(* Every operation of list.c does to the links what the operation of the   *)
(* same name does to the sequence, and returns the same: no node is lost,  *)
(* moved to another list, or reported deleted from a list it was not in.   *)
ImplementsSequences == Abstract!Spec

(* The links back mirror the links forward in every list, and the nodes in *)
(* no list have both links NULL.                                           *)
LinksMirror ==
    /\ \A l \in ListId : Intact(heap, l)
    /\ \A n \in Item : InNoList(n) => heap.next[n] = NULL /\ heap.prev[n] = NULL
=============================================================================
