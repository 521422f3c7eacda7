------------------------------ MODULE SeqLists ------------------------------
(***************************************************************************)
(* What libk/list.c promises to code that links a node in at most one list *)
(* at a time: every list is a sequence of nodes, an insertion adds the     *)
(* node at one end, a deletion takes it out wherever it is and is refused  *)
(* for any node that is not in the list.  done is the last call with its   *)
(* arguments and what it returned.                                         *)
(***************************************************************************)
EXTENDS Naturals, SequencesExt

CONSTANTS ListId,
          Node,  \* what may be passed to a deletion
          Item,  \* the nodes that may be inserted
          NULL

VARIABLES lists, done

Linked == {n \in Item : \E l \in ListId : n \in Range(lists[l])}

Init == lists = [l \in ListId |-> <<>>] /\ done = <<"init">>

Insert(l, n) ==
    /\ n \notin Linked
    /\ lists' = [lists EXCEPT ![l] = <<n>> \o @]
    /\ done' = <<"insert", l, n>>

InsertEnd(l, n) ==
    /\ n \notin Linked
    /\ lists' = [lists EXCEPT ![l] = Append(@, n)]
    /\ done' = <<"insert_end", l, n>>

(* s without n, which it holds at most once.                               *)
Without(s, n) ==
    IF n \in Range(s) THEN RemoveAt(s, CHOOSE i \in 1..Len(s) : s[i] = n) ELSE s

Delete(l, n) ==
    /\ lists' = [lists EXCEPT ![l] = Without(@, n)]
    /\ done' = <<"delete", l, n, IF n \in Range(lists[l]) THEN n ELSE NULL>>

Pop(l) ==
    IF lists[l] = <<>>
    THEN done' = <<"pop", l, NULL>> /\ UNCHANGED lists
    ELSE /\ lists' = [lists EXCEPT ![l] = Tail(@)]
         /\ done' = <<"pop", l, Head(lists[l])>>

Size(l) == done' = <<"size", l, Len(lists[l])>> /\ UNCHANGED lists

Next ==
    \E l \in ListId :
        \/ Pop(l) \/ Size(l)
        \/ \E n \in Item : Insert(l, n) \/ InsertEnd(l, n)
        \/ \E n \in Node : Delete(l, n)

Spec == Init /\ [][Next]_<<lists, done>>
=============================================================================
