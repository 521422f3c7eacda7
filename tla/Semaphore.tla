----------------------------- MODULE Semaphore ------------------------------
(***************************************************************************)
(* libk/synch.c: the semaphore, on the spin lock of the same file.         *)
(*                                                                         *)
(* A step is an access to the semaphore or to its lock.  The waiters are   *)
(* linked at the level of pointers (module List), for the node that        *)
(* semaphore_down links is not the caller's: it is &lock.owner->node, and  *)
(* lock.owner is NULL from spin_lock_init on.  That is an address in page  *)
(* 0, one node that all waiters share.                                     *)
(***************************************************************************)
EXTENDS Integers, List

CONSTANTS
    Thread,
    InitVal,    \* the argument of semaphore_init
    MaxCalls,   \* bound: calls of all threads
    MaxKills    \* bound: threads killed

ASSUME SemaphoreAssumption ==
    /\ InitVal \in Nat /\ MaxCalls \in Nat /\ MaxKills \in Nat
    /\ NULL \notin Thread /\ IsFiniteSet(Thread)

VARIABLES
    val, lock, heap,  \* the semaphore: s->val, s->lock.val, s->waiters
    pc, op, v,        \* a thread: where it is, in which call, the val it has read
    calls,            \* calls so far
    began, ended,     \* history: calls of semaphore_up begun, downs that returned success
    lost,             \* history: semaphore_up found a waiter
    waits, returned,  \* history: thread_block was called, came back at once
    incidents         \* history: which of the following has happened
                      \*   twice   a waiter is linked while the list is not empty
                      \*   killed  a thread is killed in a call
                      \*   orphan  ... and it held the lock

W == "waiters"
NodeOf(t) == <<"node", t>>
AllNodes == {HeadNode(W), TailNode(W)} \cup {NodeOf(t) : t \in Thread \cup {NULL}}

ASSUME NodeAssumption == Node = AllNodes

sem   == <<val, lock, heap>>
count == <<began, ended, lost, waits, returned>>
vars  == <<sem, pc, op, v, calls, count, incidents>>

Unlinked == [next |-> [n \in Node |-> NULL], prev |-> [n \in Node |-> NULL]]

(* spin_lock_init, and nothing writes it later.                             *)
owner == NULL

(* semaphore_init                                                           *)
Init ==
    /\ val = InitVal /\ lock = 0 /\ heap = list_init(Unlinked, W)
    /\ pc = [t \in Thread |-> "idle"] /\ op = [t \in Thread |-> "none"]
    /\ v = [t \in Thread |-> 0] /\ calls = 0
    /\ began = 0 /\ ended = 0 /\ lost = 0 /\ waits = 0 /\ returned = 0 /\ incidents = {}

At(t, l) == pc[t] = l
Goto(t, l) == pc' = [pc EXCEPT ![t] = l]
Forget(t) == op' = [op EXCEPT ![t] = "none"] /\ v' = [v EXCEPT ![t] = 0]
Meet(i, cond) == IF cond THEN {i} ELSE {}

Ops == {"down", "try_down", "up"}

Call(t, o) ==
    /\ At(t, "idle") /\ calls < MaxCalls
    /\ calls' = calls + 1
    /\ op' = [op EXCEPT ![t] = o]
    /\ began' = IF o = "up" THEN began + 1 ELSE began
    /\ Goto(t, "acquire")
    /\ UNCHANGED <<sem, v, ended, lost, waits, returned, incidents>>

-----------------------------------------------------------------------------
(* spin_lock_acquire: a look at the value, then test_and_set until it was 0.*)
AcquireTest(t) ==
    /\ At(t, "acquire")
    /\ Goto(t, IF lock \in {0, 1} THEN "spin" ELSE "idle")
    /\ UNCHANGED <<sem, op, v, calls, count, incidents>>

Body == [down |-> "down", try_down |-> "down", up |-> "up", woken |-> "release"]

AnyValue == TRUE               \* mutant: the old value is not looked at
WasFree == lock = 0

test_and_set(t) ==
    /\ At(t, "spin") /\ WasFree
    /\ lock' = 1
    /\ Goto(t, Body[op[t]])
    /\ UNCHANGED <<val, heap, op, v, calls, count, incidents>>

(* spin_lock_release by fetch_and_add, and the return from the call; a down *)
(* that returns 0 has its unit.                                             *)
Release(t) ==
    /\ At(t, "release")
    /\ lock' = lock - 1
    /\ ended' = IF lock = 1 /\ op[t] # "up" THEN ended + 1 ELSE ended
    /\ Goto(t, "idle") /\ Forget(t)
    /\ UNCHANGED <<val, heap, calls, began, lost, waits, returned, incidents>>

-----------------------------------------------------------------------------
(* semaphore_down and semaphore_try_down: s->val is read, then decremented. *)
DownTest(t) ==
    /\ At(t, "down")
    /\ v' = [v EXCEPT ![t] = val]
    /\ Goto(t, IF val > 0 THEN "take" ELSE IF op[t] = "down" THEN "link" ELSE "refuse")
    /\ UNCHANGED <<sem, op, calls, count, incidents>>

Take(t) ==
    /\ At(t, "take")
    /\ val' = v[t] - 1
    /\ Goto(t, "release")
    /\ UNCHANGED <<lock, heap, op, v, calls, count, incidents>>

RefuseKeeps(t) ==              \* mutant: the lock is not given back
    /\ At(t, "refuse")
    /\ Goto(t, "idle") /\ Forget(t)
    /\ UNCHANGED <<sem, calls, count, incidents>>
Refuse(t) ==
    /\ At(t, "refuse")
    /\ lock' = lock - 1
    /\ Goto(t, "idle") /\ Forget(t)
    /\ UNCHANGED <<val, heap, calls, count, incidents>>

(* __sdown                                                                  *)
Link(t) ==
    /\ At(t, "link")
    /\ heap' = list_insert(heap, W, NodeOf(owner))
    /\ incidents' = incidents \cup Meet("twice", ~list_isEmpty(heap, W))
    /\ waits' = waits + 1
    /\ Goto(t, "unlock")
    /\ UNCHANGED <<val, lock, op, v, calls, began, ended, lost, returned>>

Unlock(t) ==
    /\ At(t, "unlock")
    /\ lock' = lock - 1
    /\ Goto(t, "block")
    /\ UNCHANGED <<val, heap, op, v, calls, count, incidents>>

(* thread_block (module Kernel) blocks the thread, or does nothing if it is *)
(* not in the ready list.                                                   *)
Block(t) ==
    /\ At(t, "block")
    /\ \/ Goto(t, "blocked") /\ UNCHANGED <<op, returned>>
       \/ /\ Goto(t, "acquire")
          /\ op' = [op EXCEPT ![t] = "woken"]
          /\ returned' = returned + 1
    /\ UNCHANGED <<sem, v, calls, began, ended, lost, waits, incidents>>

-----------------------------------------------------------------------------
(* semaphore_up                                                             *)
UpTest(t) ==
    /\ At(t, "up")
    /\ v' = [v EXCEPT ![t] = val]
    /\ Goto(t, IF list_isEmpty(heap, W) THEN "give" ELSE "wake")
    /\ UNCHANGED <<sem, op, calls, count, incidents>>

Give(t) ==
    /\ At(t, "give")
    /\ val' = v[t] + 1
    /\ Goto(t, "release")
    /\ UNCHANGED <<lock, heap, op, v, calls, count, incidents>>

(* thread_unblock of the thread the node belongs to, if that is a thread.   *)
Wake(t) ==
    /\ At(t, "wake")
    /\ heap' = list_pop(heap, W)
    /\ LET woken == {u \in Thread : At(u, "blocked") /\ NodeOf(u) = Popped(heap, W)} IN
       /\ pc' = [u \in Thread |-> IF u = t THEN "release" ELSE IF u \in woken THEN "acquire" ELSE pc[u]]
       /\ op' = [u \in Thread |-> IF u \in woken THEN "woken" ELSE op[u]]
    /\ lost' = lost + 1
    /\ UNCHANGED <<val, lock, v, calls, began, ended, waits, returned, incidents>>

(* thread_kill by another thread: the locks of the thread stay locked.      *)
Holds(t) == pc[t] \in {"down", "take", "refuse", "link", "unlock", "up", "give", "wake", "release"}

Kill(t) ==
    /\ pc[t] \notin {"idle", "dead"}
    /\ Cardinality({u \in Thread : At(u, "dead")}) < MaxKills
    /\ Goto(t, "dead") /\ Forget(t)
    /\ incidents' = incidents \cup {"killed"} \cup Meet("orphan", Holds(t))
    /\ UNCHANGED <<sem, calls, count>>

-----------------------------------------------------------------------------
Step(t) ==
    \/ AcquireTest(t) \/ test_and_set(t) \/ Release(t)
    \/ DownTest(t) \/ Take(t) \/ Refuse(t) \/ Link(t) \/ Unlock(t) \/ Block(t)
    \/ UpTest(t) \/ Give(t) \/ Wake(t)

Next == \E t \in Thread : Step(t) \/ Kill(t) \/ \E o \in Ops : Call(t, o)

(* A thread that can run is scheduled again and again; nobody has to call.  *)
Spec == Init /\ [][Next]_vars /\ \A t \in Thread : WF_vars(Step(t))

-----------------------------------------------------------------------------
(* The units of the semaphore.  No more downs succeed than there were units *)
(* and ups, unless thread_block came back at once.  When no call is under   *)
(* way every unit is accounted for: an up that found a waiter gave its unit *)
(* to nobody, and as long as no two waiters were linked at a time there are *)
(* no more such ups than there were waits.                                  *)
Quiet == \A t \in Thread : pc[t] \in {"idle", "blocked"}

UnitsBalance ==
    /\ val >= 0
    /\ returned = 0 => ended <= InitVal + began
    /\ Quiet /\ "killed" \notin incidents => val + ended + lost = InitVal + began + returned
    /\ "twice" \notin incidents => lost <= waits

(* Every call returns, unless it blocks or its thread is killed, and unless *)
(* a thread was killed with the lock: all paths give the spin lock back,    *)
(* that of a refused try_down included.                                     *)
CallsReturn ==
    \A t \in Thread :
        pc[t] # "idle" ~> (pc[t] \in {"idle", "blocked", "dead"} \/ "orphan" \in incidents)
=============================================================================
