----------------------------- MODULE KernelInv ------------------------------
(***************************************************************************)
(* What the scheduler of kernel/thread.c relies on without saying so, as   *)
(* the inductive invariant behind the theorems of KernelListProofs.        *)
(*                                                                         *)
(* A thread is named in three places: in a list, by a state, and by the    *)
(* segments of code on the stacks that have taken it in hand.  The parts   *)
(* of the invariant say how these agree between any two steps, while any   *)
(* number of threads have been stopped by the timer in the middle of       *)
(* thread_create, thread_exit, thread_kill or schedule.                    *)
(***************************************************************************)
EXTENDS Kernel

(* The threads on list l of heap h.                                         *)
Held(h, l) == {t \in Thread : TNode(t) \in L!Members(h, l)}
Ready   == Held(heap, "ready")
Blocked == Held(heap, "blocked")
Dying   == Held(heap, "dying")
Listed  == Ready \cup Blocked \cup Dying

(* The frame at depth d of stack s, counted from the bottom.                *)
FD(s, d) == s[Len(s) + 1 - d]

(* Segments of schedule that have the next thread in hand, and segments of  *)
(* other functions that have a thread in hand which is on no list.          *)
Inside == {"demote", "enqueue", "self_dying", "switch"}
Claim  == {"tc_insert", "cleanup", "pfree_thread"}

(* What may lie above schedule on a stack, and what calls others and so     *)
(* lies below all the rest.                                                 *)
Over   == {"notify", "unblock", "irq_return", "schedule"} \cup Inside
Deep   == {"exit", "proc_kill", "proc_kill_next", "palloc_proc", "boot_sti", "shell_call",
           "body", "shell", "idle", "execute", "null_return", "yield_loop"}

(* What kmain's stack consists of.                                          *)
BootPcs == {"idle_made", "link_init", "palloc", "palloc_thread", "tc_insert", "palloc_proc",
            "num_live_set", "link_proc", "boot_sti", "yield_loop", "irq_return", "schedule"}

(* t runs or may run again; t has been made by thread_create.               *)
Alive(t) == t = cur \/ (t \in tpages /\ state[t] \in {"READY", "BLOCKED"})
Created(t) == t \in tpages \/ state[t] = "DYING"

-----------------------------------------------------------------------------
(* The stacks.  A frame works on what its function is called with, and the  *)
(* NULL under thread_execute is only reached by a thread that is dying.     *)
Sorted(t) ==
    \A d, e \in 1..Len(stk[t]) :
        d < e /\ FD(stk[t], e).pc \in Deep => FD(stk[t], d).pc \in Deep

FrameOK(t, f) ==
    /\ f.pc \in {"kill", "kill_rest"} => f.arg \in CmdThread /\ f.arg # t /\ Created(f.arg)
    /\ f.pc \in {"proc_kill", "proc_kill_next"} => f.arg \in CmdProc
    /\ f.pc = "shell_call" => f.arg \in CmdProc \cup {NULL}
    /\ f.pc = "body" => parent[t] \in CmdProc
    /\ f.pc # "init_threads"
    /\ t = BootT => f.pc \notin {"execute", "shell"}
    /\ t = IdleT => f.pc \notin Deep \ {"execute", "null_return", "idle", "exit"}

NextTo(t, d) ==
    /\ FD(stk[t], d).pc = "null_return" /\ state[t] # "DYING" =>
         d < Len(stk[t]) /\ FD(stk[t], d + 1).pc \in {"execute", "exit"}
    /\ FD(stk[t], d).pc = "exit" /\ t = IdleT =>
         d < Len(stk[t]) /\ FD(stk[t], d + 1).pc = "idle"
    /\ FD(stk[t], d).pc = "idle_made" =>
         t = BootT /\ \E e \in 1..(d - 1) : FD(stk[t], e).pc = "palloc_proc"

StackOK(t) ==
    Sorted(t) /\ \A d \in 1..Len(stk[t]) : FrameOK(t, FD(stk[t], d)) /\ NextTo(t, d)
StackInv == \A t \in Thread : StackOK(t)

-----------------------------------------------------------------------------
(* A thread that waits for the CPU goes on in finish_schedule.              *)
Parked ==
    \A t \in tpages \ {cur} :
        state[t] \in {"READY", "BLOCKED"} => stk[t] # <<>> /\ Head(stk[t]).pc = "finish"

(* The current thread is READY, BLOCKED or DYING only on its way through    *)
(* schedule, and a dying one has no other thread in hand.                   *)
Limbo(pcs) ==
    \E d \in 1..Len(stk[cur]) :
        /\ FD(stk[cur], d).pc \in pcs
        /\ \A e \in (d + 1)..Len(stk[cur]) : FD(stk[cur], e).pc \in Over
LimboInv ==
    /\ state[cur] = "DYING" =>
         /\ Limbo(Inside \cup {"schedule"})
         /\ \A d \in 1..Len(stk[cur]) : FD(stk[cur], d).pc \notin Claim
    /\ state[cur] \in {"READY", "BLOCKED"} /\ cur # BootT =>
         Limbo(Inside \cup {"schedule", "finish"})

(* A thread that is about to be linked or freed is on no list, and one      *)
(* frame at most is about to do so.                                         *)
ClaimOK(f) ==
    /\ f.arg \in tpages \ Listed /\ f.arg # cur
    /\ state[f.arg] = IF f.pc = "tc_insert" THEN "READY" ELSE "DYING"
Unclaimed(t) ==
    \A u \in Thread : Alive(u) => \A d \in 1..Len(stk[u]) :
        FD(stk[u], d).pc \in Claim => FD(stk[u], d).arg # t
ClaimInv ==
    /\ \A u \in Thread : Alive(u) => \A d \in 1..Len(stk[u]) :
         FD(stk[u], d).pc \in Claim => ClaimOK(FD(stk[u], d))
    /\ \A u, v \in Thread : Alive(u) /\ Alive(v) =>
         \A d \in 1..Len(stk[u]), e \in 1..Len(stk[v]) :
            /\ FD(stk[u], d).pc \in Claim /\ FD(stk[v], e).pc \in Claim
            /\ FD(stk[u], d).arg = FD(stk[v], e).arg
            => u = v /\ d = e

(* Only the current thread is inside schedule, and the thread it has picked *)
(* is allocated, in nobody else's hand, and can be switched to.             *)
InsideOK(f, d) ==
    /\ \/ d = Len(stk[cur])
       \/ d = Len(stk[cur]) - 1 /\ Top.pc \in {"irq_return", "unblock"} /\ ~iflag
    /\ f.arg \in tpages /\ Unclaimed(f.arg)
    /\ Top.pc = "unblock" =>
         /\ f.pc = "demote" /\ f.arg = IdleT /\ Top.arg = IdleT /\ Ready = {}
         /\ IdleT = cur \/ state[IdleT] = "BLOCKED"
    /\ Top.pc # "unblock" =>
         state[f.arg] = "READY" \/ (f.arg = cur /\ state[cur] = "RUNNING")
    /\ f.pc # "demote" => state[cur] # "RUNNING"
    /\ f.pc \in {"self_dying", "switch"} /\ state[cur] = "READY" => cur \in Ready
InsideInv ==
    \A u \in Thread : \A d \in 1..Len(stk[u]) :
        FD(stk[u], d).pc \in Inside => u = cur /\ InsideOK(FD(stk[u], d), d)

(* The current thread is on the dying or the blocked list only while it is  *)
(* leaving the CPU.                                                         *)
CurHas(pcs) == \E d \in 1..Len(stk[cur]) : FD(stk[cur], d).pc \in pcs
CurListed ==
    /\ cur \in Dying => CurHas({"self_dying", "switch"})
    /\ cur \in Blocked => (At("schedule") /\ ~iflag) \/ CurHas(Inside)

MoveInv == Parked /\ LimboInv /\ ClaimInv /\ InsideInv /\ CurListed

-----------------------------------------------------------------------------
(* Lists, states and pages.                                                 *)
Pending(t) ==
    \/ \E d \in 1..Len(stk[cur]) : FD(stk[cur], d).pc \in Inside /\ FD(stk[cur], d).arg = t
    \/ \E u \in Thread : Alive(u) /\ \E d \in 1..Len(stk[u]) :
          FD(stk[u], d).pc = "tc_insert" /\ FD(stk[u], d).arg = t
StateInv ==
    /\ \A t \in Ready : state[t] = "READY" \/ (state[t] = "RUNNING" /\ t = cur)
    /\ \A t \in Blocked : state[t] = "BLOCKED"
    /\ \A t \in Dying : state[t] = "DYING"
    /\ Listed \subseteq tpages
    /\ \A t \in Thread : state[t] # "TERMINATED"
    /\ \A t \in tpages \ {BootT} :
         /\ state[t] = "BLOCKED" => t \in Blocked
         /\ state[t] = "READY" /\ t # cur /\ ~Pending(t) => t \in Ready
    /\ cur \in tpages
    /\ state[IdleT] # "DYING"

(* The tables of the command processes hold threads of commands.            *)
Tables ==
    /\ parent[IdleT] = InitP
    /\ \A p \in CmdProc : \A i \in Slot :
         threads[p][i] # NULL => threads[p][i] \in CmdThread /\ Created(threads[p][i])

(* The start-up: kmain makes the idle thread before anything else can run.  *)
IdleToCome ==
    /\ cur = BootT /\ ~iflag
    /\ \/ At("palloc_thread") /\ Top.arg = InitP
       \/ At("palloc") /\ Len(stk[cur]) > 1 /\ FD(stk[cur], Len(stk[cur]) - 1).pc = "palloc_thread"
          /\ FD(stk[cur], Len(stk[cur]) - 1).arg = InitP
BootInv ==
    /\ IdleT \notin tpages => IdleToCome
    /\ \A u \in Thread : \A d \in 1..Len(stk[u]) :
         FD(stk[u], d).pc = "tc_insert" /\ FD(stk[u], d).arg = IdleT =>
            u = BootT /\ cur = BootT /\ d = Len(stk[u]) /\ ~iflag
    /\ Booting => cur = BootT /\ BootT \notin Listed
                  /\ \A d \in 1..Len(stk[BootT]) : FD(stk[BootT], d).pc \in BootPcs

-----------------------------------------------------------------------------
(* All parts but the links of the lists themselves.                         *)
ThreadsInv == StackInv /\ MoveInv /\ StateInv /\ Tables /\ BootInv

(* thread.c, at every step: whatever threads the timer has stopped in the   *)
(* middle of creating, killing, blocking or freeing one another, each       *)
(* thread is on the list of its state, or one piece of code alone has it in *)
(* hand and will put it there or free it.                                   *)
ThreadsInHand == Without(ListFaults) /\ Up => ThreadsInv
=============================================================================
