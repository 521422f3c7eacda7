------------------------------- MODULE Kernel -------------------------------
(***************************************************************************)
(* kernel/thread.c, kernel/proc.c, the timer path of kernel/isr.c and      *)
(* kernel/t_switch.asm, driven by kmain (kernel/kernel.c), by the shell    *)
(* loop (kernel/shell.c) and by the functions a process runs.              *)
(*                                                                         *)
(* One CPU.  Code is interleaved only where the timer interrupt may come   *)
(* in, that is, where iflag = TRUE and the interrupt controller has no     *)
(* interrupt in service.  A thread's stack holds frames: the top frame is  *)
(* the next segment of code the thread executes, the frames under it are   *)
(* what it returns to.  A segment ends where the code may be interrupted,  *)
(* calls a function modelled on its own, or switches stacks; a segment run *)
(* with iflag = FALSE cannot be separated from the one that follows it.    *)
(*                                                                         *)
(* A traversal or spin loop that does not terminate is a segment that is   *)
(* never enabled.                                                          *)
(***************************************************************************)
EXTENDS Integers, Sequences, FiniteSets

CONSTANTS
    BootT, IdleT, ShellT,  \* the thread kmain runs on, the idle and the shell thread
    CmdThread,             \* pages that can hold the threads of commands
    InitP, ShellP,         \* the init process (it owns idle) and the shell
    CmdProc,               \* pages that can hold the processes of commands
    NULL,
    MAX_THREAD_TICKS,      \* ticks in a time slice
    MAX_NUM_THREADS,       \* slots in process.threads
    MaxTicks,              \* bound: timer interrupts in a behaviour
    MaxCmds,               \* bound: command lines typed
    MaxCalls,              \* bound: calls of the thread interface by commands
    ShellCalls,            \* what is done with a new process: subset of {"wait", "kill"}
    Calls                  \* what a command may call: subset of
                           \* {"create", "wait", "kill", "exit", "yield"}

Thread == {BootT, IdleT, ShellT} \cup CmdThread
Proc   == {InitP, ShellP} \cup CmdProc
Slot   == 0..(MAX_NUM_THREADS - 1)
Byte   == 0..255           \* uint8_t

ASSUME ConstantsAssumption ==
    /\ MAX_THREAD_TICKS \in Nat \ {0} /\ MAX_NUM_THREADS \in Nat \ {0}
    /\ MaxTicks \in Nat /\ MaxCmds \in Nat /\ MaxCalls \in Nat
    /\ NULL \notin Thread \cup Proc
    /\ Thread \cap Proc = {}
    /\ Cardinality({BootT, IdleT, ShellT}) = 3
    /\ {BootT, IdleT, ShellT} \cap CmdThread = {}
    /\ IsFiniteSet(CmdThread) /\ IsFiniteSet(CmdProc)
    /\ InitP # ShellP /\ {InitP, ShellP} \cap CmdProc = {}
    /\ ShellCalls \subseteq {"wait", "kill"}
    /\ Calls \subseteq {"create", "wait", "kill", "exit", "yield"}

(* ready_threads, blocked_threads, dying_threads, all_procs, and the       *)
(* waiters list of every thread and process (named by its owner).          *)
ListId == {"ready", "blocked", "dying", "all"} \cup Thread \cup Proc

Node == ({"head", "tail"} \X ListId)   \* the sentinels
        \cup ({"node"} \X Thread)      \* thread.node
        \cup ({"wait"} \X Thread)      \* thread.wait_node
        \cup ({"proc"} \X Proc)        \* process.node

(* The lists are told apart by their names, and NULL is the address of none. *)
ASSUME NodeAssumption ==
    /\ {"ready", "blocked", "dying", "all"} \cap (Thread \cup Proc) = {}
    /\ NULL \notin Node

L == INSTANCE List

TNode(t) == <<"node", t>>
WNode(t) == <<"wait", t>>
PNode(p) == <<"proc", p>>

VARIABLES
    heap,          \* the links of all list nodes
    state,         \* thread.state
    wait_code,     \* thread.wait_code
    parent,        \* thread_info.p
    child_num,     \* thread.child_num
    threads,       \* process.threads
    num_live,      \* process.num_live_threads, a uint8_t
    active,        \* process.active_thread
    tpages,        \* the threads whose page is allocated
    ppages,        \* the processes whose page is allocated
    palloc_lock,   \* TRUE while some thread is inside palloc_mult
    cur,           \* the thread whose stack the CPU is on
    iflag,         \* the interrupt flag
    inService,     \* a timer interrupt was taken and not yet acknowledged
    thread_ticks,  \* timer interrupts so far
    stk,           \* the frames on every thread's stack
    eax,           \* the value the last call returned to each thread
    cmds, calls,   \* command lines typed and interface calls made so far
    incidents      \* history: which of the situations below have occurred

tables == <<parent, child_num, threads, num_live, active>>
memory == <<tpages, ppages, palloc_lock>>
cpu    == <<cur, iflag, inService, thread_ticks>>
used   == <<cmds, calls, incidents>>

vars == <<heap, state, wait_code, tables, memory, cpu, stk, eax, used>>

(* Situations the code gets into that its author did not provide for.  The  *)
(* properties below say what each of them breaks, and that nothing else     *)
(* breaks it.                                                               *)
(*   relink      schedule links the current thread in a ready list that     *)
(*               already holds it                                           *)
(*   idle_relink the same, and the current thread is idle                   *)
(*   reentered   a timer interrupt enters schedule while schedule runs      *)
(*   boot_early  schedule is entered before kmain reaches its yield loop    *)
(*   no_block    thread_block returns at once, its thread not being listed  *)
(*   lost_wake   notify takes a waiter off the list that is not blocked     *)
(*   exit_cut    a time slice ends in a thread that is inside thread_exit   *)
(*   kill_cut    a thread is killed that has yet to send the end of         *)
(*               interrupt for the interrupt in service                     *)
(*   unfinished  a thread of a process dies, or counts another one, before  *)
(*               proc_create or proc_create_thread has counted and linked   *)
(*   no_page     thread_create finds no free page                           *)
(*   half_made   a thread is killed that is inside thread_create, or that   *)
(*               thread_create has not linked yet                           *)
(*   dead_kill   a thread is killed that is DYING already                   *)
(*   reused      a new process gets a page whose table still names threads  *)
Incident == {"relink", "idle_relink", "reentered", "boot_early", "no_block",
             "lost_wake", "exit_cut", "kill_cut", "unfinished", "no_page",
             "half_made", "dead_kill", "reused"}
Meet(i, cond) == incidents' = IF cond THEN incidents \cup {i} ELSE incidents

State == {"READY", "RUNNING", "BLOCKED", "DYING", "TERMINATED"}

Label == {"init_threads", "idle_made", "link_init", "boot_sti", "yield_loop",
          "palloc", "palloc_thread", "tc_insert",
          "palloc_proc", "num_live_set", "link_proc",
          "block", "unblock", "exit", "wait", "wait_ret", "notify", "cleanup",
          "proc_cleanup", "pfree_proc", "pfree_thread", "kill", "kill_rest",
          "schedule", "demote", "enqueue", "self_dying", "switch", "finish", "sti",
          "first_eoi", "execute", "irq_return", "idle", "shell", "shell_call",
          "body", "live_inc", "proc_kill", "proc_kill_next", "null_return"}

(* The segments that work on a thread, on a process, or on either.         *)
OnThread == {"tc_insert", "unblock", "cleanup", "pfree_thread", "kill", "kill_rest",
             "demote", "enqueue", "self_dying", "switch"}
OnProc   == {"palloc_thread", "num_live_set", "link_proc", "proc_cleanup",
             "pfree_proc", "live_inc", "proc_kill", "proc_kill_next"}
OnEither == {"wait", "wait_ret", "notify"}

(* A frame: where to go on, the thread or process the segment works on,    *)
(* and two numbers (a slot, a return code, a count).                       *)
Frame == {f \in [pc : Label, arg : Thread \cup Proc \cup {NULL}, n : Int, m : Int] :
            /\ f.pc \in OnThread => f.arg \in Thread
            /\ f.pc \in OnProc => f.arg \in Proc
            /\ f.pc \in OnEither => f.arg \in Thread \cup Proc
            /\ f.pc = "shell_call" => f.arg \in Proc \cup {NULL}
            /\ f.pc = "palloc_thread" => f.n \in Slot}

Fr(pc)            == [pc |-> pc, arg |-> NULL, n |-> 0, m |-> 0]
FrA(pc, a)        == [pc |-> pc, arg |-> a, n |-> 0, m |-> 0]
FrN(pc, a, n)     == [pc |-> pc, arg |-> a, n |-> n, m |-> 0]
FrM(pc, a, n, m)  == [pc |-> pc, arg |-> a, n |-> n, m |-> m]

Top    == Head(stk[cur])
At(pc) == Len(stk[cur]) > 0 /\ Top.pc = pc

(* The top frame is done; fs is executed before what is under it.          *)
Goto(fs) == stk' = [stk EXCEPT ![cur] = fs \o Tail(@)]

-----------------------------------------------------------------------------
(* kmain up to init_processes: lists empty, interrupts off.  The boot      *)
(* stack lies in .bss, so the state read through THREAD_CUR() is           *)
(* THREAD_READY, the enumerator 0.  The boot thread belongs to no process  *)
(* that is ever cleaned; it is given the init process.                     *)
NoHeap == [next |-> [a \in Node |-> NULL], prev |-> [a \in Node |-> NULL]]

Init ==
    /\ heap = L!list_init(L!list_init(NoHeap, "all"), InitP)
    /\ state = [t \in Thread |-> "READY"]
    /\ wait_code = [t \in Thread |-> 0]
    /\ parent = [t \in Thread |-> InitP]
    /\ child_num = [t \in Thread |-> 0]
    /\ threads = [p \in Proc |-> [i \in Slot |-> NULL]]
    /\ num_live = [p \in Proc |-> 0]
    /\ active = [p \in Proc |-> NULL]
    /\ tpages = {BootT} /\ ppages = {InitP} /\ palloc_lock = FALSE
    /\ cur = BootT /\ iflag = FALSE /\ inService = FALSE /\ thread_ticks = 0
    /\ stk = [t \in Thread |->
                IF t = BootT
                THEN <<Fr("init_threads"), Fr("idle_made"), Fr("link_init"),
                       Fr("palloc"), Fr("palloc_proc"), Fr("yield_loop")>>
                ELSE <<>>]
    /\ eax = [t \in Thread |-> 0]
    /\ cmds = 0 /\ calls = 0 /\ incidents = {}

(* thread_create(p, slot): a page from palloc_mult, then its contents, then *)
(* the insertion in the ready list.                                        *)
CallThreadCreate(p, slot) == <<Fr("palloc"), FrN("palloc_thread", p, slot)>>

InitThreads ==
    /\ At("init_threads")
    /\ heap' = L!list_init(L!list_init(L!list_init(heap, "ready"), "blocked"), "dying")
    /\ Goto(CallThreadCreate(InitP, 0))
    /\ UNCHANGED <<state, wait_code, tables, memory, cpu, eax, used>>

(* The end of init_threads: the boot thread is declared blocked.           *)
IdleMade ==
    /\ At("idle_made")
    /\ state' = [state EXCEPT ![cur] = "BLOCKED"]
    /\ Goto(<<>>)
    /\ UNCHANGED <<heap, wait_code, tables, memory, cpu, eax, used>>

(* The end of init_processes.                                              *)
LinkInit ==
    /\ At("link_init")
    /\ active' = [active EXCEPT ![InitP] = threads[InitP][0]]
    /\ heap' = L!list_insert(heap, "all", PNode(InitP))
    /\ Goto(<<>>)
    /\ UNCHANGED <<state, wait_code, parent, child_num, threads, num_live,
                   memory, cpu, eax, used>>

(* After shell_init: display and logo, then sti and the yield loop.        *)
BootSti ==
    /\ At("boot_sti")
    /\ iflag' = TRUE
    /\ Goto(<<>>)
    /\ UNCHANGED <<heap, state, wait_code, tables, memory, cur, inService,
                   thread_ticks, eax, used>>

YieldLoop ==
    /\ At("yield_loop")
    /\ Goto(<<Fr("schedule"), Fr("yield_loop")>>)
    /\ UNCHANGED <<heap, state, wait_code, tables, memory, cpu, eax, used>>

-----------------------------------------------------------------------------
(* palloc_mult and pfree_mult as the thread code uses them: the spin lock   *)
(* is held from the search to the update of the bitmap, with interrupts     *)
(* possibly on.  pfree_mult waits for the lock and gives it back before it  *)
(* touches the bitmap.                                                      *)
PallocAcquire ==
    /\ At("palloc")
    /\ ~palloc_lock
    /\ palloc_lock' = TRUE
    /\ Goto(<<>>)
    /\ UNCHANGED <<heap, state, wait_code, tables, tpages, ppages, cpu, eax, used>>

(* The function the threads of p run, and the pages its threads may get.    *)
Func(p)        == CASE p = InitP -> "idle" [] p = ShellP -> "shell" [] OTHER -> "body"
ThreadPages(p) == CASE p = InitP -> {IdleT} [] p = ShellP -> {ShellT} [] OTHER -> CmdThread

(* The stack thread_create lays out: first_switch_entry, which calls        *)
(* finish_schedule and acknowledges the interrupt, then thread_execute with *)
(* NULL as its return address.                                              *)
FirstStack == <<Fr("finish"), Fr("first_eoi"), Fr("execute"), Fr("null_return")>>

(* t is laid out as thread number slot of process p.                        *)
NewThread(t, p, slot) ==
    /\ tpages' = tpages \cup {t}
    /\ state' = [state EXCEPT ![t] = "READY"]
    /\ wait_code' = [wait_code EXCEPT ![t] = 0]
    /\ parent' = [parent EXCEPT ![t] = p]
    /\ child_num' = [child_num EXCEPT ![t] = slot]
    /\ threads' = [threads EXCEPT ![p] = [@ EXCEPT ![slot] = t]]
    /\ heap' = L!list_init(heap, t)
    /\ stk' = [stk EXCEPT ![cur] = <<FrA("tc_insert", t)>> \o Tail(@),
                          ![t] = FirstStack]
    /\ UNCHANGED eax

NoThread ==
    /\ Goto(<<>>)
    /\ eax' = [eax EXCEPT ![cur] = -1]
    /\ UNCHANGED <<heap, state, wait_code, parent, child_num, threads, tpages>>

PallocThread ==
    /\ At("palloc_thread")
    /\ palloc_lock' = FALSE
    /\ \/ ThreadPages(Top.arg) \subseteq tpages /\ NoThread
       \/ \E t \in ThreadPages(Top.arg) \ tpages : NewThread(t, Top.arg, Top.n)
    /\ Meet("no_page", ThreadPages(Top.arg) \subseteq tpages)
    /\ UNCHANGED <<num_live, active, ppages, cpu, cmds, calls>>

(* The end of thread_create.                                                *)
TcInsert ==
    /\ At("tc_insert")
    /\ heap' = L!list_insert(heap, "ready", TNode(Top.arg))
    /\ iflag' = TRUE
    /\ eax' = [eax EXCEPT ![cur] = 0]
    /\ Goto(<<>>)
    /\ UNCHANGED <<state, wait_code, tables, memory, cur, inService, thread_ticks, used>>

(* proc_create up to its call of thread_create.  The loop over p->threads   *)
(* writes through the pointers the page still holds (through NULL it writes *)
(* nowhere).  The caller, kmain's shell_init or read_stdin, goes on with p, *)
(* or with NULL if no page is left.                                         *)
CallerOf(t) == IF t = BootT THEN "boot_sti" ELSE "shell_call"

NewProc(p) ==
    LET stale(t) == {i \in Slot : threads[p][i] = t}
        last(t) == CHOOSE i \in stale(t) : \A j \in stale(t) : j <= i
    IN  /\ ppages' = ppages \cup {p}
        /\ state' = [t \in Thread |-> IF stale(t) # {} THEN "TERMINATED" ELSE state[t]]
        /\ child_num' = [t \in Thread |-> IF stale(t) # {} THEN last(t) ELSE child_num[t]]
        /\ heap' = L!list_init(heap, p)
        /\ Goto(CallThreadCreate(p, 0)
                \o <<FrA("num_live_set", p), FrA("link_proc", p), FrA(CallerOf(cur), p)>>)

ProcPages == IF cur = BootT THEN {ShellP} ELSE CmdProc

PallocProc ==
    /\ At("palloc_proc")
    /\ palloc_lock' = FALSE
    /\ \/ /\ ProcPages \subseteq ppages
          /\ Goto(<<Fr(CallerOf(cur))>>)
          /\ UNCHANGED <<heap, state, child_num, ppages, incidents>>
       \/ \E p \in ProcPages \ ppages :
            /\ NewProc(p)
            /\ Meet("reused", \E i \in Slot : threads[p][i] # NULL)
    /\ UNCHANGED <<wait_code, parent, threads, num_live, active, tpages, cpu, eax,
                   cmds, calls>>

(* thread_create fails with -1, which is not the -THREAD_CREATE_FAIL that   *)
(* proc_create looks for: the count is set whatever thread_create returned. *)
NumLiveSet ==
    /\ At("num_live_set")
    /\ num_live' = [num_live EXCEPT ![Top.arg] = 1]
    /\ Goto(<<>>)
    /\ UNCHANGED <<heap, state, wait_code, parent, child_num, threads, active,
                   memory, cpu, eax, used>>

LinkProc ==
    /\ At("link_proc")
    /\ active' = [active EXCEPT ![Top.arg] = threads[Top.arg][0]]
    /\ heap' = L!list_insert_end(heap, L!TailNode("all"), PNode(Top.arg))
    /\ Goto(<<>>)
    /\ UNCHANGED <<state, wait_code, parent, child_num, threads, num_live,
                   memory, cpu, eax, used>>

PfreeProc ==
    /\ At("pfree_proc")
    /\ ~palloc_lock
    /\ ppages' = ppages \ {Top.arg}
    /\ Goto(<<>>)
    /\ UNCHANGED <<heap, state, wait_code, tables, tpages, palloc_lock, cpu, eax, used>>

(* mutant: thread_cleanup frees the thread it runs on, not its argument.    *)
PfreeCurrent ==
    /\ At("pfree_thread") /\ ~palloc_lock
    /\ tpages' = tpages \ {cur} /\ Goto(<<>>)
    /\ UNCHANGED <<heap, state, wait_code, tables, ppages, palloc_lock, cpu, eax, used>>

PfreeThread ==
    /\ At("pfree_thread")
    /\ ~palloc_lock
    /\ tpages' = tpages \ {Top.arg}
    /\ Goto(<<>>)
    /\ UNCHANGED <<heap, state, wait_code, tables, ppages, palloc_lock, cpu, eax, used>>

-----------------------------------------------------------------------------
(* thread_block                                                             *)
ThreadBlock ==
    /\ At("block")
    /\ L!DeleteTerminates(heap, "ready", TNode(cur))
    /\ LET node == L!Deleted(heap, "ready", TNode(cur))
           h == L!list_delete(heap, "ready", TNode(cur))
       IN  \/ /\ node = NULL \/ state[cur] # "RUNNING"
              /\ heap' = h
              /\ iflag' = TRUE
              /\ Goto(<<>>)
              /\ UNCHANGED state
           \/ /\ node # NULL /\ state[cur] = "RUNNING"
              /\ state' = [state EXCEPT ![cur] = "BLOCKED"]
              /\ heap' = L!list_insert(h, "blocked", node)
              /\ iflag' = FALSE
              /\ Goto(<<Fr("schedule")>>)
    /\ Meet("no_block", L!Deleted(heap, "ready", TNode(cur)) = NULL)
    /\ UNCHANGED <<wait_code, tables, memory, cur, inService, thread_ticks, eax,
                   cmds, calls>>

UnblockFlag == TRUE

ThreadUnblock ==
    /\ At("unblock")
    /\ LET t == Top.arg IN
       \/ /\ state[t] # "BLOCKED"
          /\ UNCHANGED <<heap, state>>
       \/ /\ state[t] = "BLOCKED"
          /\ L!DeleteTerminates(heap, "blocked", TNode(t))
          /\ IF L!Deleted(heap, "blocked", TNode(t)) = NULL
             THEN UNCHANGED <<heap, state>>
             ELSE /\ state' = [state EXCEPT ![t] = "READY"]
                  /\ heap' = L!list_insert(L!list_delete(heap, "blocked", TNode(t)),
                                           "ready", TNode(t))
    /\ iflag' = UnblockFlag
    /\ Goto(<<>>)
    /\ Meet("lost_wake", Top.arg # IdleT /\ state[Top.arg] # "BLOCKED")
    /\ UNCHANGED <<wait_code, tables, memory, cur, inService, thread_ticks, eax,
                   cmds, calls>>

(* thread_exit: notify with THREAD_KILL_SUCC, then thread_yield.            *)
ExitStaysReady(h) == h       \* mutant: the thread is left on the ready list
ExitLeavesReady(h) == L!list_delete(h, "ready", TNode(cur))

ThreadExit ==
    /\ At("exit")
    /\ L!DeleteTerminates(heap, "ready", TNode(cur))
    /\ heap' = ExitLeavesReady(heap)
    /\ state' = [state EXCEPT ![cur] = "DYING"]
    /\ iflag' = FALSE
    /\ Goto(<<FrN("notify", cur, 0), Fr("schedule")>>)
    /\ UNCHANGED <<wait_code, tables, memory, cur, inService, thread_ticks, eax, used>>

(* thread_wait(x) and proc_wait(x)                                          *)
Wait ==
    /\ At("wait")
    /\ heap' = L!list_insert(heap, Top.arg, WNode(cur))
    /\ Goto(<<Fr("block"), FrA("wait_ret", Top.arg)>>)
    /\ UNCHANGED <<state, wait_code, tables, memory, cpu, eax, used>>

(* thread_wait returns the thread's own wait_code, proc_wait the wait_code  *)
(* of the process, which nothing ever sets.                                 *)
WaitRet ==
    /\ At("wait_ret")
    /\ eax' = [eax EXCEPT ![cur] = IF Top.arg \in Thread THEN wait_code[cur] ELSE 0]
    /\ Goto(<<>>)
    /\ UNCHANGED <<heap, state, wait_code, tables, memory, cpu, used>>

(* One iteration of thread_notify and proc_notify, with all = true.         *)
Notify ==
    /\ At("notify")
    /\ heap' = L!list_pop(heap, Top.arg)
    /\ \/ /\ L!Popped(heap, Top.arg) = NULL
          /\ Goto(<<>>)
          /\ UNCHANGED wait_code
       \/ \E w \in Thread :
            /\ L!Popped(heap, Top.arg) = WNode(w)
            /\ wait_code' = [wait_code EXCEPT ![w] = Top.n]
            /\ Goto(<<FrA("unblock", w), Top>>)
    /\ UNCHANGED <<state, tables, memory, cpu, eax, used>>

(* Some thread is still inside proc_create or proc_create_thread for p.     *)
Creating(t, p) ==
    \E i \in 1..Len(stk[t]) :
        stk[t][i].pc \in {"num_live_set", "link_proc", "live_inc"} /\ stk[t][i].arg = p
BeingCreated(p) == \E t \in Thread : Creating(t, p)

DecrementSigned(n) == n - 1  \* mutant: a wider, signed counter
Decrement(n) == (n + 255) % 256

OneLeft(n) == n <= 1         \* mutant: off by one
NeverLast(n) == n < 0        \* mutant: the process is never cleaned up
LastGone(n) == n = 0

(* thread_cleanup up to the calls of proc_cleanup and pfree.                *)
ThreadCleanup ==
    /\ At("cleanup")
    /\ LET t == Top.arg
           p == parent[t]
           left == Decrement(num_live[p])
       IN  \/ /\ state[t] # "DYING"
              /\ Goto(<<>>)
              /\ UNCHANGED <<threads, num_live, incidents>>
           \/ /\ state[t] = "DYING"
              /\ threads' = [threads EXCEPT ![p] = [@ EXCEPT ![child_num[t]] = NULL]]
              /\ num_live' = [num_live EXCEPT ![p] = left]
              /\ Goto((IF LastGone(left)
                       THEN <<FrN("notify", p, 0), FrA("proc_cleanup", p),
                              FrA("pfree_proc", p)>>
                       ELSE <<>>)
                      \o <<FrA("pfree_thread", t)>>)
              /\ Meet("unfinished", BeingCreated(p))
    /\ UNCHANGED <<heap, state, wait_code, parent, child_num, active, memory, cpu,
                   eax, cmds, calls>>

Unlink(h, p) == L!list_delete(h, "all", PNode(p))

ProcCleanup ==
    /\ At("proc_cleanup")
    /\ L!DeleteTerminates(heap, "all", PNode(Top.arg))
    /\ heap' = Unlink(heap, Top.arg)
    /\ Goto(<<>>)
    /\ UNCHANGED <<state, wait_code, tables, memory, cpu, eax, used>>

(* thread_kill: a running thread exits instead.                             *)
ThreadKill ==
    /\ At("kill")
    /\ iflag' = FALSE
    /\ Goto((IF state[Top.arg] = "RUNNING" THEN <<Fr("exit")>> ELSE <<>>)
            \o <<FrA("kill_rest", Top.arg)>>)
    /\ UNCHANGED <<heap, state, wait_code, tables, memory, cur, inService,
                   thread_ticks, eax, used>>

KilledStays(h, l, t) == h    \* mutant: the thread is left on its list
KilledLeaves(h, l, t) == L!list_delete(h, l, TNode(t))

HalfMade(t) ==
    \E u \in Thread : \E i \in 1..Len(stk[u]) :
        stk[u][i].pc = "tc_insert" /\ (u = t \/ stk[u][i].arg = t)

(* t has an end of interrupt to send, at the end of irq_handler or of       *)
(* first_switch_entry.                                                      *)
Owes(t) == \E i \in 1..Len(stk[t]) : stk[t][i].pc \in {"irq_return", "first_eoi"}

KillRest ==
    /\ At("kill_rest")
    /\ LET t == Top.arg
           l == CASE state[t] = "READY" -> "ready" [] OTHER -> "blocked"
           listed == state[t] \in {"READY", "BLOCKED"}
           failed == listed /\ L!Deleted(heap, l, TNode(t)) = NULL
       IN  /\ listed => L!DeleteTerminates(heap, l, TNode(t))
           /\ heap' = IF listed THEN KilledLeaves(heap, l, t) ELSE heap
           /\ state' = IF listed THEN [state EXCEPT ![t] = "DYING"] ELSE state
           /\ eax' = [eax EXCEPT ![cur] = IF failed THEN -1 ELSE 0]
           /\ Goto((IF failed THEN <<>> ELSE <<FrN("notify", t, -1), FrA("cleanup", t)>>)
                   \o <<Fr("sti")>>)
    /\ incidents' = incidents
                    \cup (IF HalfMade(Top.arg) THEN {"half_made"} ELSE {})
                    \cup (IF state[Top.arg] = "DYING" THEN {"dead_kill"} ELSE {})
                    \cup (IF inService /\ Owes(Top.arg) THEN {"kill_cut"} ELSE {})
    /\ UNCHANGED <<wait_code, tables, memory, cpu, cmds, calls>>

-----------------------------------------------------------------------------
(* kmain has not reached its yield loop.                                    *)
Booting ==
    \E i \in 1..Len(stk[BootT]) : stk[BootT][i].pc \in {"palloc_proc", "boot_sti"}

(* schedule: the choice of the next thread.  The only ready thread stays in *)
(* the list; of several the first is taken out.                             *)
Schedule ==
    /\ At("schedule")
    /\ L!Ends(heap, "ready")
    /\ iflag' = FALSE
    /\ LET alone == L!list_size(heap, "ready") = 1
           next == IF alone THEN heap.next[L!HeadNode("ready")] ELSE L!Popped(heap, "ready")
       IN  /\ heap' = IF alone THEN heap ELSE L!list_pop(heap, "ready")
           /\ \/ /\ next = NULL
                 /\ Goto(<<FrA("unblock", IdleT), FrA("demote", IdleT)>>)
              \/ \E t \in Thread :
                   /\ next = TNode(t)
                   /\ Goto(<<FrA("demote", t)>>)
    /\ Meet("boot_early", Booting)
    /\ UNCHANGED <<state, wait_code, tables, memory, cur, inService, thread_ticks,
                   eax, cmds, calls>>

(* The rest of schedule, statement by statement: after thread_unblock the   *)
(* interrupts are on.  Top.arg is next_thread.                              *)
NotDemoted(s) == s           \* mutant: the state is left alone
Demoted(s) == IF s = "RUNNING" THEN "READY" ELSE s

Demote ==
    /\ At("demote")
    /\ state' = [state EXCEPT ![cur] = Demoted(@)]
    /\ Goto(<<FrA("enqueue", Top.arg)>>)
    /\ UNCHANGED <<heap, wait_code, tables, memory, cpu, eax, used>>

(* mutant: the thread that loses the CPU is not linked again.               *)
FiledDyingOnly(h, t) ==
    IF state[t] = "DYING" THEN L!list_insert(h, "dying", TNode(t)) ELSE h
Filed(h, t) ==
    CASE state[t] = "DYING" -> L!list_insert(h, "dying", TNode(t))
      [] state[t] = "READY" -> L!list_insert_end(h, L!TailNode("ready"), TNode(t))
      [] OTHER -> h

Enqueue ==
    /\ At("enqueue")
    /\ heap' = Filed(heap, cur)
    /\ Goto(<<FrA("self_dying", Top.arg)>>)
    /\ Meet(IF cur = IdleT THEN "idle_relink" ELSE "relink",
            state[cur] = "READY" /\ L!Reaches(heap, "ready", TNode(cur)))
    /\ UNCHANGED <<state, wait_code, tables, memory, cpu, eax, cmds, calls>>

SelfDying ==
    /\ At("self_dying")
    /\ Goto((IF cur = Top.arg /\ state[cur] = "DYING" THEN <<Fr("finish")>> ELSE <<>>)
            \o <<FrA("switch", Top.arg)>>)
    /\ UNCHANGED <<heap, state, wait_code, tables, memory, cpu, eax, used>>

(* No switch: schedule restores the state and returns.                      *)
NoSwitch ==
    /\ At("switch")
    /\ cur = Top.arg \/ state[Top.arg] # "READY"
    /\ state' = [state EXCEPT ![cur] = "RUNNING"]
    /\ iflag' = TRUE
    /\ Goto(<<>>)
    /\ UNCHANGED <<heap, wait_code, tables, memory, cur, inService, thread_ticks,
                   eax, used>>

(* switch_threads: the stack pointer becomes the one of next_thread; the    *)
(* thread left behind goes on with finish_schedule when it is switched to.  *)
Switch ==
    /\ At("switch")
    /\ cur # Top.arg /\ state[Top.arg] = "READY"
    /\ cur' = Top.arg
    /\ Goto(<<Fr("finish")>>)
    /\ UNCHANGED <<heap, state, wait_code, tables, memory, iflag, inService,
                   thread_ticks, eax, used>>

SomeDying(h) == ~L!list_isEmpty(h, "dying")

FinishSchedule ==
    /\ At("finish")
    /\ state' = [state EXCEPT ![cur] = "RUNNING"]
    /\ active' = [active EXCEPT ![parent[cur]] = threads[parent[cur]][child_num[cur]]]
    /\ IF ~SomeDying(heap)
       THEN /\ iflag' = TRUE
            /\ Goto(<<>>)
            /\ UNCHANGED heap
       ELSE /\ iflag' = FALSE
            /\ heap' = L!list_pop(heap, "dying")
            /\ \E d \in Thread :
                 /\ L!Popped(heap, "dying") = TNode(d)
                 /\ Goto(<<FrA("cleanup", d), Fr("sti")>>)
    /\ UNCHANGED <<wait_code, parent, child_num, threads, num_live, memory, cur,
                   inService, thread_ticks, eax, used>>

Sti ==
    /\ At("sti")
    /\ iflag' = TRUE
    /\ Goto(<<>>)
    /\ UNCHANGED <<heap, state, wait_code, tables, memory, cur, inService,
                   thread_ticks, eax, used>>

(* first_switch_entry after finish_schedule: end of interrupt, then ret.    *)
FirstEoi ==
    /\ At("first_eoi")
    /\ inService' = FALSE
    /\ Goto(<<>>)
    /\ UNCHANGED <<heap, state, wait_code, tables, memory, cur, iflag,
                   thread_ticks, eax, used>>

(* thread_execute: sti, the thread's function, thread_exit.                 *)
ThreadExecute ==
    /\ At("execute")
    /\ iflag' = TRUE
    /\ Goto(<<Fr(Func(parent[cur])), Fr("exit")>>)
    /\ UNCHANGED <<heap, state, wait_code, tables, memory, cur, inService,
                   thread_ticks, eax, used>>

(* The timer interrupt: irq_handler calls timer_interrupt_handler, which    *)
(* calls schedule at the end of a time slice.  The processor clears IF, and *)
(* takes no timer interrupt while one is in service.                        *)
TimerInterrupt ==
    /\ iflag /\ ~inService /\ thread_ticks < MaxTicks
    /\ ~At("null_return")
    /\ thread_ticks' = thread_ticks + 1
    /\ inService' = TRUE
    /\ iflag' = FALSE
    /\ stk' = [stk EXCEPT ![cur] =
                 (IF thread_ticks' % MAX_THREAD_TICKS = 0 THEN <<Fr("schedule")>> ELSE <<>>)
                 \o <<Fr("irq_return")>> \o @]
    /\ LET slice == thread_ticks' % MAX_THREAD_TICKS = 0
           inside == Top.pc \in {"demote", "enqueue", "self_dying", "switch"}
       IN  incidents' = incidents
                        \cup (IF slice /\ inside THEN {"reentered"} ELSE {})
                        \cup (IF slice /\ state[cur] = "DYING" /\ ~inside
                              THEN {"exit_cut"} ELSE {})
    /\ UNCHANGED <<heap, state, wait_code, tables, memory, cur, eax, cmds, calls>>

(* The end of irq_handler: end of interrupt, then iret restores IF.         *)
NotAcknowledged == inService \* mutant: no end of interrupt is sent
Acknowledged == FALSE

IrqReturn ==
    /\ At("irq_return")
    /\ inService' = Acknowledged
    /\ iflag' = TRUE
    /\ Goto(<<>>)
    /\ UNCHANGED <<heap, state, wait_code, tables, memory, cur, thread_ticks, eax, used>>

-----------------------------------------------------------------------------
(* What the threads run.                                                    *)
Idle ==
    /\ At("idle")
    /\ Goto(<<Fr("block"), Fr("idle")>>)
    /\ UNCHANGED <<heap, state, wait_code, tables, memory, cpu, eax, used>>

(* shell_waiter polls its input (a step that changes nothing here) until a  *)
(* line names a command; read_stdin then creates a process for it.          *)
ShellCommand ==
    /\ At("shell")
    /\ cmds < MaxCmds
    /\ cmds' = cmds + 1
    /\ Goto(<<Fr("palloc"), Fr("palloc_proc"), Fr("shell")>>)
    /\ UNCHANGED <<heap, state, wait_code, tables, memory, cpu, eax, calls, incidents>>

(* read_stdin waits for the process, the tests of the process group kill it.*)
ShellCall ==
    /\ At("shell_call")
    /\ LET p == Top.arg IN
       \/ /\ p = NULL
          /\ Goto(<<>>)
       \/ /\ p # NULL /\ "wait" \in ShellCalls
          /\ Goto(<<FrA("wait", p)>>)
       \/ /\ p # NULL /\ "kill" \in ShellCalls
          /\ Goto(<<FrM("proc_kill", p, 0, num_live[p])>>)
    /\ UNCHANGED <<heap, state, wait_code, tables, memory, cpu, eax, used>>

(* The function of a command returns.                                       *)
BodyReturn ==
    /\ At("body")
    /\ Goto(<<>>)
    /\ UNCHANGED <<heap, state, wait_code, tables, memory, cpu, eax, used>>

Siblings == {t \in Thread \ {cur} : \E i \in Slot : threads[parent[cur]][i] = t}

(* The function of a command calls the thread interface: thread_yield,      *)
(* proc_create_thread (which takes the first free slot), thread_wait or     *)
(* thread_kill on a thread of its process, proc_exit.                       *)
Calling(call) ==
    /\ At("body") /\ call \in Calls /\ calls < MaxCalls
    /\ calls' = calls + 1
    /\ UNCHANGED <<heap, state, wait_code, tables, memory, cpu, eax, cmds, incidents>>

FreeSlots == {i \in Slot : threads[parent[cur]][i] = NULL}

BodyYield  == Calling("yield") /\ Goto(<<Fr("schedule"), Fr("body")>>)
BodyNoSlot == Calling("create") /\ FreeSlots = {} /\ Goto(<<Fr("body")>>)
BodyCreate ==
    /\ Calling("create")
    /\ \E i \in FreeSlots :
         /\ \A j \in FreeSlots : i <= j
         /\ Goto(CallThreadCreate(parent[cur], i)
                 \o <<FrA("live_inc", parent[cur]), Fr("body")>>)
BodyWait == Calling("wait") /\ \E t \in Siblings : Goto(<<FrA("wait", t), Fr("body")>>)
BodyKill == Calling("kill") /\ \E t \in Siblings : Goto(<<FrA("kill", t), Fr("body")>>)
BodyExit ==
    /\ Calling("exit")
    /\ Goto(<<FrM("proc_kill", parent[cur], 0, num_live[parent[cur]]), Fr("body")>>)

BodyCall == BodyYield \/ BodyNoSlot \/ BodyCreate \/ BodyWait \/ BodyKill \/ BodyExit

(* proc_create_thread after thread_create, which never returns              *)
(* -THREAD_CREATE_FAIL.                                                     *)
LiveInc ==
    /\ At("live_inc")
    /\ num_live' = [num_live EXCEPT ![Top.arg] = (@ + 1) % 256]
    /\ Goto(<<>>)
    /\ Meet("unfinished", \E t \in Thread \ {cur} : Creating(t, Top.arg))
    /\ UNCHANGED <<heap, state, wait_code, parent, child_num, threads, active,
                   memory, cpu, eax, cmds, calls>>

(* proc_kill: the loop over the slots (n is the slot, m is num_alive), then *)
(* the exit of the last thread of the current process.                      *)
ProcKill ==
    /\ At("proc_kill")
    /\ LET p == Top.arg  i == Top.n  alive == Top.m  t == threads[p][i] IN
       \/ /\ i \in Slot
          /\ t # NULL /\ state[t] \notin {"DYING", "RUNNING"}
          /\ Goto(<<FrA("kill", t), FrM("proc_kill_next", p, i, alive)>>)
       \/ /\ i \in Slot
          /\ t # NULL => state[t] \in {"DYING", "RUNNING"}
          /\ Goto(<<FrM("proc_kill", p, i + 1, alive)>>)
       \/ /\ i \notin Slot
          /\ Goto(IF parent[cur] = p /\ alive = 1 THEN <<Fr("exit")>> ELSE <<>>)
    /\ UNCHANGED <<heap, state, wait_code, tables, memory, cpu, eax, used>>

ProcKillNext ==
    /\ At("proc_kill_next")
    /\ Goto(<<FrM("proc_kill", Top.arg, Top.n + 1,
                  IF eax[cur] # -1 THEN Top.m - 1 ELSE Top.m)>>)
    /\ UNCHANGED <<heap, state, wait_code, tables, memory, cpu, eax, used>>

-----------------------------------------------------------------------------
Boot == InitThreads \/ IdleMade \/ LinkInit \/ BootSti \/ YieldLoop
Create == PallocAcquire \/ PallocThread \/ TcInsert \/ PallocProc \/ NumLiveSet
          \/ LinkProc \/ LiveInc
Sleep == ThreadBlock \/ ThreadUnblock \/ Wait \/ WaitRet \/ Notify
Die == ThreadExit \/ ThreadKill \/ KillRest \/ ThreadCleanup \/ ProcCleanup
       \/ PfreeProc \/ PfreeThread \/ ProcKill \/ ProcKillNext
Sched == Schedule \/ Demote \/ Enqueue \/ SelfDying \/ NoSwitch \/ Switch
         \/ FinishSchedule \/ Sti \/ FirstEoi \/ ThreadExecute \/ IrqReturn
Run == Idle \/ ShellCall \/ BodyReturn \/ BodyCall

(* What the CPU executes; the timer and the keyboard are the environment.   *)
Code == Boot \/ Create \/ Sleep \/ Die \/ Sched \/ Run
Next == Code \/ ShellCommand \/ TimerInterrupt

Spec == Init /\ [][Next]_vars

(* The CPU keeps executing instructions, and the interrupt controller keeps *)
(* a request of the timer until the CPU takes it.                           *)
FairSpec == Spec /\ WF_vars(Code) /\ SF_vars(TimerInterrupt)

-----------------------------------------------------------------------------
(* Type correctness.                                                        *)
TypeOK ==
    /\ heap \in L!Heap
    /\ state \in [Thread -> State]
    /\ wait_code \in [Thread -> Int]
    /\ parent \in [Thread -> Proc]
    /\ child_num \in [Thread -> Slot]
    /\ threads \in [Proc -> [Slot -> Thread \cup {NULL}]]
    /\ num_live \in [Proc -> Byte]
    /\ active \in [Proc -> Thread \cup {NULL}]
    /\ tpages \in SUBSET Thread
    /\ ppages \in SUBSET Proc
    /\ palloc_lock \in BOOLEAN
    /\ cur \in Thread
    /\ iflag \in BOOLEAN
    /\ inService \in BOOLEAN
    /\ thread_ticks \in Nat
    /\ stk \in [Thread -> Seq(Frame)]
    /\ eax \in [Thread -> Int]
    /\ cmds \in Nat
    /\ calls \in Nat
    /\ incidents \in SUBSET Incident

Without(S) == incidents \cap S = {}

(* The incidents that damage the scheduler's lists.                   *)
SchedulerFaults == {"relink", "idle_relink", "reentered", "boot_early"}

(* These, and those that take a thread out of a list or free it while other *)
(* code has it in hand.                                                     *)
ListFaults == SchedulerFaults \cup {"half_made", "dead_kill", "reused"}

ReadyNodes   == L!Members(heap, "ready")
BlockedNodes == L!Members(heap, "blocked")
DyingNodes   == L!Members(heap, "dying")

(* init_threads has set the lists up.                                       *)
Up == heap.next[L!HeadNode("dying")] # NULL

(* Whoever runs schedule has picked t, or thread_create is about to link it.*)
InHand(t) ==
    \E u \in Thread : \E i \in 1..Len(stk[u]) :
        /\ stk[u][i].pc \in {"demote", "enqueue", "self_dying", "switch", "tc_insert"}
        /\ stk[u][i].arg = t

(* schedule/finish_schedule (thread.c:363-434): a thread other than the one *)
(* on the CPU is never left in state RUNNING, unless the timer re-entered   *)
(* schedule.                                                                *)
RunningIsCurrent ==
    Without({"reentered"}) => \A t \in Thread : state[t] = "RUNNING" => t = cur

(* The ready, blocked and dying lists stay properly linked in both          *)
(* directions, although a running thread may or may not be on the ready     *)
(* list and is moved between the lists with and without interrupts.         *)
ListsIntact ==
    Without(ListFaults) /\ Up =>
        \A l \in {"ready", "blocked", "dying"} : L!Intact(heap, l)

(* A thread is on the list its state calls for and on no other: no thread   *)
(* is ever lost, runnable but on no list, and no blocked or dying thread    *)
(* can be picked by schedule.                                               *)
ListsMatchStates ==
    Without(ListFaults) /\ Up =>
        /\ \A t \in Thread :
             /\ TNode(t) \in ReadyNodes =>
                    state[t] = "READY" \/ (state[t] = "RUNNING" /\ t = cur)
             /\ TNode(t) \in DyingNodes => state[t] = "DYING"
             /\ TNode(t) \in BlockedNodes => state[t] = "BLOCKED"
        /\ \A t \in tpages \ {BootT} :
             /\ state[t] = "BLOCKED" => TNode(t) \in BlockedNodes
             /\ state[t] = "READY" /\ t # cur /\ ~InHand(t) => TNode(t) \in ReadyNodes

(* thread_cleanup frees the page that holds a thread's structure and stack: *)
(* the CPU is never on a freed stack, and no list that schedule or          *)
(* finish_schedule takes threads from leads to a freed page.                *)
NoFreedThread ==
    Without(ListFaults) =>
        /\ cur \in tpages
        /\ Up => \A t \in Thread :
             TNode(t) \in ReadyNodes \cup BlockedNodes \cup DyingNodes => t \in tpages

(* No command starts a thread: every process has one.                       *)
SingleThreaded == "create" \notin Calls



(* proc_wait and thread_wait: the caller comes back only when the process   *)
(* or thread it waited for is dead.                                         *)
WaitsForDeath ==
    Without(SchedulerFaults \cup {"no_block", "unfinished"}) /\ At("wait_ret") =>
        IF Top.arg \in Thread
        THEN Top.arg \notin tpages \/ state[Top.arg] = "DYING"
        ELSE num_live[Top.arg] = 0

(* thread_exit does not return, so thread_execute never returns to the NULL *)
(* that thread_create put under it.                                         *)
ExitIsFinal == Without(ListFaults) => ~At("null_return")

(* An interrupt that is in service is going to be acknowledged: the current *)
(* thread, or one that schedule can pick, still has to send the end of      *)
(* interrupt.                                                               *)
AcknowledgePending ==
    Without(ListFaults \cup {"exit_cut", "kill_cut"}) /\ inService =>
        \E t \in tpages : (t = cur \/ state[t] = "READY") /\ Owes(t)


(* thread_cleanup frees only the page of a dying thread, and never the one  *)
(* whose stack the CPU is on.                                               *)
FreesDeadThreads ==
    [][Without(ListFaults)' =>
         \A t \in tpages \ tpages' : t # cur /\ state[t] = "DYING"]_vars

(* A thread that could not block runs on until the next timer interrupt;    *)
(* past the last one the model allows, it runs for ever.                    *)
OutOfTicks == thread_ticks = MaxTicks /\ ~Without({"no_block"})

(* proc_wait returns if the process is alive when the shell puts itself on  *)
(* its waiters: the process dies and the shell goes on, even if the idle    *)
(* thread has been linked twice in the meantime.                            *)
ShellWaitsFor(p) == \E i \in 1..Len(stk[ShellT]) : stk[ShellT][i] = FrA("wait_ret", p)
ShellComesBack ==
    \A p \in CmdProc :
        ShellWaitsFor(p) /\ p \in ppages /\ Without(SchedulerFaults) ~>
            \/ ~ShellWaitsFor(p) \/ OutOfTicks
            \/ ~Without({"relink", "reentered", "boot_early", "lost_wake",
                          "unfinished", "no_page"})

=============================================================================
