---------------------------- MODULE KernelProofs ----------------------------
(***************************************************************************)
(* Theorems about module Kernel, for any number of threads, processes,     *)
(* slots, ticks and calls: the types, and that no thread but the one on    *)
(* the CPU is RUNNING.                                                     *)
(*                                                                         *)
(* The second half holds the lemmas that KernelListProofs goes on from:    *)
(* what the operations of list.c do to the lists of the scheduler, what a  *)
(* step does to the stacks, and that the segments of code outside schedule *)
(* preserve the invariant of KernelInv.                                    *)
(***************************************************************************)
EXTENDS KernelInv, TLAPS, SequenceTheorems, FiniteSetTheorems, NaturalsInduction,
        WellFoundedInduction

-----------------------------------------------------------------------------
(* Lemmas about the operations of list.c: whatever the links are, an        *)
(* operation leaves a heap, that is, every link leads to a node or is NULL. *)

(* The assignments a->next = b and a->prev = b.                             *)
LEMMA SetType ==
    ASSUME NEW h \in L!Heap, NEW a \in Node \cup {NULL}, NEW b \in Node \cup {NULL}
    PROVE  L!SetNext(h, a, b) \in L!Heap /\ L!SetPrev(h, a, b) \in L!Heap
BY DEF L!Heap, L!SetNext, L!SetPrev

(* Reading a link.                                                          *)
LEMMA LinkType ==
    ASSUME NEW h \in L!Heap, NEW a \in Node
    PROVE  h.next[a] \in Node \cup {NULL} /\ h.prev[a] \in Node \cup {NULL}
BY DEF L!Heap

(* The nodes of the model.                                                  *)
LEMMA NodeType ==
    /\ \A l \in ListId : L!HeadNode(l) \in Node /\ L!TailNode(l) \in Node
    /\ \A t \in Thread : TNode(t) \in Node /\ WNode(t) \in Node
    /\ \A p \in Proc : PNode(p) \in Node
BY DEF Node, L!HeadNode, L!TailNode, TNode, WNode, PNode

(* list_init.                                                               *)
LEMMA ListInitType ==
    ASSUME NEW h \in L!Heap, NEW l \in ListId
    PROVE  L!list_init(h, l) \in L!Heap
BY SetType, NodeType DEF L!list_init

(* list_insert_front.                                                       *)
LEMMA ListInsertFrontType ==
    ASSUME NEW h \in L!Heap, NEW a \in Node, NEW n \in Node
    PROVE  L!list_insert_front(h, a, n) \in L!Heap
BY SetType, LinkType DEF L!list_insert_front

(* list_insert.                                                             *)
LEMMA ListInsertType ==
    ASSUME NEW h \in L!Heap, NEW l \in ListId, NEW n \in Node
    PROVE  L!list_insert(h, l, n) \in L!Heap
BY ListInsertFrontType, NodeType DEF L!list_insert

(* list_insert_end.                                                         *)
LEMMA ListInsertEndType ==
    ASSUME NEW h \in L!Heap, NEW a \in Node, NEW n \in Node
    PROVE  L!list_insert_end(h, a, n) \in L!Heap
BY SetType, LinkType DEF L!list_insert_end

(* list_delete takes a node, or the NULL that list_pop may find; it returns *)
(* that node or NULL.                                                       *)
LEMMA ListDeleteType ==
    ASSUME NEW h \in L!Heap, NEW l, NEW n \in Node \cup {NULL}
    PROVE  /\ L!list_delete(h, l, n) \in L!Heap
           /\ L!Deleted(h, l, n) \in {n, NULL}
<1>1. L!Deleted(h, l, n) \in {n, NULL}
  BY DEF L!Deleted
<1>2. CASE L!Deleted(h, l, n) = NULL
  BY <1>1, <1>2 DEF L!list_delete
<1>3. CASE L!Deleted(h, l, n) # NULL
  <2>1. n \in Node
    BY <1>1, <1>3
  <2> QED
    BY <1>1, <1>3, <2>1, SetType, LinkType DEF L!list_delete
<1> QED
  BY <1>2, <1>3

(* list_pop.                                                                *)
LEMMA ListPopType ==
    ASSUME NEW h \in L!Heap, NEW l \in ListId
    PROVE  L!list_pop(h, l) \in L!Heap
BY ListDeleteType, LinkType, NodeType DEF L!list_pop

-----------------------------------------------------------------------------
(* Lemmas about frames and stacks.                                          *)

(* The frames the actions push are frames.                                  *)
LEMMA PlainFrames ==
    /\ Fr("init_threads") \in Frame /\ Fr("idle_made") \in Frame /\ Fr("link_init") \in Frame
    /\ Fr("boot_sti") \in Frame /\ Fr("yield_loop") \in Frame /\ Fr("palloc") \in Frame
    /\ Fr("palloc_proc") \in Frame /\ Fr("block") \in Frame /\ Fr("exit") \in Frame
    /\ Fr("schedule") \in Frame /\ Fr("finish") \in Frame /\ Fr("sti") \in Frame
    /\ Fr("first_eoi") \in Frame /\ Fr("execute") \in Frame /\ Fr("irq_return") \in Frame
    /\ Fr("idle") \in Frame /\ Fr("shell") \in Frame /\ Fr("shell_call") \in Frame
    /\ Fr("body") \in Frame /\ Fr("null_return") \in Frame
BY DEF Frame, Fr, Label, OnThread, OnProc, OnEither

(* The same for the frames that work on a thread ...                        *)
LEMMA ThreadFrames ==
    ASSUME NEW t \in Thread
    PROVE  \A pc \in OnThread : FrA(pc, t) \in Frame
BY DEF Frame, FrA, Label, OnThread, OnProc, OnEither

(* ... label by label ...                                                   *)
LEMMA ThreadFramesNamed ==
    ASSUME NEW t \in Thread
    PROVE  /\ FrA("tc_insert", t) \in Frame /\ FrA("unblock", t) \in Frame
           /\ FrA("cleanup", t) \in Frame /\ FrA("pfree_thread", t) \in Frame
           /\ FrA("kill", t) \in Frame /\ FrA("kill_rest", t) \in Frame
           /\ FrA("demote", t) \in Frame /\ FrA("enqueue", t) \in Frame
           /\ FrA("self_dying", t) \in Frame /\ FrA("switch", t) \in Frame
BY ThreadFrames DEF OnThread

(* ... for those that work on a process ...                                 *)
LEMMA ProcFrames ==
    ASSUME NEW p \in Proc
    PROVE  /\ FrA("num_live_set", p) \in Frame /\ FrA("link_proc", p) \in Frame
           /\ FrA("proc_cleanup", p) \in Frame /\ FrA("pfree_proc", p) \in Frame
           /\ FrA("live_inc", p) \in Frame
           /\ FrA("boot_sti", p) \in Frame /\ FrA("shell_call", p) \in Frame
           /\ \A n \in Slot : FrN("palloc_thread", p, n) \in Frame
           /\ \A n, m \in Int : FrM("proc_kill", p, n, m) \in Frame
                               /\ FrM("proc_kill_next", p, n, m) \in Frame
BY DEF Frame, FrA, FrN, FrM, Slot, Label, OnThread, OnProc, OnEither

(* ... and for those that work on either.                                   *)
LEMMA EitherFrames ==
    ASSUME NEW x \in Thread \cup Proc
    PROVE  /\ FrA("wait", x) \in Frame /\ FrA("wait_ret", x) \in Frame
           /\ \A n \in Int : FrN("notify", x, n) \in Frame
BY DEF Frame, FrA, FrN, Label, OnThread, OnProc, OnEither

(* The top frame is a frame.                                                *)
LEMMA TopType ==
    ASSUME TypeOK, NEW pc, At(pc)
    PROVE  /\ Len(stk[cur]) > 0
           /\ Top \in Frame
           /\ Top.pc = pc
<1>1. stk[cur] \in Seq(Frame) /\ stk[cur] # <<>>
  BY DEF TypeOK, At
<1> QED
  BY <1>1 DEF At, Top

(* What a segment works on has the right type.                              *)
LEMMA TopThread ==
    ASSUME TypeOK, NEW pc \in OnThread, At(pc)
    PROVE  Top.arg \in Thread
BY TopType DEF Frame

(* The same for processes; a slot is an index of the table.                 *)
LEMMA TopProc ==
    ASSUME TypeOK, NEW pc \in OnProc, At(pc)
    PROVE  Top.arg \in Proc /\ (pc = "palloc_thread" => Top.n \in Slot)
BY TopType DEF Frame

(* The same where either will do.                                           *)
LEMMA TopEither ==
    ASSUME TypeOK, NEW pc \in OnEither, At(pc)
    PROVE  Top.arg \in Thread \cup Proc
BY TopType DEF Frame

(* The numbers of a frame.                                                  *)
LEMMA TopNumbers ==
    ASSUME TypeOK, NEW pc, At(pc)
    PROVE  Top.n \in Int /\ Top.m \in Int
BY TopType DEF Frame

(* Goto replaces the top frame of the current stack by frames.              *)
LEMMA GotoType ==
    ASSUME TypeOK, NEW pc, At(pc), NEW fs \in Seq(Frame), Goto(fs)
    PROVE  stk' \in [Thread -> Seq(Frame)]
<1>1. stk[cur] \in Seq(Frame) /\ stk[cur] # <<>>
  BY DEF TypeOK, At
<1>2. fs \o Tail(stk[cur]) \in Seq(Frame)
  BY <1>1
<1> QED
  BY <1>2 DEF TypeOK, Goto

(* The same for up to three frames.                                         *)
LEMMA GotoFrames ==
    ASSUME TypeOK, NEW pc, At(pc)
    PROVE  /\ Goto(<<>>) => stk' \in [Thread -> Seq(Frame)]
           /\ \A f \in Frame : Goto(<<f>>) => stk' \in [Thread -> Seq(Frame)]
           /\ \A f, g \in Frame : Goto(<<f, g>>) => stk' \in [Thread -> Seq(Frame)]
           /\ \A f, g, e \in Frame : Goto(<<f, g, e>>) => stk' \in [Thread -> Seq(Frame)]
<1>1. /\ <<>> \in Seq(Frame)
      /\ \A f \in Frame : <<f>> \in Seq(Frame)
      /\ \A f, g \in Frame : <<f, g>> \in Seq(Frame)
      /\ \A f, g, e \in Frame : <<f, g, e>> \in Seq(Frame)
  OBVIOUS
<1>2. \A fs \in Seq(Frame) : Goto(fs) => stk' \in [Thread -> Seq(Frame)]
  BY GotoType
<1> QED
  BY <1>1, <1>2

(* IdleMade keeps TypeOK.                                                   *)
LEMMA IdleMadeType == ASSUME TypeOK, IdleMade PROVE TypeOK'
<1>1. stk' \in [Thread -> Seq(Frame)]
  BY GotoFrames DEF IdleMade
<1> QED
  BY <1>1 DEF IdleMade, TypeOK, tables, memory, cpu, used, State

(* BootSti keeps TypeOK.                                                    *)
LEMMA BootStiType == ASSUME TypeOK, BootSti PROVE TypeOK'
<1>1. stk' \in [Thread -> Seq(Frame)]
  BY GotoFrames DEF BootSti
<1> QED
  BY <1>1 DEF BootSti, TypeOK, tables, memory, cpu, used, State

(* PallocAcquire keeps TypeOK.                                              *)
LEMMA PallocAcquireType == ASSUME TypeOK, PallocAcquire PROVE TypeOK'
<1>1. stk' \in [Thread -> Seq(Frame)]
  BY GotoFrames DEF PallocAcquire
<1> QED
  BY <1>1 DEF PallocAcquire, TypeOK, tables, memory, cpu, used, State

(* PfreeProc keeps TypeOK.                                                  *)
LEMMA PfreeProcType == ASSUME TypeOK, PfreeProc PROVE TypeOK'
<1>1. stk' \in [Thread -> Seq(Frame)]
  BY GotoFrames DEF PfreeProc
<1> QED
  BY <1>1 DEF PfreeProc, TypeOK, tables, memory, cpu, used, State

(* PfreeThread keeps TypeOK.                                                *)
LEMMA PfreeThreadType == ASSUME TypeOK, PfreeThread PROVE TypeOK'
<1>1. stk' \in [Thread -> Seq(Frame)]
  BY GotoFrames DEF PfreeThread
<1> QED
  BY <1>1 DEF PfreeThread, TypeOK, tables, memory, cpu, used, State

(* Sti keeps TypeOK.                                                        *)
LEMMA StiType == ASSUME TypeOK, Sti PROVE TypeOK'
<1>1. stk' \in [Thread -> Seq(Frame)]
  BY GotoFrames DEF Sti
<1> QED
  BY <1>1 DEF Sti, TypeOK, tables, memory, cpu, used, State

(* FirstEoi keeps TypeOK.                                                   *)
LEMMA FirstEoiType == ASSUME TypeOK, FirstEoi PROVE TypeOK'
<1>1. stk' \in [Thread -> Seq(Frame)]
  BY GotoFrames DEF FirstEoi
<1> QED
  BY <1>1 DEF FirstEoi, TypeOK, tables, memory, cpu, used, State

(* BodyReturn keeps TypeOK.                                                 *)
LEMMA BodyReturnType == ASSUME TypeOK, BodyReturn PROVE TypeOK'
<1>1. stk' \in [Thread -> Seq(Frame)]
  BY GotoFrames DEF BodyReturn
<1> QED
  BY <1>1 DEF BodyReturn, TypeOK, tables, memory, cpu, used, State

(* NoSwitch keeps TypeOK.                                                   *)
LEMMA NoSwitchType == ASSUME TypeOK, NoSwitch PROVE TypeOK'
<1>1. stk' \in [Thread -> Seq(Frame)]
  BY GotoFrames DEF NoSwitch
<1> QED
  BY <1>1 DEF NoSwitch, TypeOK, tables, memory, cpu, used, State

(* IrqReturn keeps TypeOK.                                                  *)
LEMMA IrqReturnType == ASSUME TypeOK, IrqReturn PROVE TypeOK'
<1>1. stk' \in [Thread -> Seq(Frame)]
  BY GotoFrames DEF IrqReturn
<1> QED
  BY <1>1 DEF IrqReturn, TypeOK, tables, memory, cpu, used, State, Acknowledged

(* YieldLoop keeps TypeOK.                                                  *)
LEMMA YieldLoopType == ASSUME TypeOK, YieldLoop PROVE TypeOK'
<1>1. stk' \in [Thread -> Seq(Frame)]
  BY GotoFrames, PlainFrames DEF YieldLoop
<1> QED
  BY <1>1 DEF YieldLoop, TypeOK, tables, memory, cpu, used, State

(* Idle keeps TypeOK.                                                       *)
LEMMA IdleType == ASSUME TypeOK, Idle PROVE TypeOK'
<1>1. stk' \in [Thread -> Seq(Frame)]
  BY GotoFrames, PlainFrames DEF Idle
<1> QED
  BY <1>1 DEF Idle, TypeOK, tables, memory, cpu, used, State

(* ShellCommand keeps TypeOK.                                               *)
LEMMA ShellCommandType == ASSUME TypeOK, ShellCommand PROVE TypeOK'
<1>1. stk' \in [Thread -> Seq(Frame)]
  BY GotoFrames, PlainFrames DEF ShellCommand
<1> QED
  BY <1>1 DEF ShellCommand, TypeOK, tables, memory, cpu, used, State

(* NumLiveSet keeps TypeOK.                                                 *)
LEMMA NumLiveSetType == ASSUME TypeOK, NumLiveSet PROVE TypeOK'
<1>1. stk' \in [Thread -> Seq(Frame)]
  BY GotoFrames DEF NumLiveSet
<1>2. Top.arg \in Proc
  BY TopProc DEF NumLiveSet, OnProc
<1>3. 1 \in Byte
  BY DEF Byte
<1>4. num_live' \in [Proc -> Byte]
  BY <1>2, <1>3 DEF NumLiveSet, TypeOK
<1> QED
  BY <1>1, <1>2, <1>3, <1>4 DEF NumLiveSet, TypeOK, tables, memory, cpu, used, State

(* LiveInc keeps TypeOK.                                                    *)
LEMMA LiveIncType == ASSUME TypeOK, LiveInc PROVE TypeOK'
<1>1. stk' \in [Thread -> Seq(Frame)]
  BY GotoFrames DEF LiveInc
<1>2. Top.arg \in Proc
  BY TopProc DEF LiveInc, OnProc
<1>3. \A n \in Byte : (n + 1) % 256 \in Byte
  BY DEF Byte
<1>4. num_live' \in [Proc -> Byte]
  BY <1>2, <1>3 DEF LiveInc, TypeOK
<1>5. incidents' \in SUBSET Incident
  BY DEF LiveInc, Meet, Incident, TypeOK
<1> QED
  BY <1>1, <1>2, <1>3, <1>4, <1>5 DEF LiveInc, TypeOK, tables, memory, cpu, used, State

(* WaitRet keeps TypeOK.                                                    *)
LEMMA WaitRetType == ASSUME TypeOK, WaitRet PROVE TypeOK'
<1>1. stk' \in [Thread -> Seq(Frame)]
  BY GotoFrames DEF WaitRet
<1>2. eax' \in [Thread -> Int]
  BY DEF WaitRet, TypeOK
<1> QED
  BY <1>1, <1>2 DEF WaitRet, TypeOK, tables, memory, cpu, used, State

(* InitThreads keeps TypeOK.                                                *)
LEMMA InitThreadsType == ASSUME TypeOK, InitThreads PROVE TypeOK'
<1>1. 0 \in Slot /\ InitP \in Proc
  BY ConstantsAssumption DEF Slot, Proc
<1>2. stk' \in [Thread -> Seq(Frame)]
  BY <1>1, GotoFrames, PlainFrames, ProcFrames DEF InitThreads, CallThreadCreate
<1>3. heap' \in L!Heap
  BY ListInitType DEF InitThreads, TypeOK, ListId
<1> QED
  BY <1>1, <1>2, <1>3 DEF InitThreads, TypeOK, tables, memory, cpu, used, State

(* LinkInit keeps TypeOK.                                                   *)
LEMMA LinkInitType == ASSUME TypeOK, LinkInit PROVE TypeOK'
<1>1. stk' \in [Thread -> Seq(Frame)]
  BY GotoFrames DEF LinkInit
<1>2. InitP \in Proc /\ 0 \in Slot
  BY ConstantsAssumption DEF Slot, Proc
<1>3. heap' \in L!Heap
  BY <1>2, ListInsertType, NodeType DEF LinkInit, TypeOK, ListId
<1>4. active' \in [Proc -> Thread \cup {NULL}]
  BY <1>2 DEF LinkInit, TypeOK
<1> QED
  BY <1>1, <1>2, <1>3, <1>4 DEF LinkInit, TypeOK, tables, memory, cpu, used, State

(* TcInsert keeps TypeOK.                                                   *)
LEMMA TcInsertType == ASSUME TypeOK, TcInsert PROVE TypeOK'
<1>1. stk' \in [Thread -> Seq(Frame)]
  BY GotoFrames DEF TcInsert
<1>2. Top.arg \in Thread
  BY TopThread DEF TcInsert, OnThread
<1>3. heap' \in L!Heap
  BY <1>2, ListInsertType, NodeType DEF TcInsert, TypeOK, ListId
<1>4. eax' \in [Thread -> Int]
  BY DEF TcInsert, TypeOK
<1> QED
  BY <1>1, <1>2, <1>3, <1>4 DEF TcInsert, TypeOK, tables, memory, cpu, used, State

(* LinkProc keeps TypeOK.                                                   *)
LEMMA LinkProcType == ASSUME TypeOK, LinkProc PROVE TypeOK'
<1>1. stk' \in [Thread -> Seq(Frame)]
  BY GotoFrames DEF LinkProc
<1>2. Top.arg \in Proc /\ 0 \in Slot
  BY TopProc, ConstantsAssumption DEF LinkProc, OnProc, Slot
<1>3. heap' \in L!Heap
  BY <1>2, ListInsertEndType, NodeType DEF LinkProc, TypeOK, ListId
<1>4. active' \in [Proc -> Thread \cup {NULL}]
  BY <1>2 DEF LinkProc, TypeOK
<1> QED
  BY <1>1, <1>2, <1>3, <1>4 DEF LinkProc, TypeOK, tables, memory, cpu, used, State

(* ThreadBlock keeps TypeOK.                                                *)
LEMMA ThreadBlockType == ASSUME TypeOK, ThreadBlock PROVE TypeOK'
<1>1. stk' \in [Thread -> Seq(Frame)]
  BY GotoFrames, PlainFrames DEF ThreadBlock
<1>2. cur \in Thread /\ heap \in L!Heap /\ TNode(cur) \in Node
  BY NodeType DEF TypeOK
<1>3. /\ L!list_delete(heap, "ready", TNode(cur)) \in L!Heap
      /\ L!Deleted(heap, "ready", TNode(cur)) \in Node \cup {NULL}
  BY <1>2, ListDeleteType
<1>4. heap' \in L!Heap
  BY <1>3, ListInsertType DEF ThreadBlock, ListId
<1>5. state' \in [Thread -> State]
  BY DEF ThreadBlock, TypeOK, State
<1>6. incidents' \in SUBSET Incident
  BY DEF ThreadBlock, Meet, Incident, TypeOK
<1>7. iflag' \in BOOLEAN
  BY DEF ThreadBlock
<1> QED
  BY <1>1, <1>2, <1>3, <1>4, <1>5, <1>6, <1>7 DEF ThreadBlock, TypeOK, tables, memory,
     cpu, used, State

(* ThreadUnblock keeps TypeOK.                                              *)
LEMMA ThreadUnblockType == ASSUME TypeOK, ThreadUnblock PROVE TypeOK'
<1>1. stk' \in [Thread -> Seq(Frame)]
  BY GotoFrames DEF ThreadUnblock
<1>2. /\ Top.arg \in Thread /\ heap \in L!Heap /\ TNode(Top.arg) \in Node
  BY TopThread, NodeType DEF ThreadUnblock, OnThread, TypeOK
<1>3. L!list_delete(heap, "blocked", TNode(Top.arg)) \in L!Heap
  BY <1>2, ListDeleteType
<1>4. heap' \in L!Heap
  BY <1>2, <1>3, ListInsertType DEF ThreadUnblock, ListId
<1>5. state' \in [Thread -> State]
  BY DEF ThreadUnblock, TypeOK, State
<1>6. incidents' \in SUBSET Incident
  BY DEF ThreadUnblock, Meet, Incident, TypeOK
<1> QED
  BY <1>1, <1>2, <1>3, <1>4, <1>5, <1>6 DEF ThreadUnblock, TypeOK, tables, memory, cpu,
     used, State, UnblockFlag

(* Wait keeps TypeOK.                                                       *)
LEMMA WaitType == ASSUME TypeOK, Wait PROVE TypeOK'
<1>1. Top.arg \in Thread \cup Proc /\ cur \in Thread
  BY TopEither DEF Wait, OnEither, TypeOK
<1>2. stk' \in [Thread -> Seq(Frame)]
  BY <1>1, GotoFrames, PlainFrames, EitherFrames DEF Wait
<1>3. heap' \in L!Heap
  BY <1>1, ListInsertType, NodeType DEF Wait, TypeOK, ListId
<1> QED
  BY <1>1, <1>2, <1>3 DEF Wait, TypeOK, tables, memory, cpu, used, State

(* Notify keeps TypeOK.                                                     *)
LEMMA NotifyType == ASSUME TypeOK, Notify PROVE TypeOK'
<1>1. /\ Top.arg \in Thread \cup Proc /\ Top \in Frame
      /\ Top.n \in Int
  BY TopEither, TopType, TopNumbers DEF Notify, OnEither
<1>2. stk' \in [Thread -> Seq(Frame)]
  BY <1>1, GotoFrames, ThreadFramesNamed DEF Notify
<1>3. heap' \in L!Heap
  BY <1>1, ListPopType DEF Notify, TypeOK, ListId
<1>4. wait_code' \in [Thread -> Int]
  BY <1>1 DEF Notify, TypeOK
<1> QED
  BY <1>1, <1>2, <1>3, <1>4 DEF Notify, TypeOK, tables, memory, cpu, used, State

(* ThreadExit keeps TypeOK.                                                 *)
LEMMA ThreadExitType == ASSUME TypeOK, ThreadExit PROVE TypeOK'
<1>1. cur \in Thread
  BY DEF TypeOK
<1>2. stk' \in [Thread -> Seq(Frame)]
  BY <1>1, GotoFrames, PlainFrames, EitherFrames DEF ThreadExit
<1>3. heap' \in L!Heap
  BY <1>1, ListDeleteType, NodeType DEF ThreadExit, ExitLeavesReady, TypeOK, ListId
<1> QED
  BY <1>1, <1>2, <1>3 DEF ThreadExit, TypeOK, tables, memory, cpu, used, State

(* ThreadKill keeps TypeOK.                                                 *)
LEMMA ThreadKillType == ASSUME TypeOK, ThreadKill PROVE TypeOK'
<1>1. Top.arg \in Thread
  BY TopThread DEF ThreadKill, OnThread
<1>2. /\ <<Fr("exit")>> \o <<FrA("kill_rest", Top.arg)>> \in Seq(Frame)
      /\ <<>> \o <<FrA("kill_rest", Top.arg)>> \in Seq(Frame)
  BY <1>1, PlainFrames, ThreadFramesNamed
<1>3. stk' \in [Thread -> Seq(Frame)]
  BY <1>2, GotoType DEF ThreadKill
<1> QED
  BY <1>1, <1>2, <1>3 DEF ThreadKill, TypeOK, tables, memory, cpu, used, State

(* ProcCleanup keeps TypeOK.                                                *)
LEMMA ProcCleanupType == ASSUME TypeOK, ProcCleanup PROVE TypeOK'
<1>1. stk' \in [Thread -> Seq(Frame)]
  BY GotoFrames DEF ProcCleanup
<1>2. Top.arg \in Proc
  BY TopProc DEF ProcCleanup, OnProc
<1>3. heap' \in L!Heap
  BY <1>2, ListDeleteType, NodeType DEF ProcCleanup, Unlink, TypeOK, ListId
<1> QED
  BY <1>1, <1>2, <1>3 DEF ProcCleanup, TypeOK, tables, memory, cpu, used, State

(* ProcKillNext keeps TypeOK.                                               *)
LEMMA ProcKillNextType == ASSUME TypeOK, ProcKillNext PROVE TypeOK'
<1>1. /\ Top.arg \in Proc /\ Top.n + 1 \in Int /\ Top.m - 1 \in Int
      /\ Top.m \in Int
  BY TopProc, TopNumbers DEF ProcKillNext, OnProc
<1>2. stk' \in [Thread -> Seq(Frame)]
  BY <1>1, GotoFrames, ProcFrames DEF ProcKillNext
<1> QED
  BY <1>1, <1>2 DEF ProcKillNext, TypeOK, tables, memory, cpu, used, State

(* Schedule keeps TypeOK.                                                   *)
LEMMA ScheduleType == ASSUME TypeOK, Schedule PROVE TypeOK'
<1>1. IdleT \in Thread
  BY DEF Thread
<1>2. stk' \in [Thread -> Seq(Frame)]
  BY <1>1, GotoFrames, ThreadFramesNamed DEF Schedule
<1>3. heap' \in L!Heap
  BY ListPopType DEF Schedule, TypeOK, ListId
<1>4. incidents' \in SUBSET Incident
  BY DEF Schedule, Meet, Incident, TypeOK
<1> QED
  BY <1>1, <1>2, <1>3, <1>4 DEF Schedule, TypeOK, tables, memory, cpu, used, State

(* Demote keeps TypeOK.                                                     *)
LEMMA DemoteType == ASSUME TypeOK, Demote PROVE TypeOK'
<1>1. Top.arg \in Thread
  BY TopThread DEF Demote, OnThread
<1>2. stk' \in [Thread -> Seq(Frame)]
  BY <1>1, GotoFrames, ThreadFramesNamed DEF Demote
<1>3. state' \in [Thread -> State]
  BY DEF Demote, Demoted, TypeOK, State
<1> QED
  BY <1>1, <1>2, <1>3 DEF Demote, TypeOK, tables, memory, cpu, used, State

(* Enqueue keeps TypeOK.                                                    *)
LEMMA EnqueueType == ASSUME TypeOK, Enqueue PROVE TypeOK'
<1>1. Top.arg \in Thread /\ cur \in Thread
  BY TopThread DEF Enqueue, OnThread, TypeOK
<1>2. stk' \in [Thread -> Seq(Frame)]
  BY <1>1, GotoFrames, ThreadFramesNamed DEF Enqueue
<1>3. heap' \in L!Heap
  BY <1>1, ListInsertType, ListInsertEndType, NodeType DEF Enqueue, Filed, TypeOK, ListId
<1>4. incidents' \in SUBSET Incident
  BY DEF Enqueue, Meet, Incident, TypeOK
<1> QED
  BY <1>1, <1>2, <1>3, <1>4 DEF Enqueue, TypeOK, tables, memory, cpu, used, State

(* SelfDying keeps TypeOK.                                                  *)
LEMMA SelfDyingType == ASSUME TypeOK, SelfDying PROVE TypeOK'
<1>1. Top.arg \in Thread
  BY TopThread DEF SelfDying, OnThread
<1>2. /\ <<Fr("finish")>> \o <<FrA("switch", Top.arg)>> \in Seq(Frame)
      /\ <<>> \o <<FrA("switch", Top.arg)>> \in Seq(Frame)
  BY <1>1, PlainFrames, ThreadFramesNamed
<1>3. stk' \in [Thread -> Seq(Frame)]
  BY <1>2, GotoType DEF SelfDying
<1> QED
  BY <1>1, <1>2, <1>3 DEF SelfDying, TypeOK, tables, memory, cpu, used, State

(* Switch keeps TypeOK.                                                     *)
LEMMA SwitchType == ASSUME TypeOK, Switch PROVE TypeOK'
<1>1. Top.arg \in Thread
  BY TopThread DEF Switch, OnThread
<1>2. stk' \in [Thread -> Seq(Frame)]
  BY GotoFrames, PlainFrames DEF Switch
<1> QED
  BY <1>1, <1>2 DEF Switch, TypeOK, tables, memory, cpu, used, State

(* FinishSchedule keeps TypeOK.                                             *)
LEMMA FinishScheduleType == ASSUME TypeOK, FinishSchedule PROVE TypeOK'
<1>1. stk' \in [Thread -> Seq(Frame)]
  BY GotoFrames, PlainFrames, ThreadFramesNamed DEF FinishSchedule
<1>2. heap' \in L!Heap
  BY ListPopType DEF FinishSchedule, TypeOK, ListId
<1>3. active' \in [Proc -> Thread \cup {NULL}]
  BY DEF FinishSchedule, TypeOK
<1>4. state' \in [Thread -> State]
  BY DEF FinishSchedule, TypeOK, State
<1>5. iflag' \in BOOLEAN
  BY DEF FinishSchedule
<1> QED
  BY <1>1, <1>2, <1>3, <1>4, <1>5 DEF FinishSchedule, TypeOK, tables, memory, cpu, used,
     State

(* ThreadExecute keeps TypeOK.                                              *)
LEMMA ThreadExecuteType == ASSUME TypeOK, ThreadExecute PROVE TypeOK'
<1>1. Fr(Func(parent[cur])) \in Frame
  BY PlainFrames DEF Func
<1>2. stk' \in [Thread -> Seq(Frame)]
  BY <1>1, GotoFrames, PlainFrames DEF ThreadExecute
<1> QED
  BY <1>1, <1>2 DEF ThreadExecute, TypeOK, tables, memory, cpu, used, State

(* ShellCall keeps TypeOK.                                                  *)
LEMMA ShellCallType == ASSUME TypeOK, ShellCall PROVE TypeOK'
<1>1. Top.arg \in Proc \cup {NULL}
  BY TopType DEF ShellCall, Frame
<1>2. Top.arg # NULL => num_live[Top.arg] \in Byte
  BY <1>1 DEF TypeOK
<1>3. Top.arg # NULL => num_live[Top.arg] \in Int
  BY <1>2 DEF Byte
<1>4. stk' \in [Thread -> Seq(Frame)]
  BY <1>1, <1>3, GotoFrames, EitherFrames, ProcFrames DEF ShellCall
<1> QED
  BY <1>1, <1>2, <1>3, <1>4 DEF ShellCall, TypeOK, tables, memory, cpu, used, State

(* KillRest keeps TypeOK.                                                   *)
LEMMA KillRestType == ASSUME TypeOK, KillRest PROVE TypeOK'
<1>1. /\ Top.arg \in Thread /\ heap \in L!Heap /\ TNode(Top.arg) \in Node
  BY TopThread, NodeType DEF KillRest, OnThread, TypeOK
<1>2. /\ L!list_delete(heap, "ready", TNode(Top.arg)) \in L!Heap
      /\ L!list_delete(heap, "blocked", TNode(Top.arg)) \in L!Heap
  BY <1>1, ListDeleteType
<1>3. heap' \in L!Heap
  BY <1>1, <1>2 DEF KillRest, KilledLeaves
<1>4. /\ <<>> \o <<Fr("sti")>> \in Seq(Frame)
      /\ <<FrN("notify", Top.arg, -1), FrA("cleanup", Top.arg)>> \o <<Fr("sti")>> \in Seq(Frame)
  BY <1>1, PlainFrames, EitherFrames, ThreadFramesNamed
<1>5. stk' \in [Thread -> Seq(Frame)]
  BY <1>4, GotoType DEF KillRest
<1>6. state' \in [Thread -> State]
  BY DEF KillRest, TypeOK, State
<1>7. eax' \in [Thread -> Int]
  BY DEF KillRest, TypeOK
<1>8. incidents' \in SUBSET Incident
  BY DEF KillRest, Meet, Incident, TypeOK
<1> QED
  BY <1>1, <1>2, <1>3, <1>4, <1>5, <1>6, <1>7, <1>8 DEF KillRest, TypeOK, tables, memory,
     cpu, State

(* ThreadCleanup keeps TypeOK.                                              *)
LEMMA ThreadCleanupType == ASSUME TypeOK, ThreadCleanup PROVE TypeOK'
<1>1. Top.arg \in Thread
  BY TopThread DEF ThreadCleanup, OnThread
<1>2. parent[Top.arg] \in Proc
  BY <1>1 DEF TypeOK
<1>3. num_live[parent[Top.arg]] \in Byte
  BY <1>2 DEF TypeOK
<1>4. Decrement(num_live[parent[Top.arg]]) \in Byte
  BY <1>3 DEF Decrement, Byte
<1>5. /\ <<>> \o <<FrA("pfree_thread", Top.arg)>> \in Seq(Frame)
      /\ <<FrN("notify", parent[Top.arg], 0), FrA("proc_cleanup", parent[Top.arg]),
           FrA("pfree_proc", parent[Top.arg])>> \o <<FrA("pfree_thread", Top.arg)>> \in Seq(Frame)
      /\ <<>> \in Seq(Frame)
  BY <1>1, <1>2, EitherFrames, ThreadFramesNamed, ProcFrames
<1>6. stk' \in [Thread -> Seq(Frame)]
  BY <1>5, GotoType DEF ThreadCleanup
<1>7. num_live' \in [Proc -> Byte]
  BY <1>2, <1>4 DEF ThreadCleanup, TypeOK
<1>8. \/ threads' = threads
      \/ threads' = [threads EXCEPT ![parent[Top.arg]] =
                        [threads[parent[Top.arg]] EXCEPT ![child_num[Top.arg]] = NULL]]
  BY DEF ThreadCleanup
<1>9. threads' \in [Proc -> [Slot -> Thread \cup {NULL}]]
  <2>1. threads[parent[Top.arg]] \in [Slot -> Thread \cup {NULL}]
    BY <1>2 DEF TypeOK
  <2>2. [threads[parent[Top.arg]] EXCEPT ![child_num[Top.arg]] = NULL]
          \in [Slot -> Thread \cup {NULL}]
    BY <2>1
  <2> QED
    BY <1>2, <1>8, <2>2 DEF TypeOK
<1>10. incidents' \in SUBSET Incident
  BY DEF ThreadCleanup, Meet, Incident, TypeOK
<1> QED
  BY <1>1, <1>2, <1>3, <1>4, <1>5, <1>6, <1>7, <1>8, <1>9, <1>10 DEF ThreadCleanup,
     TypeOK, tables, memory, cpu, used, State

(* ProcKill keeps TypeOK.                                                   *)
LEMMA ProcKillType == ASSUME TypeOK, ProcKill PROVE TypeOK'
<1>1. /\ Top.arg \in Proc /\ Top.n \in Int /\ Top.n + 1 \in Int
      /\ Top.m \in Int
  BY TopProc, TopNumbers DEF ProcKill, OnProc
<1>2. Top.n \in Slot => threads[Top.arg][Top.n] \in Thread \cup {NULL}
  BY <1>1 DEF TypeOK
<1>3. stk' \in [Thread -> Seq(Frame)]
  BY <1>1, <1>2, GotoFrames, PlainFrames, ThreadFramesNamed, ProcFrames DEF ProcKill
<1> QED
  BY <1>1, <1>2, <1>3 DEF ProcKill, TypeOK, tables, memory, cpu, used, State

(* TimerInterrupt keeps TypeOK.                                             *)
LEMMA TimerInterruptType == ASSUME TypeOK, TimerInterrupt PROVE TypeOK'
<1>1. stk[cur] \in Seq(Frame)
  BY DEF TypeOK
<1>2. /\ <<>> \o <<Fr("irq_return")>> \o stk[cur] \in Seq(Frame)
      /\ <<Fr("schedule")>> \o <<Fr("irq_return")>> \o stk[cur] \in Seq(Frame)
  BY <1>1, PlainFrames
<1>3. stk' \in [Thread -> Seq(Frame)]
  BY <1>2 DEF TimerInterrupt, TypeOK
<1>4. incidents' \in SUBSET Incident
  BY DEF TimerInterrupt, Incident, TypeOK
<1>5. thread_ticks' \in Nat
  BY DEF TimerInterrupt, TypeOK
<1> QED
  BY <1>1, <1>2, <1>3, <1>4, <1>5 DEF TimerInterrupt, TypeOK, tables, memory, cpu, used,
     State

(* BodyYield keeps TypeOK.                                                  *)
LEMMA BodyYieldType == ASSUME TypeOK, BodyYield PROVE TypeOK'
<1>1. stk' \in [Thread -> Seq(Frame)]
  BY GotoFrames, PlainFrames DEF BodyYield, Calling
<1> QED
  BY <1>1 DEF BodyYield, TypeOK, tables, memory, cpu, used, State, Calling

(* BodyNoSlot keeps TypeOK.                                                 *)
LEMMA BodyNoSlotType == ASSUME TypeOK, BodyNoSlot PROVE TypeOK'
<1>1. stk' \in [Thread -> Seq(Frame)]
  BY GotoFrames, PlainFrames DEF BodyNoSlot, Calling
<1> QED
  BY <1>1 DEF BodyNoSlot, TypeOK, tables, memory, cpu, used, State, Calling

(* BodyCreate keeps TypeOK.                                                 *)
LEMMA BodyCreateType == ASSUME TypeOK, BodyCreate PROVE TypeOK'
<1>1. parent[cur] \in Proc
  BY DEF TypeOK
<1>2. \A i \in FreeSlots :
        CallThreadCreate(parent[cur], i) \o <<FrA("live_inc", parent[cur]), Fr("body")>>
            \in Seq(Frame)
  BY <1>1, PlainFrames, ProcFrames DEF CallThreadCreate, FreeSlots
<1>3. stk' \in [Thread -> Seq(Frame)]
  BY <1>2, GotoType DEF BodyCreate, Calling
<1> QED
  BY <1>1, <1>2, <1>3 DEF BodyCreate, TypeOK, tables, memory, cpu, used, State, Calling

(* BodyWait keeps TypeOK.                                                   *)
LEMMA BodyWaitType == ASSUME TypeOK, BodyWait PROVE TypeOK'
<1>1. stk' \in [Thread -> Seq(Frame)]
  BY GotoFrames, PlainFrames, EitherFrames DEF BodyWait, Calling, Siblings
<1> QED
  BY <1>1 DEF BodyWait, TypeOK, tables, memory, cpu, used, State, Calling

(* BodyKill keeps TypeOK.                                                   *)
LEMMA BodyKillType == ASSUME TypeOK, BodyKill PROVE TypeOK'
<1>1. stk' \in [Thread -> Seq(Frame)]
  BY GotoFrames, PlainFrames, ThreadFramesNamed DEF BodyKill, Calling, Siblings
<1> QED
  BY <1>1 DEF BodyKill, TypeOK, tables, memory, cpu, used, State, Calling

(* BodyExit keeps TypeOK.                                                   *)
LEMMA BodyExitType == ASSUME TypeOK, BodyExit PROVE TypeOK'
<1>1. parent[cur] \in Proc
  BY DEF TypeOK
<1>2. num_live[parent[cur]] \in Byte
  BY <1>1 DEF TypeOK
<1>3. num_live[parent[cur]] \in Int
  BY <1>2 DEF Byte
<1>4. stk' \in [Thread -> Seq(Frame)]
  BY <1>1, <1>3, GotoFrames, PlainFrames, ProcFrames DEF BodyExit, Calling
<1> QED
  BY <1>1, <1>2, <1>3, <1>4 DEF BodyExit, TypeOK, tables, memory, cpu, used, State, Calling

(* thread_create lays out a thread.                                         *)
LEMMA NewThreadType ==
    ASSUME TypeOK, At("palloc_thread"), NEW t \in Thread, NEW p \in Proc, NEW slot \in Slot,
           NewThread(t, p, slot)
    PROVE  /\ stk' \in [Thread -> Seq(Frame)] /\ heap' \in L!Heap
           /\ state' \in [Thread -> State] /\ wait_code' \in [Thread -> Int]
           /\ parent' \in [Thread -> Proc] /\ child_num' \in [Thread -> Slot]
           /\ threads' \in [Proc -> [Slot -> Thread \cup {NULL}]]
           /\ tpages' \in SUBSET Thread /\ eax' \in [Thread -> Int]
<1>1. FirstStack \in Seq(Frame)
  BY PlainFrames DEF FirstStack
<1>2. stk[cur] \in Seq(Frame) /\ stk[cur] # <<>>
  BY DEF At, TypeOK
<1>3. <<FrA("tc_insert", t)>> \o Tail(stk[cur]) \in Seq(Frame)
  BY <1>2, ThreadFramesNamed
<1>4. stk' \in [Thread -> Seq(Frame)]
  BY <1>1, <1>3 DEF NewThread, TypeOK
<1>5. heap' \in L!Heap
  BY ListInitType DEF NewThread, TypeOK, ListId
<1>6. threads' \in [Proc -> [Slot -> Thread \cup {NULL}]]
  BY DEF NewThread, TypeOK
<1>7. /\ state' \in [Thread -> State] /\ wait_code' \in [Thread -> Int]
      /\ parent' \in [Thread -> Proc] /\ child_num' \in [Thread -> Slot]
      /\ tpages' \in SUBSET Thread /\ eax' \in [Thread -> Int]
  BY DEF NewThread, TypeOK, State
<1> QED
  BY <1>4, <1>5, <1>6, <1>7

(* PallocThread keeps TypeOK.                                               *)
LEMMA PallocThreadType == ASSUME TypeOK, PallocThread PROVE TypeOK'
<1>1. Top.arg \in Proc /\ Top.n \in Slot /\ At("palloc_thread")
  BY TopProc DEF PallocThread, OnProc
<1>2. ThreadPages(Top.arg) \subseteq Thread
  BY DEF ThreadPages, Thread
<1>3. incidents' \in SUBSET Incident
  BY DEF PallocThread, Meet, Incident, TypeOK
<1>4. CASE NoThread
  <2>1. stk' \in [Thread -> Seq(Frame)]
    BY <1>1, <1>4, GotoFrames DEF NoThread
  <2>2. eax' \in [Thread -> Int]
    BY <1>4 DEF NoThread, TypeOK
  <2> QED
    BY <1>3, <1>4, <2>1, <2>2 DEF PallocThread, NoThread, TypeOK, cpu
<1>5. ASSUME NEW t \in ThreadPages(Top.arg), NewThread(t, Top.arg, Top.n)
      PROVE  TypeOK'
  <2>1. t \in Thread
    BY <1>2
  <2> QED
    BY <1>1, <1>3, <1>5, <2>1, NewThreadType DEF PallocThread, TypeOK, cpu
<1> QED
  BY <1>4, <1>5 DEF PallocThread

(* The last index of a set of slots is one of them.                         *)
LEMMA LastSlot ==
    ASSUME NEW S \in SUBSET Slot, S # {}
    PROVE  (CHOOSE i \in S : \A j \in S : j <= i) \in S
<1> DEFINE T == {MAX_NUM_THREADS - i : i \in S}
<1>0. MAX_NUM_THREADS \in Nat /\ \A i \in S : i \in Nat /\ i < MAX_NUM_THREADS
  BY ConstantsAssumption DEF Slot
<1>1. T \in SUBSET Nat /\ T # {}
  BY <1>0
<1>2. PICK m \in T : \A k \in T : <<k, m>> \notin OpToRel(<, Nat)
  BY <1>1, NatLessThanWellFounded, WFMin
<1>3. \A k \in T : m <= k
  <2> SUFFICES ASSUME NEW k \in T PROVE m <= k
    OBVIOUS
  <2>1. m \in Nat /\ k \in Nat
    BY <1>1, <1>2
  <2>2. ~(k < m)
    BY <1>2, <2>1 DEF OpToRel
  <2> QED
    BY <2>1, <2>2
<1>4. PICK i \in S : m = MAX_NUM_THREADS - i
  BY <1>2
<1>5. \A j \in S : j <= i
  BY <1>0, <1>3, <1>4
<1> QED
  BY <1>5

(* proc_create lays out a process.                                          *)
LEMMA NewProcType ==
    ASSUME TypeOK, At("palloc_proc"), NEW p \in Proc, NewProc(p)
    PROVE  /\ stk' \in [Thread -> Seq(Frame)] /\ heap' \in L!Heap
           /\ state' \in [Thread -> State] /\ child_num' \in [Thread -> Slot]
           /\ ppages' \in SUBSET Proc
<1>1. 0 \in Slot
  BY ConstantsAssumption DEF Slot
<1>2. FrA(CallerOf(cur), p) \in Frame
  BY ProcFrames DEF CallerOf
<1>3. CallThreadCreate(p, 0)
         \o <<FrA("num_live_set", p), FrA("link_proc", p), FrA(CallerOf(cur), p)>>
      \in Seq(Frame)
  BY <1>1, <1>2, PlainFrames, ProcFrames DEF CallThreadCreate
<1>4. stk' \in [Thread -> Seq(Frame)]
  BY <1>3, GotoType DEF NewProc
<1>5. heap' \in L!Heap
  BY ListInitType DEF NewProc, TypeOK, ListId
<1>6. state' \in [Thread -> State]
  BY DEF NewProc, TypeOK, State
<1>7. child_num' \in [Thread -> Slot]
  <2> DEFINE stale(t) == {i \in Slot : threads[p][i] = t}
  <2>1. \A t \in Thread : stale(t) # {} =>
          (CHOOSE i \in stale(t) : \A j \in stale(t) : j <= i) \in Slot
    BY LastSlot
  <2>2. \A t \in Thread : child_num[t] \in Slot
    BY DEF TypeOK
  <2> QED
    BY <2>1, <2>2 DEF NewProc
<1> QED
  BY <1>4, <1>5, <1>6, <1>7 DEF NewProc, TypeOK

(* PallocProc keeps TypeOK.                                                 *)
LEMMA PallocProcType == ASSUME TypeOK, PallocProc PROVE TypeOK'
<1>1. At("palloc_proc") /\ ProcPages \subseteq Proc
  BY DEF PallocProc, ProcPages, Proc
<1>a. incidents' \in SUBSET Incident
  BY DEF PallocProc, Meet, Incident, TypeOK
<1>2. ASSUME Goto(<<Fr(CallerOf(cur))>>), UNCHANGED <<heap, state, child_num, ppages>>
      PROVE  TypeOK'
  <2>1. Fr(CallerOf(cur)) \in Frame
    BY PlainFrames DEF CallerOf
  <2>2. stk' \in [Thread -> Seq(Frame)]
    BY <1>1, <1>2, <2>1, GotoFrames
  <2> QED
    BY <1>a, <1>2, <2>2 DEF PallocProc, TypeOK, cpu
<1>3. ASSUME NEW p \in ProcPages, NewProc(p)
      PROVE  TypeOK'
  <2>1. p \in Proc
    BY <1>1
  <2> QED
    BY <1>1, <1>a, <1>3, <2>1, NewProcType DEF PallocProc, TypeOK, cpu
<1> QED
  BY <1>2, <1>3 DEF PallocProc

(* The initial state is typed.                                              *)
LEMMA InitType == Init => TypeOK
<1> SUFFICES ASSUME Init PROVE TypeOK
  OBVIOUS
<1>1. {BootT, IdleT, ShellT} \subseteq Thread /\ {InitP, ShellP} \subseteq Proc
  BY DEF Thread, Proc
<1>2. NoHeap \in L!Heap
  BY DEF NoHeap, L!Heap
<1>3. heap \in L!Heap
  BY <1>1, <1>2, ListInitType DEF Init, ListId
<1>4. <<Fr("init_threads"), Fr("idle_made"), Fr("link_init"),
        Fr("palloc"), Fr("palloc_proc"), Fr("yield_loop")>> \in Seq(Frame)
  BY PlainFrames
<1>5. stk \in [Thread -> Seq(Frame)]
  BY <1>4 DEF Init
<1>6. num_live \in [Proc -> Byte]
  BY DEF Init, Byte
<1>7. child_num \in [Thread -> Slot]
  BY ConstantsAssumption DEF Init, Slot
<1>8. /\ state \in [Thread -> State] /\ wait_code \in [Thread -> Int]
      /\ parent \in [Thread -> Proc] /\ eax \in [Thread -> Int]
  BY <1>1 DEF Init, State
<1>9. /\ threads \in [Proc -> [Slot -> Thread \cup {NULL}]]
      /\ active \in [Proc -> Thread \cup {NULL}]
  BY DEF Init
<1> QED
  BY <1>1, <1>3, <1>5, <1>6, <1>7, <1>8, <1>9 DEF Init, TypeOK

(* Every step keeps TypeOK.                                                 *)
LEMMA NextType == ASSUME TypeOK, [Next]_vars PROVE TypeOK'
<1>1. CASE Boot
  BY <1>1, InitThreadsType, IdleMadeType, LinkInitType, BootStiType, YieldLoopType DEF Boot
<1>2. CASE Create
  BY <1>2, PallocAcquireType, PallocThreadType, TcInsertType, PallocProcType,
     NumLiveSetType, LinkProcType, LiveIncType DEF Create
<1>3. CASE Sleep
  BY <1>3, ThreadBlockType, ThreadUnblockType, WaitType, WaitRetType, NotifyType DEF Sleep
<1>4. CASE Die
  BY <1>4, ThreadExitType, ThreadKillType, KillRestType, ThreadCleanupType,
     ProcCleanupType, PfreeProcType, PfreeThreadType, ProcKillType, ProcKillNextType DEF Die
<1>5. CASE Sched
  BY <1>5, ScheduleType, DemoteType, EnqueueType, SelfDyingType, NoSwitchType,
     SwitchType, FinishScheduleType, StiType, FirstEoiType, ThreadExecuteType,
     IrqReturnType DEF Sched
<1>6. CASE Run
  BY <1>6, IdleType, ShellCallType, BodyReturnType, BodyYieldType, BodyNoSlotType,
     BodyCreateType, BodyWaitType, BodyKillType, BodyExitType DEF Run, BodyCall
<1>7. CASE ShellCommand \/ TimerInterrupt
  BY <1>7, ShellCommandType, TimerInterruptType
<1>8. CASE UNCHANGED vars
  BY <1>8 DEF vars, TypeOK, tables, memory, cpu, used
<1> QED
  BY <1>1, <1>2, <1>3, <1>4, <1>5, <1>6, <1>7, <1>8 DEF Next, Code

(* thread.c, proc.c: the state of the scheduler keeps its type.  Beyond the *)
(* shape of the variables this says that every segment of code works on a   *)
(* structure of the kind it expects (schedule switches to a thread,         *)
(* proc_notify is given a process), that a thread's child_num is an index   *)
(* of its process's table, that every list link leads to a node, and that   *)
(* the thread count stays a byte.                                           *)
THEOREM TypeCorrect == Spec => []TypeOK
<1>1. Init => TypeOK
  BY InitType
<1>2. TypeOK /\ [Next]_vars => TypeOK'
  BY NextType
<1> QED
  BY <1>1, <1>2, PTL DEF Spec

-----------------------------------------------------------------------------
(***************************************************************************)
(* RunningIsCurrent, for any number of threads, processes, slots, ticks    *)
(* and calls: unless the timer re-enters schedule, no thread but the one   *)
(* on the CPU is RUNNING.                                                  *)
(*                                                                         *)
(* It is not inductive: switch_threads leaves the current thread's stack   *)
(* without touching its state, so what has to be known is that schedule,   *)
(* between the demotion of the current thread and the switch, cannot meet  *)
(* a current thread that is RUNNING.  SwitchInv says so of the stacks: no  *)
(* stack but the current one holds a frame of that stretch of schedule,    *)
(* save a switch of a thread to itself, and the current one does only      *)
(* while its thread is not RUNNING.                                        *)
(*                                                                         *)
(* Most actions are alike to it: they replace a top frame of no interest   *)
(* by frames outside that stretch (Plain).  The lemmas XxxPlain show it    *)
(* group by group, the lemmas XxxSwitch do the others.                     *)
(***************************************************************************)

(* The segments of schedule between the change of the current thread's      *)
(* state and the switch.                                                    *)
Midway == {"enqueue", "self_dying", "switch"}

(* The frames of t's stack that may lie about while t is RUNNING: those     *)
(* outside these segments, and a switch of t to itself.                     *)
AnyFrame   == [pc : Label, arg : Thread \cup Proc \cup {NULL}, n : Int, m : Int]
CalmFrame  == {f \in AnyFrame : f.pc \notin Midway}
Settled(t) == {f \in AnyFrame : f.pc \in Midway => f.pc = "switch" /\ f.arg = t}

(* The current thread has given up RUNNING and is inside schedule, directly *)
(* or interrupted by a timer interrupt that only counts.                    *)
GivesUp(t) ==
    /\ t = cur /\ state[t] # "RUNNING" /\ stk[t] # <<>>
    /\ \/ Head(stk[t]).pc \in Midway /\ Tail(stk[t]) \in Seq(Settled(t))
       \/ /\ Head(stk[t]).pc = "irq_return" /\ ~iflag
          /\ Tail(stk[t]) # <<>> /\ Head(Tail(stk[t])).pc \in Midway
          /\ Tail(Tail(stk[t])) \in Seq(Settled(t))

OneRunning ==
    /\ \A t \in Thread : state[t] = "RUNNING" => t = cur
    /\ \A t \in Thread : stk[t] \in Seq(Settled(t)) \/ GivesUp(t)

SwitchInv == Without({"reentered"}) => OneRunning

(* A sequence over a set is one over a larger set.                          *)
LEMMA SeqGrows == ASSUME NEW S, NEW T, S \subseteq T, NEW s \in Seq(S) PROVE s \in Seq(T)
<1>1. /\ Len(s) \in Nat /\ DOMAIN s = 1..Len(s) /\ s = [i \in 1..Len(s) |-> s[i]]
      /\ \A i \in 1..Len(s) : s[i] \in S
  BY LenProperties
<1>2. \A i \in 1..Len(s) : s[i] \in T
  BY <1>1
<1>3. [i \in 1..Len(s) |-> s[i]] \in [1..Len(s) -> T]
  BY <1>2
<1> QED
  BY <1>1, <1>3, SeqDef

(* Pushing calm frames leaves a settled stack.                              *)
LEMMA CalmPush ==
    ASSUME NEW t, NEW s \in Seq(Settled(t)), NEW fs \in Seq(CalmFrame)
    PROVE  fs \o s \in Seq(Settled(t))
<1>1. CalmFrame \subseteq Settled(t)
  BY DEF CalmFrame, Settled
<1>2. fs \in Seq(Settled(t))
  BY <1>1, SeqGrows
<1> QED
  BY <1>2

(* The frames the actions push are calm.                                    *)
LEMMA CalmFrames ==
    LET P == Label \ Midway
        X == Thread \cup Proc \cup {NULL}
    IN  /\ \A pc \in P : Fr(pc) \in CalmFrame
        /\ \A pc \in P : \A x \in X : FrA(pc, x) \in CalmFrame
        /\ \A pc \in P : \A x \in X : \A n \in Int : FrN(pc, x, n) \in CalmFrame
        /\ \A pc \in P : \A x \in X : \A n, m \in Int : FrM(pc, x, n, m) \in CalmFrame
BY DEF CalmFrame, AnyFrame, Fr, FrA, FrN, FrM

(* One to four of them.                                                     *)
LEMMA CalmTuples ==
    /\ <<>> \in Seq(CalmFrame)
    /\ \A e \in CalmFrame : <<e>> \in Seq(CalmFrame)
    /\ \A e, f \in CalmFrame : <<e, f>> \in Seq(CalmFrame)
    /\ \A e, f, g \in CalmFrame : <<e, f, g>> \in Seq(CalmFrame)
    /\ \A e, f, g, h \in CalmFrame : <<e, f, g, h>> \in Seq(CalmFrame)
OBVIOUS

(* Under a top frame that is not irq_return, the stack is settled; under    *)
(* one that is calm as well, the whole of it is.                            *)
LEMMA CurSettled ==
    ASSUME TypeOK, SwitchInv, Without({"reentered"}), NEW pc, At(pc), pc # "irq_return"
    PROVE  /\ Tail(stk[cur]) \in Seq(Settled(cur))
           /\ pc \notin Midway => stk[cur] \in Seq(Settled(cur))
           /\ pc \in {"enqueue", "self_dying"} => state[cur] # "RUNNING"
           /\ pc = "switch" => state[cur] # "RUNNING" \/ Top.arg = cur
<1>1. cur \in Thread /\ stk[cur] # <<>> /\ Head(stk[cur]) = Top /\ Top.pc = pc
      /\ stk[cur] \in Seq(Frame)
  BY TopType DEF TypeOK, Top
<1>2. CASE GivesUp(cur)
  <2>1. Head(stk[cur]).pc # "irq_return"
    BY <1>1
  <2> QED
    BY <1>1, <1>2, <2>1 DEF GivesUp
<1>3. CASE stk[cur] \in Seq(Settled(cur))
  <2>1. Tail(stk[cur]) \in Seq(Settled(cur)) /\ Top \in Settled(cur)
    BY <1>1, <1>3
  <2> QED
    BY <1>1, <1>3, <2>1 DEF Settled, Midway
<1> QED
  BY <1>1, <1>2, <1>3 DEF SwitchInv, OneRunning

(* What the steps that push calm frames have in common: the top frame is    *)
(* not that of an interrupt, the CPU stays on its stack, and no other       *)
(* thread is made RUNNING.                                                  *)
Plain(pc, fs) ==
    /\ At(pc) /\ pc # "irq_return" /\ Goto(fs) /\ fs \in Seq(CalmFrame)
    /\ cur' = cur /\ incidents \subseteq incidents'
    /\ \A t \in Thread : state'[t] = "RUNNING" => t = cur \/ state[t] = "RUNNING"

(* A plain step keeps the invariant.                                        *)
LEMMA PlainStep ==
    ASSUME TypeOK, SwitchInv, NEW pc, NEW fs, Plain(pc, fs)
    PROVE  SwitchInv'
<1> SUFFICES ASSUME Without({"reentered"})' PROVE OneRunning'
  BY DEF SwitchInv
<1>1. Without({"reentered"})
  BY DEF Plain, Without
<1>2. Tail(stk[cur]) \in Seq(Settled(cur)) /\ cur \in Thread
  BY <1>1, CurSettled DEF Plain, TypeOK
<1>3. fs \o Tail(stk[cur]) \in Seq(Settled(cur))
  BY <1>2, CalmPush DEF Plain
<1>4. stk'[cur] = fs \o Tail(stk[cur]) /\ \A t \in Thread \ {cur} : stk'[t] = stk[t]
  BY <1>2 DEF Plain, Goto, TypeOK
<1>5. \A t \in Thread : stk'[t] \in Seq(Settled(t))
  BY <1>1, <1>3, <1>4 DEF SwitchInv, OneRunning, GivesUp
<1>6. \A t \in Thread : state'[t] = "RUNNING" => t = cur'
  BY <1>1 DEF SwitchInv, OneRunning, Plain
<1> QED
  BY <1>5, <1>6 DEF OneRunning, Settled

(* The incidents only grow.                                                 *)
LEMMA MeetGrows == ASSUME NEW i, NEW c, Meet(i, c) PROVE incidents \subseteq incidents'
BY DEF Meet

(* What the top frame works on, and its numbers.                            *)
LEMMA PlainTop ==
    ASSUME TypeOK, NEW pc, At(pc)
    PROVE  Top.arg \in Thread \cup Proc \cup {NULL} /\ Top.n \in Int /\ Top.m \in Int
BY TopType, TopNumbers DEF Frame

(* Up to three frames whose labels are calm.                                *)
LEMMA CalmStacks ==
    LET P == Label \ Midway IN
    /\ <<>> \in Seq(CalmFrame)
    /\ \A b \in P : <<Fr(b)>> \in Seq(CalmFrame)
    /\ \A b, c \in P : <<Fr(b), Fr(c)>> \in Seq(CalmFrame)
    /\ \A b, c, d \in P : <<Fr(b), Fr(c), Fr(d)>> \in Seq(CalmFrame)
    /\ \A b \in P : \A x \in Thread \cup Proc \cup {NULL} : <<FrA(b, x)>> \in Seq(CalmFrame)
    /\ \A b, c \in P : \A x \in Thread \cup Proc \cup {NULL} :
          /\ <<Fr(c), FrA(b, x)>> \in Seq(CalmFrame)
          /\ <<FrA(b, x), Fr(c)>> \in Seq(CalmFrame)
<1>1. \A b \in Label \ Midway : Fr(b) \in CalmFrame
  BY CalmFrames
<1>2. \A b \in Label \ Midway : \A x \in Thread \cup Proc \cup {NULL} : FrA(b, x) \in CalmFrame
  BY CalmFrames
<1> QED
  BY <1>1, <1>2, CalmTuples

(* Boot, step by step.                                                      *)
LEMMA BootPlain ==
    ASSUME TypeOK, Boot
    PROVE  \E pc, fs : Plain(pc, fs)
<1>0. InitP \in Proc /\ 0 \in Slot /\ 0 \in Int
  BY ConstantsAssumption DEF Proc, Slot
<1>1. InitThreads => Plain("init_threads", CallThreadCreate(InitP, 0))
  <2>1. Fr("palloc") \in CalmFrame /\ FrN("palloc_thread", InitP, 0) \in CalmFrame
    BY <1>0, CalmFrames DEF Label, Midway
  <2>2. CallThreadCreate(InitP, 0) \in Seq(CalmFrame)
    BY <2>1, CalmTuples DEF CallThreadCreate
  <2> QED
    BY <2>2 DEF InitThreads, Plain, cpu, used
<1>2. IdleMade => Plain("idle_made", <<>>)
  BY CalmStacks DEF IdleMade, Plain, cpu, used, TypeOK
<1>3. LinkInit => Plain("link_init", <<>>)
  BY CalmStacks DEF LinkInit, Plain, cpu, used
<1>4. BootSti => Plain("boot_sti", <<>>)
  BY CalmStacks DEF BootSti, Plain, used
<1>5. YieldLoop => Plain("yield_loop", <<Fr("schedule"), Fr("yield_loop")>>)
  BY CalmStacks DEF YieldLoop, Plain, cpu, used, Label, Midway
<1> QED
  BY <1>1, <1>2, <1>3, <1>4, <1>5 DEF Boot

(* Creation of threads and processes, without the layout of a new thread.   *)
LEMMA CreatePlain ==
    ASSUME TypeOK, Create, ~PallocThread
    PROVE  \E pc, fs : Plain(pc, fs)
<1>1. PallocAcquire => Plain("palloc", <<>>)
  BY CalmStacks DEF PallocAcquire, Plain, cpu, used
<1>2. TcInsert => Plain("tc_insert", <<>>)
  BY CalmStacks DEF TcInsert, Plain, used
<1>3. NumLiveSet => Plain("num_live_set", <<>>)
  BY CalmStacks DEF NumLiveSet, Plain, cpu, used
<1>4. LinkProc => Plain("link_proc", <<>>)
  BY CalmStacks DEF LinkProc, Plain, cpu, used
<1>5. LiveInc => Plain("live_inc", <<>>)
  BY CalmStacks, MeetGrows DEF LiveInc, Plain, cpu
<1>6. ASSUME PallocProc PROVE \E pc, fs : Plain(pc, fs)
  <2>0. incidents \subseteq incidents'
    BY <1>6, MeetGrows DEF PallocProc
  <2>1. CASE Goto(<<Fr(CallerOf(cur))>>) /\ UNCHANGED <<heap, state, child_num, ppages>>
    <3>1. <<Fr(CallerOf(cur))>> \in Seq(CalmFrame)
      BY CalmStacks DEF CallerOf, Label, Midway
    <3>2. Plain("palloc_proc", <<Fr(CallerOf(cur))>>)
      BY <1>6, <2>0, <2>1, <3>1 DEF PallocProc, Plain, cpu
    <3> QED
      BY <3>2
  <2>2. CASE \E p \in ProcPages \ ppages : NewProc(p)
    <3>1. PICK p \in ProcPages \ ppages : NewProc(p)
      BY <2>2
    <3>2. p \in Proc /\ 0 \in Slot /\ 0 \in Int
      BY <3>1, ConstantsAssumption DEF ProcPages, Proc, Slot
    <3> DEFINE fs == CallThreadCreate(p, 0)
                     \o <<FrA("num_live_set", p), FrA("link_proc", p), FrA(CallerOf(cur), p)>>
    <3>3. /\ Fr("palloc") \in CalmFrame /\ FrN("palloc_thread", p, 0) \in CalmFrame
          /\ FrA("num_live_set", p) \in CalmFrame /\ FrA("link_proc", p) \in CalmFrame
          /\ FrA(CallerOf(cur), p) \in CalmFrame
      BY <3>2, CalmFrames DEF CallerOf, Label, Midway
    <3>4. fs \in Seq(CalmFrame)
      BY <3>3, CalmTuples DEF CallThreadCreate
    <3>5. \A t \in Thread : state'[t] = "RUNNING" => state[t] = "RUNNING"
      BY <3>1 DEF NewProc
    <3>6. Goto(fs)
      BY <3>1 DEF NewProc
    <3> HIDE DEF fs
    <3>7. Plain("palloc_proc", fs)
      BY <1>6, <2>0, <3>4, <3>5, <3>6 DEF PallocProc, Plain, cpu
    <3> QED
      BY <3>7
  <2> QED
    BY <1>6, <2>1, <2>2 DEF PallocProc
<1> QED
  BY <1>1, <1>2, <1>3, <1>4, <1>5, <1>6 DEF Create

(* thread_block, thread_unblock, waiting and notifying.                     *)
LEMMA SleepPlain ==
    ASSUME TypeOK, Sleep
    PROVE  \E pc, fs : Plain(pc, fs)
<1>1. ThreadBlock => Plain("block", <<>>) \/ Plain("block", <<Fr("schedule")>>)
  BY CalmStacks, MeetGrows DEF ThreadBlock, Plain, TypeOK, Label, Midway
<1>2. ThreadUnblock => Plain("unblock", <<>>)
  BY CalmStacks, MeetGrows DEF ThreadUnblock, Plain, TypeOK
<1>3. Wait => Plain("wait", <<Fr("block"), FrA("wait_ret", Top.arg)>>)
  BY PlainTop, CalmStacks DEF Wait, Plain, cpu, used, Label, Midway
<1>4. WaitRet => Plain("wait_ret", <<>>)
  BY CalmStacks DEF WaitRet, Plain, cpu, used
<1>5. ASSUME Notify PROVE \E pc, fs : Plain(pc, fs)
  <2>1. CASE Goto(<<>>)
    <3>1. Plain("notify", <<>>)
      BY <1>5, <2>1, CalmStacks DEF Notify, Plain, cpu, used
    <3> QED
      BY <3>1
  <2>2. CASE \E w \in Thread : Goto(<<FrA("unblock", w), Top>>)
    <3>1. PICK w \in Thread : Goto(<<FrA("unblock", w), Top>>)
      BY <2>2
    <3>2. FrA("unblock", w) \in CalmFrame
      BY CalmFrames DEF Label, Midway
    <3>3. Top \in CalmFrame
      <4>1. Top \in Frame /\ Top.pc = "notify"
        BY <1>5, TopType DEF Notify
      <4> QED
        BY <4>1 DEF CalmFrame, AnyFrame, Frame, Midway
    <3>4. <<FrA("unblock", w), Top>> \in Seq(CalmFrame)
      BY <3>2, <3>3, CalmTuples
    <3>5. Plain("notify", <<FrA("unblock", w), Top>>)
      BY <1>5, <3>1, <3>4 DEF Notify, Plain, cpu, used
    <3> QED
      BY <3>5
  <2> QED
    BY <1>5, <2>1, <2>2 DEF Notify
<1> QED
  BY <1>1, <1>2, <1>3, <1>4, <1>5 DEF Sleep

(* Dying and killing.                                                       *)
LEMMA DiePlain ==
    ASSUME TypeOK, Die
    PROVE  \E pc, fs : Plain(pc, fs)
<1> DEFINE Any == Thread \cup Proc \cup {NULL}
<1>0. cur \in Any
  BY DEF TypeOK
<1>1. ThreadExit => Plain("exit", <<FrN("notify", cur, 0), Fr("schedule")>>)
  <2>1. FrN("notify", cur, 0) \in CalmFrame /\ Fr("schedule") \in CalmFrame
    BY <1>0, CalmFrames DEF Label, Midway
  <2>2. <<FrN("notify", cur, 0), Fr("schedule")>> \in Seq(CalmFrame)
    BY <2>1, CalmTuples
  <2> QED
    BY <2>2 DEF ThreadExit, Plain, used, TypeOK
<1>2. ASSUME ThreadKill PROVE \E pc, fs : Plain(pc, fs)
  <2> DEFINE fs == (IF state[Top.arg] = "RUNNING" THEN <<Fr("exit")>> ELSE <<>>)
                   \o <<FrA("kill_rest", Top.arg)>>
  <2>1. Top.arg \in Any
    BY <1>2, PlainTop DEF ThreadKill
  <2>2. /\ <<Fr("exit")>> \in Seq(CalmFrame) /\ <<>> \in Seq(CalmFrame)
        /\ <<FrA("kill_rest", Top.arg)>> \in Seq(CalmFrame)
    BY <2>1, CalmStacks DEF Label, Midway
  <2>3. fs \in Seq(CalmFrame)
    BY <2>2
  <2>4. Goto(fs)
    BY <1>2 DEF ThreadKill
  <2> HIDE DEF fs
  <2>5. Plain("kill", fs)
    BY <1>2, <2>3, <2>4 DEF ThreadKill, Plain, used
  <2> QED
    BY <2>5
<1>3. ASSUME KillRest PROVE \E pc, fs : Plain(pc, fs)
  <2>1. PICK f \in {<<>>, <<FrN("notify", Top.arg, -1), FrA("cleanup", Top.arg)>>} :
          Goto(f \o <<Fr("sti")>>)
    BY <1>3 DEF KillRest
  <2>2. Top.arg \in Any
    BY <1>3, PlainTop DEF KillRest
  <2>3. FrN("notify", Top.arg, -1) \in CalmFrame /\ FrA("cleanup", Top.arg) \in CalmFrame
        /\ Fr("sti") \in CalmFrame
    BY <2>2, CalmFrames DEF Label, Midway
  <2>4. f \in Seq(CalmFrame) /\ <<Fr("sti")>> \in Seq(CalmFrame)
    BY <2>1, <2>3, CalmTuples
  <2>5. f \o <<Fr("sti")>> \in Seq(CalmFrame)
    BY <2>4
  <2>6. Plain("kill_rest", f \o <<Fr("sti")>>)
    BY <1>3, <2>1, <2>5, MeetGrows DEF KillRest, Plain, cpu, TypeOK
  <2> QED
    BY <2>6
<1>4. ASSUME ThreadCleanup PROVE \E pc, fs : Plain(pc, fs)
  <2> DEFINE p == parent[Top.arg]
             rest == <<FrA("pfree_thread", Top.arg)>>
  <2>1. Top.arg \in Any /\ p \in Any
    BY <1>4, TopThread DEF ThreadCleanup, OnThread, TypeOK
  <2>2. /\ FrA("pfree_thread", Top.arg) \in CalmFrame
        /\ FrA("proc_cleanup", p) \in CalmFrame /\ FrA("pfree_proc", p) \in CalmFrame
    BY <2>1, CalmFrames DEF Label, Midway
  <2>3. FrN("notify", p, 0) \in CalmFrame
    <3>1. \A x \in Any : FrN("notify", x, 0) \in CalmFrame
      BY CalmFrames DEF Label, Midway
    <3> QED
      BY <2>1, <3>1
  <2>4. rest \in Seq(CalmFrame)
        /\ <<FrN("notify", p, 0), FrA("proc_cleanup", p), FrA("pfree_proc", p)>> \in Seq(CalmFrame)
    BY <2>2, <2>3, CalmTuples
  <2>5. PICK f \in {<<>>, rest, <<FrN("notify", p, 0), FrA("proc_cleanup", p),
                                  FrA("pfree_proc", p)>> \o rest} : Goto(f)
    <3>1. <<>> \o rest = rest
      OBVIOUS
    <3> QED
      BY <1>4, <3>1 DEF ThreadCleanup
  <2>6. f \in Seq(CalmFrame)
    <3>1. <<FrN("notify", p, 0), FrA("proc_cleanup", p), FrA("pfree_proc", p)>> \o rest
            \in Seq(CalmFrame)
      BY <2>4
    <3> QED
      BY <2>4, <2>5, <3>1, CalmTuples
  <2>7. Plain("cleanup", f)
    BY <1>4, <2>5, <2>6, MeetGrows DEF ThreadCleanup, Plain, cpu
  <2> QED
    BY <2>7
<1>5. ProcCleanup => Plain("proc_cleanup", <<>>)
  BY CalmStacks DEF ProcCleanup, Plain, cpu, used
<1>6. PfreeProc => Plain("pfree_proc", <<>>)
  BY CalmStacks DEF PfreeProc, Plain, cpu, used
<1>7. PfreeThread => Plain("pfree_thread", <<>>)
  BY CalmStacks DEF PfreeThread, Plain, cpu, used
<1>8. ASSUME ProcKill PROVE \E pc, fs : Plain(pc, fs)
  <2> DEFINE p == Top.arg
             t == threads[p][Top.n]
  <2>1. PICK f \in {<<>>, <<Fr("exit")>>, <<FrM("proc_kill", p, Top.n + 1, Top.m)>>,
                    <<FrA("kill", t), FrM("proc_kill_next", p, Top.n, Top.m)>>} :
          /\ Goto(f)
          /\ f = <<FrA("kill", t), FrM("proc_kill_next", p, Top.n, Top.m)>> => Top.n \in Slot
    BY <1>8 DEF ProcKill
  <2>2. p \in Proc /\ Top.n \in Int /\ Top.m \in Int /\ Top.n + 1 \in Int
    BY <1>8, TopProc, TopNumbers DEF ProcKill, OnProc
  <2>3. Top.n \in Slot => t \in Any
    BY <2>2 DEF TypeOK
  <2>4. /\ Fr("exit") \in CalmFrame /\ FrM("proc_kill", p, Top.n + 1, Top.m) \in CalmFrame
        /\ FrM("proc_kill_next", p, Top.n, Top.m) \in CalmFrame
        /\ Top.n \in Slot => FrA("kill", t) \in CalmFrame
    BY <2>2, <2>3, CalmFrames DEF Label, Midway
  <2>5. f \in Seq(CalmFrame)
    BY <2>1, <2>4, CalmTuples
  <2>6. Plain("proc_kill", f)
    BY <1>8, <2>1, <2>5 DEF ProcKill, Plain, cpu, used
  <2> QED
    BY <2>6
<1>9. ASSUME ProcKillNext PROVE \E pc, fs : Plain(pc, fs)
  <2>1. PICK m \in {Top.m, Top.m - 1} : Goto(<<FrM("proc_kill", Top.arg, Top.n + 1, m)>>)
    BY <1>9 DEF ProcKillNext
  <2>2. Top.arg \in Any /\ Top.n + 1 \in Int /\ m \in Int
    BY <1>9, <2>1, PlainTop DEF ProcKillNext
  <2>3. FrM("proc_kill", Top.arg, Top.n + 1, m) \in CalmFrame
    BY <2>2, CalmFrames DEF Label, Midway
  <2>4. <<FrM("proc_kill", Top.arg, Top.n + 1, m)>> \in Seq(CalmFrame)
    BY <2>3, CalmTuples
  <2>5. Plain("proc_kill_next", <<FrM("proc_kill", Top.arg, Top.n + 1, m)>>)
    BY <1>9, <2>1, <2>4 DEF ProcKillNext, Plain, cpu, used
  <2> QED
    BY <2>5
<1> QED
  BY <1>1, <1>2, <1>3, <1>4, <1>5, <1>6, <1>7, <1>8, <1>9 DEF Die

(* The scheduler, outside Midway.                                           *)
LEMMA SchedPlain ==
    ASSUME TypeOK,
           Schedule \/ NoSwitch \/ FinishSchedule \/ Sti \/ FirstEoi \/ ThreadExecute
    PROVE  \E pc, fs : Plain(pc, fs)
<1>1. ASSUME Schedule PROVE \E pc, fs : Plain(pc, fs)
  <2>1. PICK t \in Thread : \/ Goto(<<FrA("unblock", t), FrA("demote", t)>>)
                            \/ Goto(<<FrA("demote", t)>>)
    BY <1>1 DEF Schedule, Thread
  <2>2. FrA("unblock", t) \in CalmFrame /\ FrA("demote", t) \in CalmFrame
    BY CalmFrames DEF Label, Midway
  <2>3. /\ <<FrA("unblock", t), FrA("demote", t)>> \in Seq(CalmFrame)
        /\ <<FrA("demote", t)>> \in Seq(CalmFrame)
    BY <2>2, CalmTuples
  <2>4. \/ Plain("schedule", <<FrA("unblock", t), FrA("demote", t)>>)
        \/ Plain("schedule", <<FrA("demote", t)>>)
    BY <1>1, <2>1, <2>3, MeetGrows DEF Schedule, Plain
  <2> QED
    BY <2>4
<1>2. NoSwitch => Plain("switch", <<>>)
  BY CalmStacks DEF NoSwitch, Plain, TypeOK, used
<1>3. ASSUME FinishSchedule PROVE \E pc, fs : Plain(pc, fs)
  <2>1. \A t \in Thread : state'[t] = "RUNNING" => t = cur \/ state[t] = "RUNNING"
    BY <1>3 DEF FinishSchedule, TypeOK
  <2>2. CASE Goto(<<>>)
    <3>1. Plain("finish", <<>>)
      BY <1>3, <2>1, <2>2, CalmStacks DEF FinishSchedule, Plain, used
    <3> QED
      BY <3>1
  <2>3. CASE \E d \in Thread : Goto(<<FrA("cleanup", d), Fr("sti")>>)
    <3>1. PICK d \in Thread : Goto(<<FrA("cleanup", d), Fr("sti")>>)
      BY <2>3
    <3>2. <<FrA("cleanup", d), Fr("sti")>> \in Seq(CalmFrame)
      BY CalmStacks DEF Label, Midway
    <3>3. Plain("finish", <<FrA("cleanup", d), Fr("sti")>>)
      BY <1>3, <2>1, <3>1, <3>2 DEF FinishSchedule, Plain, used
    <3> QED
      BY <3>3
  <2> QED
    BY <1>3, <2>2, <2>3 DEF FinishSchedule
<1>4. Sti => Plain("sti", <<>>)
  BY CalmStacks DEF Sti, Plain, used
<1>5. FirstEoi => Plain("first_eoi", <<>>)
  BY CalmStacks DEF FirstEoi, Plain, used
<1>6. ThreadExecute => Plain("execute", <<Fr(Func(parent[cur])), Fr("exit")>>)
  BY CalmStacks DEF ThreadExecute, Plain, used, Func, Label, Midway
<1> QED
  BY <1>1, <1>2, <1>3, <1>4, <1>5, <1>6

(* What the threads run.                                                    *)
LEMMA RunPlain ==
    ASSUME TypeOK, Run \/ ShellCommand
    PROVE  \E pc, fs : Plain(pc, fs)
<1> DEFINE Any == Thread \cup Proc \cup {NULL}
<1>0. parent[cur] \in Any /\ num_live[parent[cur]] \in Int /\ 0 \in Int
  <2>1. parent[cur] \in Proc
    BY DEF TypeOK
  <2>2. num_live[parent[cur]] \in Byte
    BY <2>1 DEF TypeOK
  <2> QED
    BY <2>1, <2>2 DEF Byte
<1>1. Idle => Plain("idle", <<Fr("block"), Fr("idle")>>)
  BY CalmStacks DEF Idle, Plain, cpu, used, Label, Midway
<1>2. ShellCommand => Plain("shell", <<Fr("palloc"), Fr("palloc_proc"), Fr("shell")>>)
  BY CalmStacks DEF ShellCommand, Plain, cpu, Label, Midway
<1>3. ASSUME ShellCall PROVE \E pc, fs : Plain(pc, fs)
  <2>1. Top.arg \in Any /\ (Top.arg # NULL => num_live[Top.arg] \in Int)
    <3>1. Top.arg \in Proc \cup {NULL}
      BY <1>3, TopType DEF ShellCall, Frame
    <3>2. \A p \in Proc : num_live[p] \in Byte
      BY DEF TypeOK
    <3> QED
      BY <3>1, <3>2 DEF Byte
  <2>2. PICK f \in {<<>>, <<FrA("wait", Top.arg)>>,
                    <<FrM("proc_kill", Top.arg, 0, num_live[Top.arg])>>} :
          Goto(f) /\ (f = <<>> \/ Top.arg # NULL)
    BY <1>3 DEF ShellCall
  <2>3. /\ FrA("wait", Top.arg) \in CalmFrame
        /\ Top.arg # NULL => FrM("proc_kill", Top.arg, 0, num_live[Top.arg]) \in CalmFrame
    BY <1>0, <2>1, CalmFrames DEF Label, Midway
  <2>4. f \in Seq(CalmFrame)
    BY <2>2, <2>3, CalmTuples
  <2>5. Plain("shell_call", f)
    BY <1>3, <2>2, <2>4 DEF ShellCall, Plain, cpu, used
  <2> QED
    BY <2>5
<1>4. BodyReturn => Plain("body", <<>>)
  BY CalmStacks DEF BodyReturn, Plain, cpu, used
<1>5. BodyYield => Plain("body", <<Fr("schedule"), Fr("body")>>)
  BY CalmStacks DEF BodyYield, Calling, Plain, cpu, Label, Midway
<1>6. BodyNoSlot => Plain("body", <<Fr("body")>>)
  BY CalmStacks DEF BodyNoSlot, Calling, Plain, cpu, Label, Midway
<1>7. ASSUME BodyCreate PROVE \E pc, fs : Plain(pc, fs)
  <2>1. PICK i \in FreeSlots : Goto(CallThreadCreate(parent[cur], i)
                                    \o <<FrA("live_inc", parent[cur]), Fr("body")>>)
    BY <1>7 DEF BodyCreate
  <2>2. i \in Int
    BY DEF FreeSlots, Slot
  <2>3. /\ Fr("palloc") \in CalmFrame /\ FrN("palloc_thread", parent[cur], i) \in CalmFrame
        /\ FrA("live_inc", parent[cur]) \in CalmFrame /\ Fr("body") \in CalmFrame
    BY <1>0, <2>2, CalmFrames DEF Label, Midway
  <2>4. CallThreadCreate(parent[cur], i) \in Seq(CalmFrame)
        /\ <<FrA("live_inc", parent[cur]), Fr("body")>> \in Seq(CalmFrame)
    BY <2>3, CalmTuples DEF CallThreadCreate
  <2> DEFINE f == CallThreadCreate(parent[cur], i)
                  \o <<FrA("live_inc", parent[cur]), Fr("body")>>
  <2>5. f \in Seq(CalmFrame)
    BY <2>4
  <2>6. Goto(f)
    BY <2>1
  <2> HIDE DEF f
  <2>7. Plain("body", f)
    BY <1>7, <2>5, <2>6 DEF BodyCreate, Calling, Plain, cpu
  <2> QED
    BY <2>7
<1>8. ASSUME BodyWait \/ BodyKill PROVE \E pc, fs : Plain(pc, fs)
  <2>1. PICK t \in Siblings, c \in {"wait", "kill"} : Goto(<<FrA(c, t), Fr("body")>>)
    BY <1>8 DEF BodyWait, BodyKill
  <2>2. <<FrA(c, t), Fr("body")>> \in Seq(CalmFrame)
    BY CalmStacks DEF Siblings, Label, Midway
  <2>3. Plain("body", <<FrA(c, t), Fr("body")>>)
    BY <1>8, <2>1, <2>2 DEF BodyWait, BodyKill, Calling, Plain, cpu
  <2> QED
    BY <2>3
<1>9. BodyExit => Plain("body", <<FrM("proc_kill", parent[cur], 0, num_live[parent[cur]]),
                                 Fr("body")>>)
  <2>1. /\ FrM("proc_kill", parent[cur], 0, num_live[parent[cur]]) \in CalmFrame
        /\ Fr("body") \in CalmFrame
    BY <1>0, CalmFrames DEF Label, Midway
  <2>2. <<FrM("proc_kill", parent[cur], 0, num_live[parent[cur]]), Fr("body")>> \in Seq(CalmFrame)
    BY <2>1, CalmTuples
  <2> QED
    BY <2>2 DEF BodyExit, Calling, Plain, cpu
<1> QED
  BY <1>1, <1>2, <1>3, <1>4, <1>5, <1>6, <1>7, <1>8, <1>9 DEF Run, BodyCall

-----------------------------------------------------------------------------
(* The steps that are not plain.                                            *)

(* schedule is inside Midway before and after: the current thread has given *)
(* up RUNNING.                                                              *)
LEMMA MidwayStep ==
    ASSUME TypeOK, SwitchInv, Without({"reentered"})', incidents \subseteq incidents',
           NEW pc, At(pc), pc # "irq_return", NEW f, f.pc \in Midway, Goto(<<f>>),
           cur' = cur, state'[cur] # "RUNNING",
           \A t \in Thread : state'[t] = "RUNNING" => state[t] = "RUNNING"
    PROVE  OneRunning'
<1>1. Without({"reentered"}) /\ cur \in Thread
  BY DEF Without, TypeOK
<1>2. Tail(stk[cur]) \in Seq(Settled(cur))
  BY <1>1, CurSettled
<1>3. stk'[cur] = <<f>> \o Tail(stk[cur]) /\ \A t \in Thread \ {cur} : stk'[t] = stk[t]
  BY <1>1 DEF Goto, TypeOK
<1>4. stk'[cur] # <<>> /\ Head(stk'[cur]) = f /\ Tail(stk'[cur]) = Tail(stk[cur])
  BY <1>2, <1>3
<1>5. GivesUp(cur)'
  BY <1>2, <1>4 DEF GivesUp
<1>6. \A t \in Thread \ {cur} : stk'[t] \in Seq(Settled(t))
  BY <1>1, <1>3 DEF SwitchInv, OneRunning, GivesUp
<1>7. \A t \in Thread : state'[t] = "RUNNING" => t = cur'
  BY <1>1 DEF SwitchInv, OneRunning
<1> QED
  BY <1>5, <1>6, <1>7 DEF OneRunning, Settled

(* The current thread gives up RUNNING ...                                  *)
LEMMA DemoteSwitch == ASSUME TypeOK, SwitchInv, Demote PROVE SwitchInv'
<1> SUFFICES ASSUME Without({"reentered"})' PROVE OneRunning'
  BY DEF SwitchInv
<1>1. state'[cur] # "RUNNING" /\ \A t \in Thread : state'[t] = "RUNNING" => state[t] = "RUNNING"
  BY DEF Demote, Demoted, TypeOK
<1> QED
  BY <1>1, MidwayStep DEF Demote, FrA, Midway, cpu, used

(* ... is filed ...                                                         *)
LEMMA EnqueueSwitch == ASSUME TypeOK, SwitchInv, Enqueue PROVE SwitchInv'
<1> SUFFICES ASSUME Without({"reentered"})' PROVE OneRunning'
  BY DEF SwitchInv
<1>1. incidents \subseteq incidents' /\ Without({"reentered"})
  BY MeetGrows DEF Enqueue, Without
<1>2. state[cur] # "RUNNING"
  BY <1>1, CurSettled DEF Enqueue
<1> QED
  BY <1>1, <1>2, MidwayStep DEF Enqueue, FrA, Midway, cpu

(* ... may turn out to be picked itself, and to be dying ...                *)
LEMMA SelfDyingSwitch == ASSUME TypeOK, SwitchInv, SelfDying PROVE SwitchInv'
<1> SUFFICES ASSUME Without({"reentered"})' PROVE OneRunning'
  BY DEF SwitchInv
<1>1. incidents' = incidents /\ Without({"reentered"}) /\ cur \in Thread /\ cur' = cur
      /\ state' = state /\ Top.arg \in Thread
  BY TopThread DEF SelfDying, Without, TypeOK, used, cpu, OnThread
<1>2. state[cur] # "RUNNING" /\ Tail(stk[cur]) \in Seq(Settled(cur))
  BY <1>1, CurSettled DEF SelfDying
<1>3. CASE cur = Top.arg /\ state[cur] = "DYING"
  <2>1. Fr("finish") \in Settled(cur) /\ FrA("switch", cur) \in Settled(cur)
    BY <1>1 DEF Fr, FrA, Settled, AnyFrame, Midway, Label
  <2>2. Goto(<<Fr("finish")>> \o <<FrA("switch", cur)>>)
    BY <1>3 DEF SelfDying
  <2>3. <<Fr("finish")>> \o <<FrA("switch", cur)>> \o Tail(stk[cur]) \in Seq(Settled(cur))
    BY <1>2, <2>1
  <2>4. \A t \in Thread : stk'[t] \in Seq(Settled(t))
    BY <1>1, <2>2, <2>3 DEF Goto, TypeOK, SwitchInv, OneRunning, GivesUp
  <2> QED
    BY <1>1, <2>4 DEF SwitchInv, OneRunning, Settled
<1>4. CASE ~(cur = Top.arg /\ state[cur] = "DYING")
  <2>1. <<>> \o <<FrA("switch", Top.arg)>> = <<FrA("switch", Top.arg)>>
    OBVIOUS
  <2>2. Goto(<<FrA("switch", Top.arg)>>)
    BY <1>4, <2>1 DEF SelfDying
  <2> QED
    BY <1>1, <1>2, <2>2, MidwayStep DEF SelfDying, FrA, Midway
<1> QED
  BY <1>3, <1>4

(* ... and is left for the thread that was picked.                          *)
LEMMA SwitchSwitch == ASSUME TypeOK, SwitchInv, Switch PROVE SwitchInv'
<1> SUFFICES ASSUME Without({"reentered"})' PROVE OneRunning'
  BY DEF SwitchInv
<1>1. incidents' = incidents /\ Without({"reentered"}) /\ cur \in Thread /\ state' = state
      /\ cur' # cur
  BY DEF Switch, Without, TypeOK, used
<1>2. state[cur] # "RUNNING" /\ Tail(stk[cur]) \in Seq(Settled(cur))
  BY <1>1, CurSettled DEF Switch
<1>3. Fr("finish") \in Settled(cur)
  BY DEF Fr, Settled, AnyFrame, Midway, Label
<1>4. <<Fr("finish")>> \o Tail(stk[cur]) \in Seq(Settled(cur))
  BY <1>2, <1>3
<1>5. \A t \in Thread : stk'[t] \in Seq(Settled(t))
  BY <1>1, <1>4 DEF Switch, Goto, TypeOK, SwitchInv, OneRunning, GivesUp
<1>6. \A t \in Thread : state[t] # "RUNNING"
  BY <1>1, <1>2 DEF SwitchInv, OneRunning
<1> QED
  BY <1>1, <1>5, <1>6 DEF OneRunning, Settled

(* A new thread starts with a calm stack, and is READY.                     *)
LEMMA PallocThreadSwitch == ASSUME TypeOK, SwitchInv, PallocThread PROVE SwitchInv'
<1>1. CASE NoThread
  <2>1. incidents \subseteq incidents'
    BY MeetGrows DEF PallocThread
  <2>2. Plain("palloc_thread", <<>>)
    BY <1>1, <2>1, CalmStacks DEF PallocThread, NoThread, Plain, cpu
  <2> QED
    BY <2>2, PlainStep
<1>2. ASSUME NEW b \in ThreadPages(Top.arg) \ tpages, NewThread(b, Top.arg, Top.n)
      PROVE  SwitchInv'
  <2> SUFFICES ASSUME Without({"reentered"})' PROVE OneRunning'
    BY DEF SwitchInv
  <2>1. /\ Without({"reentered"}) /\ cur \in Thread /\ cur' = cur
        /\ b \in Thread
    BY <1>2, MeetGrows DEF PallocThread, Without, TypeOK, cpu, ThreadPages, Thread
  <2>2. FrA("tc_insert", b) \in CalmFrame /\ FirstStack \in Seq(CalmFrame)
    BY <2>1, CalmFrames, CalmTuples DEF FirstStack, Label, Midway
  <2>3. Tail(stk[cur]) \in Seq(Settled(cur))
    BY <2>1, CurSettled DEF PallocThread
  <2>4. <<FrA("tc_insert", b)>> \o Tail(stk[cur]) \in Seq(Settled(cur))
    BY <2>2, <2>3, CalmPush, CalmTuples
  <2>5. FirstStack \in Seq(Settled(b))
    <3>1. CalmFrame \subseteq Settled(b)
      BY DEF CalmFrame, Settled
    <3> QED
      BY <2>2, <3>1, SeqGrows
  <2>6. \A t \in Thread : stk'[t] \in Seq(Settled(t))
    BY <1>2, <2>1, <2>4, <2>5 DEF NewThread, TypeOK, SwitchInv, OneRunning, GivesUp
  <2>7. \A t \in Thread : state'[t] = "RUNNING" => t = cur'
    BY <1>2, <2>1 DEF NewThread, TypeOK, SwitchInv, OneRunning
  <2> QED
    BY <2>6, <2>7 DEF OneRunning, Settled
<1> QED
  BY <1>1, <1>2 DEF PallocThread

(* An interrupt puts its frame on a stack that is settled, or, when it only *)
(* counts, on one that gives up RUNNING; in service, it keeps the           *)
(* interrupts off.                                                          *)
LEMMA TimerSwitch == ASSUME TypeOK, SwitchInv, TimerInterrupt PROVE SwitchInv'
<1> SUFFICES ASSUME Without({"reentered"})' PROVE OneRunning'
  BY DEF SwitchInv
<1> DEFINE slice == thread_ticks' % MAX_THREAD_TICKS = 0
<1>1. /\ Without({"reentered"}) /\ cur \in Thread /\ cur' = cur /\ state' = state
      /\ iflag /\ ~iflag' /\ stk[cur] \in Seq(Frame)
      /\ slice => Top.pc \notin Midway
  BY DEF TimerInterrupt, Without, TypeOK, Midway
<1>2. /\ slice => stk' = [stk EXCEPT ![cur] = <<Fr("schedule")>> \o <<Fr("irq_return")>> \o @]
      /\ ~slice => stk' = [stk EXCEPT ![cur] = <<>> \o <<Fr("irq_return")>> \o @]
  BY DEF TimerInterrupt
<1>3. \A t \in Thread : state'[t] = "RUNNING" => t = cur'
  BY <1>1 DEF SwitchInv, OneRunning
<1>4. \A t \in Thread \ {cur} : stk'[t] = stk[t] /\ stk'[t] \in Seq(Settled(t))
  BY <1>1, <1>2 DEF TypeOK, SwitchInv, OneRunning, GivesUp
<1>5. CASE stk[cur] \in Seq(Settled(cur))
  <2>1. Fr("schedule") \in Settled(cur) /\ Fr("irq_return") \in Settled(cur)
    BY DEF Fr, Settled, AnyFrame, Midway, Label
  <2>2. /\ <<Fr("schedule")>> \o <<Fr("irq_return")>> \o stk[cur] \in Seq(Settled(cur))
        /\ <<>> \o <<Fr("irq_return")>> \o stk[cur] \in Seq(Settled(cur))
    BY <1>5, <2>1
  <2>3. stk'[cur] \in Seq(Settled(cur))
    BY <1>1, <1>2, <2>2 DEF TypeOK
  <2> QED
    BY <1>1, <1>3, <1>4, <2>3 DEF OneRunning, Settled
<1>6. CASE GivesUp(cur)
  <2>1. /\ state[cur] # "RUNNING" /\ stk[cur] # <<>>
        /\ Head(stk[cur]).pc \in Midway /\ Tail(stk[cur]) \in Seq(Settled(cur))
    BY <1>1, <1>6 DEF GivesUp
  <2>2. ~slice
    BY <1>1, <2>1 DEF Top
  <2>3. stk'[cur] = <<>> \o <<Fr("irq_return")>> \o stk[cur]
    BY <1>1, <1>2, <2>2 DEF TypeOK
  <2>4. stk'[cur] # <<>> /\ Head(stk'[cur]) = Fr("irq_return") /\ Tail(stk'[cur]) = stk[cur]
    BY <1>1, <2>3
  <2>5. Head(stk'[cur]).pc = "irq_return"
    BY <2>4 DEF Fr
  <2>6. GivesUp(cur)'
    BY <1>1, <2>1, <2>4, <2>5 DEF GivesUp
  <2> QED
    BY <1>1, <1>3, <1>4, <2>6 DEF OneRunning, Settled
<1> QED
  BY <1>1, <1>5, <1>6 DEF SwitchInv, OneRunning

(* The end of an interrupt uncovers what was interrupted.                   *)
LEMMA IrqReturnSwitch == ASSUME TypeOK, SwitchInv, IrqReturn PROVE SwitchInv'
<1> SUFFICES ASSUME Without({"reentered"})' PROVE OneRunning'
  BY DEF SwitchInv
<1>1. /\ Without({"reentered"}) /\ cur \in Thread /\ cur' = cur /\ state' = state
      /\ stk[cur] \in Seq(Frame) /\ stk[cur] # <<>> /\ Head(stk[cur]).pc = "irq_return"
  BY TopType DEF IrqReturn, Without, TypeOK, used, Top
<1>2. stk'[cur] = Tail(stk[cur]) /\ \A t \in Thread \ {cur} : stk'[t] = stk[t]
  BY <1>1 DEF IrqReturn, Goto, TypeOK
<1>3. \A t \in Thread : state'[t] = "RUNNING" => t = cur'
  BY <1>1 DEF SwitchInv, OneRunning
<1>4. \A t \in Thread \ {cur} : stk'[t] \in Seq(Settled(t))
  BY <1>1, <1>2 DEF SwitchInv, OneRunning, GivesUp
<1>5. CASE stk[cur] \in Seq(Settled(cur))
  <2>1. stk'[cur] \in Seq(Settled(cur))
    BY <1>1, <1>2, <1>5
  <2> QED
    BY <1>3, <1>4, <2>1 DEF OneRunning, Settled
<1>6. CASE GivesUp(cur)
  <2>1. GivesUp(cur)'
    BY <1>1, <1>2, <1>6 DEF GivesUp, Midway, Settled
  <2> QED
    BY <1>1, <1>3, <1>4, <2>1 DEF OneRunning, Settled
<1> QED
  BY <1>1, <1>5, <1>6 DEF SwitchInv, OneRunning

(* Every step keeps the invariant.                                          *)
LEMMA NextSwitch == ASSUME TypeOK, SwitchInv, [Next]_vars PROVE SwitchInv'
<1>1. CASE Boot
  BY <1>1, BootPlain, PlainStep
<1>2. CASE Create
  BY <1>2, CreatePlain, PlainStep, PallocThreadSwitch
<1>3. CASE Sleep
  BY <1>3, SleepPlain, PlainStep
<1>4. CASE Die
  BY <1>4, DiePlain, PlainStep
<1>5. CASE Sched
  <2>1. CASE Schedule \/ NoSwitch \/ FinishSchedule \/ Sti \/ FirstEoi \/ ThreadExecute
    BY <2>1, SchedPlain, PlainStep
  <2> QED
    BY <1>5, <2>1, DemoteSwitch, EnqueueSwitch, SelfDyingSwitch, SwitchSwitch,
       IrqReturnSwitch DEF Sched
<1>6. CASE Run \/ ShellCommand
  BY <1>6, RunPlain, PlainStep
<1>7. CASE TimerInterrupt
  BY <1>7, TimerSwitch
<1>8. CASE UNCHANGED vars
  BY <1>8 DEF vars, tables, memory, cpu, used, SwitchInv, OneRunning, GivesUp, Settled, Without
<1> QED
  BY <1>1, <1>2, <1>3, <1>4, <1>5, <1>6, <1>7, <1>8 DEF Next, Code

(* Initially only the boot thread has a stack, outside schedule.            *)
LEMMA InitSwitch == Init => SwitchInv
<1> SUFFICES ASSUME Init PROVE OneRunning
  BY DEF SwitchInv
<1>1. \A pc \in {"init_threads", "idle_made", "link_init", "palloc", "palloc_proc",
                  "yield_loop"} : \A t \in Thread : Fr(pc) \in Settled(t)
  BY DEF Fr, Settled, AnyFrame, Midway, Label
<1>2. \A t \in Thread : stk[t] \in Seq(Settled(t))
  BY <1>1 DEF Init
<1> QED
  BY <1>2 DEF Init, OneRunning

(* schedule, finish_schedule: as long as the timer does not re-enter        *)
(* schedule, a thread other than the one on the CPU is never left in state  *)
(* RUNNING.                                                                 *)
THEOREM RunsAlone == Spec => []RunningIsCurrent
<1>1. Init => TypeOK /\ SwitchInv
  BY InitType, InitSwitch
<1>2. TypeOK /\ SwitchInv /\ [Next]_vars => (TypeOK /\ SwitchInv)'
  BY NextType, NextSwitch
<1>3. SwitchInv => RunningIsCurrent
  BY DEF SwitchInv, OneRunning, RunningIsCurrent
<1> QED
  BY <1>1, <1>2, <1>3, PTL DEF Spec

-----------------------------------------------------------------------------
(* The lists of the scheduler as an instance of the list of               *)
(* ListUseProofs.                                                         *)

(* The three lists of the scheduler, and the nodes they link.  The rest of  *)
(* the nodes belong to all_procs and to the lists of waiters.               *)
Queue == {"ready", "blocked", "dying"}
QueueNode == ({"head", "tail"} \X Queue) \cup ({"node"} \X Thread)

U == INSTANCE ListUseProofs WITH ListId <- Queue, Item <- {"node"} \X Thread, done <- 0

(* The nodes of the threads and the ends of the three lists meet the      *)
(* assumptions under which the list of list.c is proved correct in        *)
(* ListUseProofs.                                                         *)
LEMMA QueueNodes == U!NodeAssumption /\ U!NullAssumption
<1>1. IsFiniteSet(Node)
  <2>1. IsFiniteSet(Thread) /\ IsFiniteSet(Proc)
    <3>1. IsFiniteSet({ShellT}) /\ IsFiniteSet({ShellP})
      BY FS_Singleton
    <3>2. IsFiniteSet({ShellT} \cup {IdleT}) /\ IsFiniteSet({ShellP} \cup {InitP})
      BY <3>1, FS_AddElement
    <3>3. IsFiniteSet({ShellT} \cup {IdleT} \cup {BootT})
      BY <3>2, FS_AddElement
    <3>4. IsFiniteSet({ShellT} \cup {IdleT} \cup {BootT} \cup CmdThread)
          /\ IsFiniteSet({ShellP} \cup {InitP} \cup CmdProc)
      BY <3>2, <3>3, FS_Union, ConstantsAssumption
    <3>5. /\ Thread = {ShellT} \cup {IdleT} \cup {BootT} \cup CmdThread
          /\ Proc = {ShellP} \cup {InitP} \cup CmdProc
      BY DEF Thread, Proc
    <3> QED
      BY <3>4, <3>5
  <2>2. IsFiniteSet({"ready", "blocked", "dying", "all"}) /\ IsFiniteSet({"head", "tail"})
        /\ IsFiniteSet({"node"}) /\ IsFiniteSet({"wait"}) /\ IsFiniteSet({"proc"})
    <3>1. IsFiniteSet({"all"}) /\ IsFiniteSet({"tail"}) /\ IsFiniteSet({"node"})
          /\ IsFiniteSet({"wait"}) /\ IsFiniteSet({"proc"})
      BY FS_Singleton
    <3>2. IsFiniteSet({"all"} \cup {"dying"}) /\ IsFiniteSet({"tail"} \cup {"head"})
      BY <3>1, FS_AddElement
    <3>3. IsFiniteSet({"all"} \cup {"dying"} \cup {"blocked"})
      BY <3>2, FS_AddElement
    <3>4. IsFiniteSet({"all"} \cup {"dying"} \cup {"blocked"} \cup {"ready"})
      BY <3>3, FS_AddElement
    <3>5. /\ {"ready", "blocked", "dying", "all"} = {"all"} \cup {"dying"} \cup {"blocked"} \cup {"ready"}
          /\ {"head", "tail"} = {"tail"} \cup {"head"}
      OBVIOUS
    <3> QED
      BY <3>1, <3>2, <3>4, <3>5
  <2>3. IsFiniteSet(ListId)
    BY <2>1, <2>2, FS_Union DEF ListId
  <2>4. /\ IsFiniteSet({"head", "tail"} \X ListId) /\ IsFiniteSet({"node"} \X Thread)
        /\ IsFiniteSet({"wait"} \X Thread) /\ IsFiniteSet({"proc"} \X Proc)
    BY <2>1, <2>2, <2>3, FS_Product
  <2> QED
    BY <2>4, FS_Union DEF Node
<1>2. U!IsFiniteSet(Node)
  BY <1>1 DEF IsFiniteSet, U!IsFiniteSet
<1>3. U!AllNodes \subseteq Node /\ ({"node"} \X Thread) \cap U!Sentinel = {}
  BY DEF U!AllNodes, U!Sentinel, Node, ListId, Queue
<1> QED
  BY <1>2, <1>3, NodeAssumption DEF U!NodeAssumption, U!NullAssumption

(* The operators of List and of its use here are the same.                  *)
LEMMA SameHeap == L!Heap = U!Heap
BY DEF L!Heap, U!Heap

(* The model of list.c that the kernel uses and the one proved about in   *)
(* ListUseProofs are one: they differ only in the sets of nodes they are  *)
(* given.  First the ends of a list,                                      *)
LEMMA SameEnds == ASSUME NEW l PROVE L!HeadNode(l) = U!HeadNode(l) /\ L!TailNode(l) = U!TailNode(l)
BY DEF L!HeadNode, U!HeadNode, L!TailNode, U!TailNode

(* the writes of a next and of a prev pointer,                            *)
LEMMA SameLinks ==
    ASSUME NEW h, NEW a, NEW b
    PROVE  L!SetNext(h, a, b) = U!SetNext(h, a, b) /\ L!SetPrev(h, a, b) = U!SetPrev(h, a, b)
BY DEF L!SetNext, U!SetNext, L!SetPrev, U!SetPrev

(* the walk along the next pointers,                                      *)
LEMMA SameWalk == ASSUME NEW h, NEW l PROVE L!Walk(h, l) = U!Walk(h, l)
BY DEF L!Walk, U!Walk, L!HeadNode, U!HeadNode, L!Cardinality, U!Cardinality

(* what the walk visits and counts,                                       *)
LEMMA SameReaches ==
    ASSUME NEW h, NEW l
    PROVE  /\ L!Visited(h, l) = U!Visited(h, l)
           /\ \A n : L!Reaches(h, l, n) <=> U!Reaches(h, l, n)
           /\ L!Ends(h, l) <=> U!Ends(h, l)
           /\ L!list_size(h, l) = U!list_size(h, l)
<1>1. L!Walk(h, l) = U!Walk(h, l)
  BY SameWalk
<1> QED
  BY <1>1 DEF L!Visited, U!Visited, L!Reaches, U!Reaches, L!Ends, U!Ends, L!list_size, U!list_size

(* list_delete,                                                           *)
LEMMA SameDelete ==
    ASSUME NEW h, NEW l, NEW n
    PROVE  /\ L!Deleted(h, l, n) = U!Deleted(h, l, n)
           /\ L!list_delete(h, l, n) = U!list_delete(h, l, n)
<1>1. L!Deleted(h, l, n) = U!Deleted(h, l, n)
  <2>1. L!Reaches(h, l, n) <=> U!Reaches(h, l, n)
    BY SameReaches
  <2>2. L!HeadNode(l) = U!HeadNode(l) /\ L!TailNode(l) = U!TailNode(l)
    BY SameEnds
  <2> QED
    BY <2>1, <2>2 DEF L!Deleted, U!Deleted
<1> QED
  BY <1>1, SameLinks DEF L!list_delete, U!list_delete

(* list_pop,                                                              *)
LEMMA SamePop ==
    ASSUME NEW h, NEW l
    PROVE  /\ L!list_isEmpty(h, l) <=> U!list_isEmpty(h, l)
           /\ L!Popped(h, l) = U!Popped(h, l)
           /\ L!list_pop(h, l) = U!list_pop(h, l)
<1>1. L!list_isEmpty(h, l) <=> U!list_isEmpty(h, l)
  BY SameEnds DEF L!list_isEmpty, U!list_isEmpty
<1> QED
  BY <1>1, SameDelete, SameEnds DEF L!Popped, U!Popped, L!list_pop, U!list_pop

(* and list_insert and list_insert_end.                                   *)
LEMMA SameInsert ==
    ASSUME NEW h, NEW l, NEW n
    PROVE  /\ L!list_insert(h, l, n) = U!list_insert(h, l, n)
           /\ L!list_insert_end(h, L!TailNode(l), n) = U!list_insert_end(h, U!TailNode(l), n)
BY SameLinks, SameEnds DEF L!list_insert, U!list_insert, L!list_insert_front, U!list_insert_front,
   L!list_insert_end, U!list_insert_end

-----------------------------------------------------------------------------
(* The nodes of the other lists.                                            *)
Foreign == Node \ QueueNode

(* The links of the nodes of X stay among them.                             *)
Closed(h, X) ==
    \A a \in X : h.next[a] \in X \cup {NULL} /\ h.prev[a] \in X \cup {NULL}

(* g differs from h in links of X, which stay among the nodes of X.         *)
Within(h, g, X) ==
    /\ g \in L!Heap /\ Closed(g, X)
    /\ \A a \in Node \ X : g.next[a] = h.next[a] /\ g.prev[a] = h.prev[a]

(* The functions of list.c touch the nodes that they can reach only.  One *)
(* pointer write stays within X,                                          *)
LEMMA SetWithin ==
    ASSUME NEW X \in SUBSET Node, NEW h, NEW g, Within(h, g, X),
           NEW a \in X \cup {NULL}, NEW b \in X \cup {NULL}
    PROVE  Within(h, L!SetNext(g, a, b), X) /\ Within(h, L!SetPrev(g, a, b), X)
<1>1. L!SetNext(g, a, b) \in L!Heap /\ L!SetPrev(g, a, b) \in L!Heap
  BY SetType DEF Within
<1> QED
  BY <1>1, NodeAssumption DEF Within, Closed, L!Heap, L!SetNext, L!SetPrev

(* what a node of X points to is in X,                                    *)
LEMMA LinkWithin ==
    ASSUME NEW X \in SUBSET Node, NEW h, NEW g, Within(h, g, X), NEW a \in X
    PROVE  g.next[a] \in X \cup {NULL} /\ g.prev[a] \in X \cup {NULL}
BY DEF Within, Closed

(* and a heap whose X is closed is within X of itself.                    *)
LEMMA StartWithin ==
    ASSUME NEW X \in SUBSET Node, NEW h \in L!Heap, Closed(h, X)
    PROVE  Within(h, h, X)
BY DEF Within

(* An operation of list.c on nodes of X works within X.                     *)
LEMMA InsertWithin ==
    ASSUME NEW X \in SUBSET Node, NEW h \in L!Heap, Closed(h, X),
           NEW n \in X, NEW a \in X
    PROVE  Within(h, L!list_insert_front(h, a, n), X) /\ Within(h, L!list_insert_end(h, a, n), X)
<1>0. Within(h, h, X)
  BY StartWithin
<1>1. Within(h, L!list_insert_front(h, a, n), X)
  <2> DEFINE h1 == L!SetPrev(h, h.next[a], n)
             h2 == L!SetNext(h1, n, h1.next[a])
             h3 == L!SetNext(h2, a, n)
  <2>1. Within(h, h1, X)
    BY <1>0, LinkWithin, SetWithin
  <2> HIDE DEF h1
  <2>2. Within(h, h2, X)
    BY <2>1, LinkWithin, SetWithin
  <2> HIDE DEF h2
  <2>3. Within(h, h3, X)
    BY <2>2, SetWithin
  <2> HIDE DEF h3
  <2>4. Within(h, L!SetPrev(h3, n, a), X)
    BY <2>3, SetWithin
  <2> QED
    BY <2>4 DEF h1, h2, h3, L!list_insert_front
<1>2. Within(h, L!list_insert_end(h, a, n), X)
  <2> DEFINE h1 == L!SetNext(h, h.prev[a], n)
             h2 == L!SetPrev(h1, n, h1.prev[a])
             h3 == L!SetPrev(h2, a, n)
  <2>1. Within(h, h1, X)
    BY <1>0, LinkWithin, SetWithin
  <2> HIDE DEF h1
  <2>2. Within(h, h2, X)
    BY <2>1, LinkWithin, SetWithin
  <2> HIDE DEF h2
  <2>3. Within(h, h3, X)
    BY <2>2, SetWithin
  <2> HIDE DEF h3
  <2>4. Within(h, L!SetNext(h3, n, a), X)
    BY <2>3, SetWithin
  <2> QED
    BY <2>4 DEF h1, h2, h3, L!list_insert_end
<1> QED
  BY <1>1, <1>2

(* list_delete writes to the nodes around the deleted one only.           *)
LEMMA DeleteWithin ==
    ASSUME NEW X \in SUBSET Node, NEW h \in L!Heap, Closed(h, X),
           NEW l, NEW n \in X \cup {NULL}
    PROVE  Within(h, L!list_delete(h, l, n), X)
<1>0. Within(h, h, X)
  BY StartWithin
<1>1. CASE L!Deleted(h, l, n) = NULL
  BY <1>0, <1>1 DEF L!list_delete
<1>2. CASE L!Deleted(h, l, n) # NULL
  <2> DEFINE h1 == L!SetNext(h, h.prev[n], h.next[n])
             h2 == L!SetPrev(h1, h1.next[n], h1.prev[n])
             h3 == L!SetNext(h2, n, NULL)
  <2>0. n \in X
    BY <1>2 DEF L!Deleted
  <2>1. Within(h, h1, X)
    BY <1>0, <2>0, LinkWithin, SetWithin
  <2> HIDE DEF h1
  <2>2. Within(h, h2, X)
    BY <2>0, <2>1, LinkWithin, SetWithin
  <2> HIDE DEF h2
  <2>3. Within(h, h3, X)
    BY <2>0, <2>2, SetWithin
  <2> HIDE DEF h3
  <2>4. Within(h, L!SetPrev(h3, n, NULL), X)
    BY <2>0, <2>3, SetWithin
  <2> QED
    BY <1>2, <2>4 DEF h1, h2, h3, L!list_delete
<1> QED
  BY <1>1, <1>2

(* list_pop writes to the head and to the first two nodes only.           *)
LEMMA PopWithin ==
    ASSUME NEW X \in SUBSET Node, NEW h \in L!Heap, Closed(h, X),
           NEW l, L!HeadNode(l) \in X
    PROVE  Within(h, L!list_pop(h, l), X)
<1>1. Within(h, h, X) /\ h.next[L!HeadNode(l)] \in X \cup {NULL}
  BY StartWithin, LinkWithin
<1> QED
  BY <1>1, DeleteWithin DEF L!list_pop

(* list_init writes to the two ends of its list only.                     *)
LEMMA ListInitWithin ==
    ASSUME NEW X \in SUBSET Node, NEW h \in L!Heap, Closed(h, X),
           NEW l, L!HeadNode(l) \in X, L!TailNode(l) \in X
    PROVE  Within(h, L!list_init(h, l), X)
<1> DEFINE h1 == L!SetPrev(h, L!HeadNode(l), NULL)
           h2 == L!SetNext(h1, L!HeadNode(l), L!TailNode(l))
           h3 == L!SetPrev(h2, L!TailNode(l), L!HeadNode(l))
<1>1. Within(h, h1, X)
  BY StartWithin, SetWithin
<1> HIDE DEF h1
<1>2. Within(h, h2, X)
  BY <1>1, SetWithin
<1> HIDE DEF h2
<1>3. Within(h, h3, X)
  BY <1>2, SetWithin
<1> HIDE DEF h3
<1>4. Within(h, L!SetNext(h3, L!TailNode(l), NULL), X)
  BY <1>3, SetWithin
<1> QED
  BY <1>4 DEF h1, h2, h3, L!list_init
(* The same when X has been worked on before.                               *)
LEMMA ListInitStays ==
    ASSUME NEW X \in SUBSET Node, NEW h, NEW g, Within(h, g, X),
           NEW l, L!HeadNode(l) \in X, L!TailNode(l) \in X
    PROVE  Within(h, L!list_init(g, l), X)
<1>1. g \in L!Heap /\ Closed(g, X)
  BY DEF Within
<1>2. PICK q : q = L!list_init(g, l)
  OBVIOUS
<1>3. Within(g, q, X)
  BY <1>1, <1>2, ListInitWithin
<1>4. Within(h, q, X)
  BY <1>3 DEF Within
<1> QED
  BY <1>2, <1>4

(* The three lists are linked properly, and linked to nothing else.         *)
Linked(h) ==
    /\ \E S : U!Shape(h, S)
    /\ Closed(h, QueueNode) /\ Closed(h, Foreign)

(* Which nodes the scheduler links and which belong to the lists of       *)
(* waiters and of processes.                                              *)
LEMMA Places ==
    /\ QueueNode \subseteq Node /\ Foreign \subseteq Node
    /\ \A l \in Queue : L!HeadNode(l) \in QueueNode /\ L!TailNode(l) \in QueueNode
    /\ \A t \in Thread : TNode(t) \in QueueNode /\ TNode(t) \in {"node"} \X Thread
    /\ \A t, u \in Thread : TNode(t) = TNode(u) => t = u
    /\ \A l \in ListId \ Queue : L!HeadNode(l) \in Foreign /\ L!TailNode(l) \in Foreign
    /\ \A t \in Thread : WNode(t) \in Foreign
    /\ \A p \in Proc : PNode(p) \in Foreign
BY DEF QueueNode, Foreign, Queue, Node, ListId, L!HeadNode, L!TailNode, TNode, WNode, PNode

(* A heap with linked lists is a heap.                                    *)
LEMMA LinkedHeap == ASSUME NEW h, Linked(h) PROVE h \in L!Heap
BY SameHeap DEF Linked, U!Shape

(* What the sequences of the shape say of the threads held.                 *)
LEMMA HeldIs ==
    ASSUME NEW h, NEW S, U!Shape(h, S), NEW l \in Queue
    PROVE  /\ S[l] \in Seq({"node"} \X Thread)
           /\ \A t \in Thread : t \in Held(h, l) <=> \E i \in 1..Len(S[l]) : S[l][i] = TNode(t)
           /\ \A i \in 1..Len(S[l]) : \E t \in Thread : S[l][i] = TNode(t)
<1>1. S[l] \in Seq({"node"} \X Thread)
  BY DEF U!Shape
<1>2. \A n \in {"node"} \X Thread : U!Reaches(h, l, n) <=> \E i \in 1..Len(S[l]) : S[l][i] = n
  BY QueueNodes, U!ShapeMembers
<1>3. \A n : L!Reaches(h, l, n) <=> U!Reaches(h, l, n)
  BY SameReaches
<1>4. \A t \in Thread : t \in Held(h, l) <=> L!Reaches(h, l, TNode(t))
  BY DEF Held, L!Members, L!Reaches, L!HeadNode, L!TailNode, TNode
<1>5. \A i \in 1..Len(S[l]) : S[l][i] \in {"node"} \X Thread
  BY <1>1, ElementOfSeq
<1>6. \A t \in Thread : t \in Held(h, l) <=> \E i \in 1..Len(S[l]) : S[l][i] = TNode(t)
  BY <1>2, <1>3, <1>4, Places
<1>7. \A n \in {"node"} \X Thread : \E t \in Thread : n = TNode(t)
  BY DEF TNode
<1> QED
  BY <1>1, <1>5, <1>6, <1>7

(* A thread is somewhere in the lists if one of the lists holds it.       *)
LEMMA InIs ==
    ASSUME NEW h, NEW S, U!Shape(h, S), NEW t \in Thread
    PROVE  U!In(S, TNode(t)) <=> \E l \in Queue : t \in Held(h, l)
BY HeldIs DEF U!In

(* No thread is on two lists.                                               *)
LEMMA HeldOnce ==
    ASSUME NEW h, Linked(h), NEW l \in Queue, NEW k \in Queue, NEW t \in Thread,
           t \in Held(h, l), t \in Held(h, k)
    PROVE  l = k
<1>1. PICK S : U!Shape(h, S)
  BY DEF Linked
<1>2. PICK i \in 1..Len(S[l]), j \in 1..Len(S[k]) : S[l][i] = TNode(t) /\ S[k][j] = TNode(t)
  BY <1>1, HeldIs
<1> QED
  BY <1>1, <1>2 DEF U!Shape, U!Once

(* A linked list is intact: it can be walked both ways, from end to end.  *)
LEMMA LinkedIntact == ASSUME NEW h, Linked(h), NEW l \in Queue PROVE L!Intact(h, l)
<1>1. PICK S : U!Shape(h, S)
  BY DEF Linked
<1> DEFINE n == Len(S[l])
<1>2. S \in [Queue -> Seq({"node"} \X Thread)] /\ n \in Nat
  BY <1>1, HeldIs DEF U!Shape
<1>3. L!Walk(h, l) = U!Full(S, l)
  BY <1>1, QueueNodes, U!ShapeWalk, SameWalk
<1>4. /\ Len(U!Full(S, l)) = n + 3
      /\ U!Full(S, l)[n + 3] = NULL
      /\ \A i \in 1..(n + 2) : U!Full(S, l)[i] = U!Nd(S, l, i - 1)
  BY <1>2 DEF U!Full
<1>5. U!Nd(S, l, n + 1) = L!TailNode(l) /\ U!Nd(S, l, 0) = L!HeadNode(l)
  BY <1>2, SameEnds DEF U!Nd
<1>6. h.prev[L!HeadNode(l)] = NULL /\ \A i \in 0..n : h.prev[U!Nd(S, l, i + 1)] = U!Nd(S, l, i)
  BY <1>1, SameEnds DEF U!Shape, U!Ended, U!Joined
<1>7. ASSUME NEW i \in 1..(n + 1) PROVE h.prev[U!Full(S, l)[i + 1]] = U!Full(S, l)[i]
  <2>1. i - 1 \in 0..n /\ i \in 1..(n + 2) /\ i + 1 \in 1..(n + 2) /\ (i - 1) + 1 = i /\ (i + 1) - 1 = i
    BY <1>2
  <2>2. U!Full(S, l)[i] = U!Nd(S, l, i - 1) /\ U!Full(S, l)[i + 1] = U!Nd(S, l, i)
    BY <1>4, <2>1
  <2> QED
    BY <1>6, <2>1, <2>2
<1>8. U!Full(S, l)[n + 2] = L!TailNode(l)
  <2>1. n + 2 \in 1..(n + 2) /\ (n + 2) - 1 = n + 1
    BY <1>2
  <2> QED
    BY <1>4, <1>5, <2>1
<1> HIDE DEF n
<1>9. /\ n + 3 > 2 /\ (n + 3) - 1 = n + 2 /\ (n + 3) - 2 = n + 1
  BY <1>2 DEF n
<1> QED
  BY <1>3, <1>4, <1>6, <1>7, <1>8, <1>9 DEF L!Intact

(* Steps within the nodes of the queues leave the others alone.             *)
LEMMA QueueStep ==
    ASSUME NEW h, Linked(h), NEW g, Within(h, g, QueueNode), NEW S, U!Shape(g, S)
    PROVE  Linked(g)
BY DEF Linked, Within, Closed, Foreign

(* ... and steps within the others leave the queues alone.                  *)
LEMMA ForeignStep ==
    ASSUME NEW h, Linked(h), NEW g, Within(h, g, Foreign)
    PROVE  Linked(g) /\ \A l \in Queue : Held(g, l) = Held(h, l)
<1>1. PICK S : U!Shape(h, S)
  BY DEF Linked
<1>2. \A a \in QueueNode : g.next[a] = h.next[a] /\ g.prev[a] = h.prev[a]
  BY Places DEF Within, Foreign
<1>3. U!Shape(g, S)
  <2>1. S \in [Queue -> Seq({"node"} \X Thread)] /\ g \in U!Heap
    BY <1>1, SameHeap DEF U!Shape, Within
  <2>2. \A l \in Queue : \A i \in 0..(Len(S[l]) + 1) : U!Nd(S, l, i) \in QueueNode
    <3> TAKE l \in Queue
    <3>0. Len(S[l]) \in Nat /\ \A i \in 1..Len(S[l]) : S[l][i] \in {"node"} \X Thread
      BY <2>1, ElementOfSeq
    <3> TAKE i \in 0..(Len(S[l]) + 1)
    <3>1. U!Nd(S, l, i) \in {L!HeadNode(l), L!TailNode(l)} \cup ({"node"} \X Thread)
      BY <3>0, SameEnds DEF U!Nd
    <3> QED
      BY <3>1, Places DEF QueueNode
  <2>3. U!Joined(g, S)
    <3> SUFFICES ASSUME NEW l \in Queue, NEW i \in 0..Len(S[l])
                 PROVE  g.next[U!Nd(S, l, i)] = U!Nd(S, l, i + 1)
                        /\ g.prev[U!Nd(S, l, i + 1)] = U!Nd(S, l, i)
      BY DEF U!Joined
    <3>1. i \in 0..(Len(S[l]) + 1) /\ i + 1 \in 0..(Len(S[l]) + 1)
      BY <2>1
    <3> QED
      BY <1>1, <1>2, <2>2, <3>1 DEF U!Shape, U!Joined
  <2>4. U!Ended(g)
    BY <1>1, <1>2, Places, SameEnds DEF U!Shape, U!Ended
  <2>5. U!Apart(g, S)
    BY <1>1, <1>2 DEF U!Shape, U!Apart, QueueNode
  <2> QED
    BY <1>1, <2>1, <2>3, <2>4, <2>5 DEF U!Shape
<1>4. \A l \in Queue : Held(g, l) = Held(h, l)
  <2> TAKE l \in Queue
  <2>1. \A t \in Thread : t \in Held(g, l) <=> t \in Held(h, l)
    BY <1>1, <1>3, HeldIs
  <2> QED
    BY <2>1 DEF Held
<1>5. Closed(g, QueueNode) /\ Closed(g, Foreign)
  BY <1>2 DEF Linked, Within, Closed
<1> QED
  BY <1>3, <1>4, <1>5 DEF Linked

(* list_insert and list_insert_end of a thread that is on no list.          *)
LEMMA InsertHeld ==
    ASSUME NEW h, Linked(h), NEW l \in Queue, NEW t \in Thread,
           \A k \in Queue : t \notin Held(h, k),
           NEW g \in {L!list_insert(h, l, TNode(t)),
                      L!list_insert_end(h, L!TailNode(l), TNode(t))}
    PROVE  /\ Linked(g)
           /\ Held(g, l) = Held(h, l) \cup {t}
           /\ \A k \in Queue \ {l} : Held(g, k) = Held(h, k)
<1>1. PICK S : U!Shape(h, S)
  BY DEF Linked
<1>2. ~U!In(S, TNode(t)) /\ TNode(t) \in {"node"} \X Thread
  BY <1>1, InIs, Places
<1>3. S \in [Queue -> Seq({"node"} \X Thread)] /\ S[l] \in Seq({"node"} \X Thread)
  BY <1>1 DEF U!Shape
<1>4. Within(h, g, QueueNode)
  <2>1. h \in L!Heap /\ Closed(h, QueueNode) /\ TNode(t) \in QueueNode
        /\ L!HeadNode(l) \in QueueNode /\ L!TailNode(l) \in QueueNode /\ QueueNode \in SUBSET Node
    BY LinkedHeap, Places DEF Linked
  <2> QED
    BY <2>1, InsertWithin DEF L!list_insert
<1>5. PICK s \in {<<TNode(t)>> \o S[l], Append(S[l], TNode(t))} : U!Shape(g, [S EXCEPT ![l] = s])
  <2>1. U!Shape(U!list_insert(h, l, TNode(t)), [S EXCEPT ![l] = <<TNode(t)>> \o S[l]])
    BY <1>1, <1>2, QueueNodes, U!InsertShape
  <2>2. U!Shape(U!list_insert_end(h, U!TailNode(l), TNode(t)),
                [S EXCEPT ![l] = Append(S[l], TNode(t))])
    BY <1>1, <1>2, QueueNodes, U!InsertEndShape
  <2> QED
    BY <2>1, <2>2, SameInsert
<1>6. Linked(g)
  BY <1>4, <1>5, QueueStep
<1>7. \A n : (\E i \in 1..Len(s) : s[i] = n) <=> n = TNode(t) \/ \E i \in 1..Len(S[l]) : S[l][i] = n
  <2>1. Len(S[l]) \in Nat
    BY <1>3
  <2>2. CASE s = <<TNode(t)>> \o S[l]
    <3>1. Len(s) = Len(S[l]) + 1 /\ s[1] = TNode(t) /\ 1 \in 1..Len(s)
          /\ \A i \in 1..Len(S[l]) : i + 1 \in 1..Len(s) /\ s[i + 1] = S[l][i]
      BY <1>3, <2>1, <2>2
    <3>2. \A i \in 1..Len(s) : i = 1 \/ (i - 1 \in 1..Len(S[l]) /\ s[i] = S[l][i - 1])
      BY <1>3, <2>1, <2>2, <3>1
    <3>3. ASSUME NEW i \in 1..Len(s)
          PROVE  s[i] = TNode(t) \/ \E j \in 1..Len(S[l]) : S[l][j] = s[i]
      BY ONLY <3>1, <3>2
    <3>4. \A i \in 1..Len(S[l]) : \E j \in 1..Len(s) : s[j] = S[l][i]
      BY ONLY <3>1
    <3>5. ASSUME NEW n, NEW i \in 1..Len(s), s[i] = n
          PROVE  n = TNode(t) \/ \E j \in 1..Len(S[l]) : S[l][j] = n
      BY ONLY <3>3, <3>5
    <3>6. ASSUME NEW n, n = TNode(t) \/ \E j \in 1..Len(S[l]) : S[l][j] = n
          PROVE  \E i \in 1..Len(s) : s[i] = n
      BY ONLY <3>1, <3>4, <3>6
    <3> QED
      BY <3>5, <3>6
  <2>3. CASE s = Append(S[l], TNode(t))
    <3>1. Len(s) = Len(S[l]) + 1 /\ s[Len(S[l]) + 1] = TNode(t)
          /\ \A i \in 1..Len(S[l]) : i \in 1..Len(s) /\ s[i] = S[l][i]
      BY <1>3, <2>1, <2>3
    <3>2. \A i \in 1..Len(s) : i = Len(S[l]) + 1 \/ (i \in 1..Len(S[l]) /\ s[i] = S[l][i])
      BY <1>3, <2>1, <2>3, <3>1
    <3>3. Len(S[l]) + 1 \in 1..Len(s)
      BY <2>1, <3>1
    <3> QED
      BY <3>1, <3>2, <3>3
  <2> QED
    BY <1>5, <2>2, <2>3
<1>8. PICK T : T = [S EXCEPT ![l] = s]
  OBVIOUS
<1>a. U!Shape(g, T) /\ T[l] = s /\ \A k \in Queue \ {l} : T[k] = S[k]
  BY <1>3, <1>5, <1>8
<1>9. \A u \in Thread : u \in Held(g, l) <=> u \in Held(h, l) \cup {t}
  <2> TAKE u \in Thread
  <2>1. u \in Held(g, l) <=> \E i \in 1..Len(s) : s[i] = TNode(u)
    BY <1>a, HeldIs
  <2>2. u \in Held(h, l) <=> \E i \in 1..Len(S[l]) : S[l][i] = TNode(u)
    BY <1>1, HeldIs
  <2> QED
    BY <1>7, <2>1, <2>2, Places
<1>10. \A k \in Queue \ {l} : \A u \in Thread : u \in Held(g, k) <=> u \in Held(h, k)
  <2> TAKE k \in Queue \ {l}
  <2> TAKE u \in Thread
  <2>1. u \in Held(g, k) <=> \E i \in 1..Len(T[k]) : T[k][i] = TNode(u)
    BY <1>a, HeldIs
  <2>2. u \in Held(h, k) <=> \E i \in 1..Len(S[k]) : S[k][i] = TNode(u)
    BY <1>1, HeldIs
  <2> QED
    BY <1>a, <2>1, <2>2
<1> QED
  BY <1>6, <1>9, <1>10 DEF Held

(* list_delete of a thread, on the list or not.                             *)
LEMMA CutHeld ==
    ASSUME NEW h, NEW S, U!Shape(h, S), Linked(h), NEW l \in Queue, NEW t \in Thread,
           NEW j \in 1..Len(S[l]), S[l][j] = TNode(t),
           NEW s, U!CutSeq(S, l, j, s),
           NEW g, Within(h, g, QueueNode), U!Shape(g, [S EXCEPT ![l] = s])
    PROVE  /\ Linked(g)
           /\ Held(g, l) = Held(h, l) \ {t}
           /\ \A k \in Queue \ {l} : Held(g, k) = Held(h, k)
<1>1. S \in [Queue -> Seq({"node"} \X Thread)] /\ S[l] \in Seq({"node"} \X Thread) /\ U!Once(S)
  BY DEF U!Shape
<1>2. Len(S[l]) \in Nat /\ Len(s) = Len(S[l]) - 1
      /\ \A i \in 1..Len(s) : s[i] = IF i < j THEN S[l][i] ELSE S[l][i + 1]
  BY <1>1 DEF U!CutSeq
<1>3. \A i, k \in 1..Len(S[l]) : S[l][i] = S[l][k] => i = k
  BY DEF U!Shape, U!Once
<1>4. ASSUME NEW n PROVE (\E i \in 1..Len(s) : s[i] = n)
                         <=> n # TNode(t) /\ \E i \in 1..Len(S[l]) : S[l][i] = n
  <2>1. ASSUME NEW i \in 1..Len(s), s[i] = n
        PROVE  n # TNode(t) /\ \E k \in 1..Len(S[l]) : S[l][k] = n
    <3>1. CASE i < j
      <4>1. i \in 1..Len(S[l]) /\ i # j /\ S[l][i] = n
        BY <1>2, <2>1, <3>1
      <4> QED
        BY <1>3, <4>1
    <3>2. CASE ~(i < j)
      <4>1. i + 1 \in 1..Len(S[l]) /\ i + 1 # j /\ S[l][i + 1] = n
        BY <1>2, <2>1, <3>2
      <4> QED
        BY <1>3, <4>1
    <3> QED
      BY <3>1, <3>2
  <2>2. ASSUME n # TNode(t), NEW k \in 1..Len(S[l]), S[l][k] = n
        PROVE  \E i \in 1..Len(s) : s[i] = n
    <3>0. k # j
      BY <2>2
    <3>1. CASE k < j
      <4>1. k \in 1..Len(s) /\ s[k] = n
        BY <1>2, <2>2, <3>1
      <4> QED
        BY <4>1
    <3>2. CASE k > j
      <4>1. k - 1 \in 1..Len(s) /\ s[k - 1] = S[l][(k - 1) + 1] /\ (k - 1) + 1 = k
        BY <1>2, <2>2, <3>2
      <4> QED
        BY <2>2, <4>1
    <3> QED
      BY <1>2, <3>0, <3>1, <3>2
  <2> QED
    BY <2>1, <2>2
<1>5. PICK T : T = [S EXCEPT ![l] = s]
  OBVIOUS
<1>a. U!Shape(g, T) /\ T[l] = s /\ \A k \in Queue \ {l} : T[k] = S[k]
  BY <1>1, <1>5
<1>6. \A u \in Thread : u \in Held(g, l) <=> u \in Held(h, l) \ {t}
  <2> TAKE u \in Thread
  <2>1. u \in Held(g, l) <=> \E i \in 1..Len(s) : s[i] = TNode(u)
    BY <1>a, HeldIs
  <2>2. u \in Held(h, l) <=> \E i \in 1..Len(S[l]) : S[l][i] = TNode(u)
    BY HeldIs
  <2> QED
    BY <1>4, <2>1, <2>2, Places
<1>7. \A k \in Queue \ {l} : \A u \in Thread : u \in Held(g, k) <=> u \in Held(h, k)
  <2> TAKE k \in Queue \ {l}
  <2> TAKE u \in Thread
  <2>1. u \in Held(g, k) <=> \E i \in 1..Len(T[k]) : T[k][i] = TNode(u)
    BY <1>a, HeldIs
  <2>2. u \in Held(h, k) <=> \E i \in 1..Len(S[k]) : S[k][i] = TNode(u)
    BY HeldIs
  <2> QED
    BY <1>a, <2>1, <2>2
<1>8. Linked(g)
  BY QueueStep
<1> QED
  BY <1>6, <1>7, <1>8 DEF Held

(* list_delete takes the thread off the list it names, if it is there,    *)
(* and leaves the other two lists alone.                                  *)
LEMMA DeleteHeld ==
    ASSUME NEW h, Linked(h), NEW l \in Queue, NEW t \in Thread
    PROVE  LET g == L!list_delete(h, l, TNode(t)) IN
           /\ L!Deleted(h, l, TNode(t)) = IF t \in Held(h, l) THEN TNode(t) ELSE NULL
           /\ Linked(g)
           /\ Held(g, l) = Held(h, l) \ {t}
           /\ \A k \in Queue \ {l} : Held(g, k) = Held(h, k)
<1> DEFINE g == L!list_delete(h, l, TNode(t))
<1>1. PICK S : U!Shape(h, S)
  BY DEF Linked
<1>2. t \in Held(h, l) <=> \E i \in 1..Len(S[l]) : S[l][i] = TNode(t)
  BY <1>1, HeldIs
<1>3. TNode(t) \in Node /\ TNode(t) \in QueueNode /\ NULL \notin Node
  BY Places, NodeAssumption
<1>4. L!Deleted(h, l, TNode(t)) = IF t \in Held(h, l) THEN TNode(t) ELSE NULL
  <2>1. U!Deleted(h, l, TNode(t)) = IF \E i \in 1..Len(S[l]) : S[l][i] = TNode(t)
                                    THEN TNode(t) ELSE NULL
    BY <1>1, <1>3, QueueNodes, U!ShapeMembers
  <2> QED
    BY <1>2, <2>1, SameDelete
<1>5. CASE t \notin Held(h, l)
  BY <1>4, <1>5 DEF L!list_delete
<1>6. CASE t \in Held(h, l)
  <2>1. PICK j \in 1..Len(S[l]) : S[l][j] = TNode(t)
    BY <1>2, <1>6
  <2>2. Within(h, g, QueueNode)
    BY <1>3, DeleteWithin, LinkedHeap, Places DEF Linked
  <2>3. S \in [Queue -> Seq({"node"} \X Thread)]
    BY <1>1 DEF U!Shape
  <2> DEFINE s == SubSeq(S[l], 1, j - 1) \o SubSeq(S[l], j + 1, Len(S[l]))
  <2>4. U!CutSeq(S, l, j, s)
    BY <2>3, QueueNodes, U!CutAnywhere
  <2> HIDE DEF s
  <2>5. U!Shape(U!list_delete(h, l, S[l][j]), [S EXCEPT ![l] = s])
    BY <1>1, <2>4, QueueNodes, U!CutShape
  <2>6. U!Shape(g, [S EXCEPT ![l] = s])
    BY <2>1, <2>5, SameDelete
  <2> HIDE DEF g
  <2>7. /\ Linked(g)
        /\ Held(g, l) = Held(h, l) \ {t}
        /\ \A k \in Queue \ {l} : Held(g, k) = Held(h, k)
    BY <1>1, <2>1, <2>2, <2>4, <2>6, CutHeld
  <2> QED
    BY <1>4, <2>7 DEF g
<1> QED
  BY <1>5, <1>6

(* list_isEmpty and list_pop.                                               *)
LEMMA PopHeld ==
    ASSUME NEW h, Linked(h), NEW l \in Queue
    PROVE  LET g == L!list_pop(h, l) IN
           /\ L!list_isEmpty(h, l) <=> Held(h, l) = {}
           /\ Held(h, l) = {} => g = h /\ L!Popped(h, l) = NULL
           /\ Held(h, l) # {} => \E t \in Held(h, l) :
                 /\ L!Popped(h, l) = TNode(t)
                 /\ Linked(g)
                 /\ Held(g, l) = Held(h, l) \ {t}
                 /\ \A k \in Queue \ {l} : Held(g, k) = Held(h, k)
<1> DEFINE g == L!list_pop(h, l)
<1>1. PICK S : U!Shape(h, S)
  BY DEF Linked
<1>2. S[l] \in Seq({"node"} \X Thread) /\ S \in [Queue -> Seq({"node"} \X Thread)]
  BY <1>1 DEF U!Shape
<1>3. Held(h, l) = {} <=> S[l] = <<>>
  <2>1. S[l] = <<>> <=> Len(S[l]) = 0
    BY <1>2
  <2>2. Len(S[l]) \in Nat
    BY <1>2
  <2>3. S[l] = <<>> => \A t \in Thread : t \notin Held(h, l)
    BY <1>1, <2>1, HeldIs
  <2>4. S[l] # <<>> => \E t \in Thread : t \in Held(h, l)
    <3>1. S[l] # <<>> => 1 \in 1..Len(S[l])
      BY <2>1, <2>2
    <3> QED
      BY <1>1, <3>1, HeldIs
  <2> QED
    BY <2>3, <2>4 DEF Held
<1>4. /\ S[l] = <<>> => g = h /\ L!Popped(h, l) = NULL
      /\ S[l] # <<>> => U!Shape(g, [S EXCEPT ![l] = Tail(S[l])]) /\ L!Popped(h, l) = Head(S[l])
  <2>1. /\ S[l] = <<>> => U!list_pop(h, l) = h /\ U!Popped(h, l) = NULL
        /\ S[l] # <<>> => /\ U!Shape(U!list_pop(h, l), [S EXCEPT ![l] = Tail(S[l])])
                          /\ U!Popped(h, l) = Head(S[l])
    BY <1>1, QueueNodes, U!PopShape
  <2>2. g = U!list_pop(h, l) /\ L!Popped(h, l) = U!Popped(h, l)
    BY SamePop
  <2> QED
    BY <2>1, <2>2
<1>5. ASSUME S[l] # <<>>
      PROVE  \E t \in Held(h, l) :
                 /\ L!Popped(h, l) = TNode(t)
                 /\ Linked(g)
                 /\ Held(g, l) = Held(h, l) \ {t}
                 /\ \A k \in Queue \ {l} : Held(g, k) = Held(h, k)
  <2>1. 1 \in 1..Len(S[l]) /\ Head(S[l]) = S[l][1]
    BY <1>2, <1>5
  <2>2. PICK t \in Thread : S[l][1] = TNode(t)
    BY <1>1, <2>1, HeldIs
  <2>3. t \in Held(h, l)
    BY <1>1, <2>1, <2>2, HeldIs
  <2>4. U!CutSeq(S, l, 1, Tail(S[l]))
    BY <1>2, <2>1, QueueNodes, U!CutAnywhere
  <2>5. Within(h, g, QueueNode)
    BY PopWithin, LinkedHeap, Places DEF Linked
  <2>6. U!Shape(g, [S EXCEPT ![l] = Tail(S[l])]) /\ L!Popped(h, l) = TNode(t)
    BY <1>4, <1>5, <2>1, <2>2
  <2>7. PICK G : G = g
    OBVIOUS
  <2>8. /\ Linked(G)
        /\ Held(G, l) = Held(h, l) \ {t}
        /\ \A k \in Queue \ {l} : Held(G, k) = Held(h, k)
    <3>1. Within(h, G, QueueNode) /\ U!Shape(G, [S EXCEPT ![l] = Tail(S[l])])
      BY <2>5, <2>6, <2>7
    <3>2. PICK s : s = Tail(S[l])
      OBVIOUS
    <3>3. U!CutSeq(S, l, 1, s) /\ U!Shape(G, [S EXCEPT ![l] = s])
      BY <2>4, <3>1, <3>2
    <3> HIDE DEF g
    <3> QED
      BY <1>1, <2>1, <2>2, <3>1, <3>3, CutHeld
  <2> QED
    BY <2>3, <2>6, <2>7, <2>8
<1>6. L!list_isEmpty(h, l) <=> S[l] = <<>>
  <2>1. /\ S[l] # <<>> => Head(S[l]) \in {"node"} \X Thread
        /\ \A n \in {"node"} \X Thread : n \in Node
    BY <1>2, Places DEF QueueNode
  <2>2. S[l] # <<>> => L!Popped(h, l) # NULL
    BY <1>4, <2>1, NodeAssumption
  <2>3. S[l] # <<>> => ~L!list_isEmpty(h, l)
    BY <2>2 DEF L!Popped
  <2>4. S[l] = <<>> => L!list_isEmpty(h, l)
    <3>0. S[l] = <<>> => Len(S[l]) = 0
      BY <1>2
    <3>1. U!Nd(S, l, 0) = L!HeadNode(l) /\ (Len(S[l]) = 0 => U!Nd(S, l, 0 + 1) = L!TailNode(l))
      BY SameEnds DEF U!Nd
    <3>2. S[l] = <<>> => h.next[U!Nd(S, l, 0)] = U!Nd(S, l, 0 + 1)
      BY <1>1, <3>0 DEF U!Shape, U!Joined
    <3> QED
      BY <3>0, <3>1, <3>2 DEF L!list_isEmpty
  <2> QED
    BY <2>3, <2>4
<1> QED
  BY <1>3, <1>4, <1>5, <1>6

(* What schedule reads of the ready list.                                   *)
LEMMA SizeHeld ==
    ASSUME NEW h, Linked(h), NEW l \in Queue, L!list_size(h, l) = 1
    PROVE  \E t \in Held(h, l) : h.next[L!HeadNode(l)] = TNode(t) /\ Held(h, l) = {t}
<1>1. PICK S : U!Shape(h, S)
  BY DEF Linked
<1>2. U!list_size(h, l) = Len(S[l])
  BY <1>1, QueueNodes, U!ShapeElements
<1>3. Len(S[l]) = 1
  BY <1>2, SameReaches
<1>4. h.next[L!HeadNode(l)] = S[l][1]
  <2>1. U!Nd(S, l, 0) = L!HeadNode(l) /\ U!Nd(S, l, 0 + 1) = S[l][1]
    BY <1>3, SameEnds DEF U!Nd
  <2>2. h.next[U!Nd(S, l, 0)] = U!Nd(S, l, 0 + 1)
    BY <1>1, <1>3 DEF U!Shape, U!Joined
  <2> QED
    BY <2>1, <2>2
<1>5. PICK t \in Thread : S[l][1] = TNode(t)
  BY <1>1, <1>3, HeldIs
<1>6. \A u \in Thread : u \in Held(h, l) <=> u = t
  <2> TAKE u \in Thread
  <2>1. u \in Held(h, l) <=> \E i \in 1..Len(S[l]) : S[l][i] = TNode(u)
    BY <1>1, HeldIs
  <2>2. \A i \in 1..Len(S[l]) : i = 1
    BY <1>3
  <2> QED
    BY <1>3, <1>5, <2>1, <2>2, Places
<1> QED
  BY <1>4, <1>5, <1>6 DEF Held

(* The threads of a list are those that a walk from its head reaches.     *)
LEMMA HeldReaches ==
    ASSUME NEW h, NEW l \in Queue, NEW t \in Thread
    PROVE  t \in Held(h, l) <=> L!Reaches(h, l, TNode(t))
BY DEF Held, L!Members, L!Reaches, L!HeadNode, L!TailNode, TNode

(* init_threads.                                                            *)
LEMMA DyingUp == ASSUME NEW h, Linked(h) PROVE h.next[L!HeadNode("dying")] # NULL
<1>1. PICK S : U!Shape(h, S)
  BY DEF Linked
<1>2. S["dying"] \in Seq({"node"} \X Thread) /\ Len(S["dying"]) \in Nat
  BY <1>1 DEF U!Shape, Queue
<1>3. h.next[U!Nd(S, "dying", 0)] = U!Nd(S, "dying", 0 + 1) /\ U!Nd(S, "dying", 0) = L!HeadNode("dying")
  BY <1>1, <1>2, SameEnds DEF U!Shape, U!Joined, Queue, U!Nd
<1>4. U!Nd(S, "dying", 0 + 1) \in QueueNode
  <2>1. /\ \A i \in 1..Len(S["dying"]) : S["dying"][i] \in {"node"} \X Thread
        /\ "dying" \in Queue
    BY <1>2 DEF Queue
  <2>2. U!Nd(S, "dying", 0 + 1) = IF Len(S["dying"]) = 0 THEN L!TailNode("dying") ELSE S["dying"][1]
    BY <1>2, SameEnds DEF U!Nd
  <2> QED
    BY <1>2, <2>1, <2>2, Places DEF QueueNode
<1> QED
  BY <1>3, <1>4, Places, NodeAssumption

(* What an assignment changes.                                              *)
LEMMA SetIs ==
    ASSUME NEW h \in L!Heap, NEW a \in Node, NEW b \in Node \cup {NULL}
    PROVE  /\ L!SetNext(h, a, b) \in L!Heap /\ L!SetPrev(h, a, b) \in L!Heap
           /\ \A x \in Node : /\ L!SetNext(h, a, b).next[x] = IF x = a THEN b ELSE h.next[x]
                              /\ L!SetNext(h, a, b).prev[x] = h.prev[x]
                              /\ L!SetPrev(h, a, b).prev[x] = IF x = a THEN b ELSE h.prev[x]
                              /\ L!SetPrev(h, a, b).next[x] = h.next[x]
<1>1. a # NULL
  BY NodeAssumption
<1>2. L!SetNext(h, a, b) \in L!Heap /\ L!SetPrev(h, a, b) \in L!Heap
  BY SetType
<1>3. ASSUME NEW x \in Node
      PROVE  /\ L!SetNext(h, a, b).next[x] = IF x = a THEN b ELSE h.next[x]
             /\ L!SetNext(h, a, b).prev[x] = h.prev[x]
  BY <1>1 DEF L!SetNext, L!Heap
<1>4. ASSUME NEW x \in Node
      PROVE  /\ L!SetPrev(h, a, b).prev[x] = IF x = a THEN b ELSE h.prev[x]
             /\ L!SetPrev(h, a, b).next[x] = h.next[x]
  BY <1>1 DEF L!SetPrev, L!Heap
<1> QED
  BY <1>2, <1>3, <1>4

(* What a write of NULL to a pointer of a node changes.                   *)
LEMMA SetNull ==
    ASSUME NEW h \in L!Heap, NEW a \in Node
    PROVE  /\ L!SetNext(h, a, NULL) \in L!Heap /\ L!SetPrev(h, a, NULL) \in L!Heap
           /\ \A x \in Node : /\ L!SetNext(h, a, NULL).next[x] = IF x = a THEN NULL ELSE h.next[x]
                              /\ L!SetNext(h, a, NULL).prev[x] = h.prev[x]
                              /\ L!SetPrev(h, a, NULL).prev[x] = IF x = a THEN NULL ELSE h.prev[x]
                              /\ L!SetPrev(h, a, NULL).next[x] = h.next[x]
<1>1. NULL \in Node \cup {NULL}
  OBVIOUS
<1> QED
  BY <1>1, SetIs

(* The three calls of list_init in init_threads leave three empty lists.  *)
LEMMA UpLinked ==
    ASSUME NEW h \in L!Heap, Closed(h, Foreign),
           \A a \in QueueNode : h.next[a] = NULL /\ h.prev[a] = NULL
    PROVE  LET g == L!list_init(L!list_init(L!list_init(h, "ready"), "blocked"), "dying")
           IN  Linked(g) /\ \A l \in Queue : Held(g, l) = {}
<1> DEFINE g == L!list_init(L!list_init(L!list_init(h, "ready"), "blocked"), "dying")
           S == [l \in Queue |-> <<>>]
<1>0. /\ QueueNode \subseteq Node /\ \A l \in Queue : L!HeadNode(l) \in QueueNode /\ L!TailNode(l) \in QueueNode
      /\ QueueNode \in SUBSET Node
      /\ {"ready", "blocked", "dying"} = Queue
  BY Places DEF Queue
<1>1. Within(h, g, QueueNode)
  <2> DEFINE g1 == L!list_init(h, "ready")
             g2 == L!list_init(g1, "blocked")
             g3 == L!list_init(g2, "dying")
  <2>0. Closed(h, QueueNode)
    BY DEF Closed
  <2>1. Within(h, g1, QueueNode)
    BY <1>0, <2>0, ListInitWithin
  <2> HIDE DEF g1
  <2>2. Within(h, g2, QueueNode)
    BY <1>0, <2>1, ListInitStays
  <2> HIDE DEF g2
  <2>3. Within(h, g3, QueueNode)
    BY <1>0, <2>2, ListInitStays
  <2> QED
    BY <2>3 DEF g1, g2, g3
<1>2. \A a \in QueueNode :
        /\ g.next[a] = IF \E l \in Queue : a = L!HeadNode(l) THEN L!TailNode(a[2]) ELSE NULL
        /\ g.prev[a] = IF \E l \in Queue : a = L!TailNode(l) THEN L!HeadNode(a[2]) ELSE NULL
  <2>1. \A k \in L!Heap : \A l \in Queue :
          LET i == L!list_init(k, l) IN
          /\ i \in L!Heap
          /\ \A a \in Node : /\ i.next[a] = IF a = L!HeadNode(l) THEN L!TailNode(l)
                                            ELSE IF a = L!TailNode(l) THEN NULL ELSE k.next[a]
                             /\ i.prev[a] = IF a = L!TailNode(l) THEN L!HeadNode(l)
                                            ELSE IF a = L!HeadNode(l) THEN NULL ELSE k.prev[a]
    <3> TAKE k \in L!Heap
    <3> TAKE l \in Queue
    <3>1. /\ L!HeadNode(l) \in Node /\ L!TailNode(l) \in Node
          /\ L!HeadNode(l) # L!TailNode(l) /\ NULL \in Node \cup {NULL}
      BY <1>0 DEF L!HeadNode, L!TailNode
    <3>2. L!list_init(k, l) \in L!Heap
      BY ListInitType DEF Queue, ListId
    <3> DEFINE h1 == L!SetPrev(k, L!HeadNode(l), NULL)
               h2 == L!SetNext(h1, L!HeadNode(l), L!TailNode(l))
               h3 == L!SetPrev(h2, L!TailNode(l), L!HeadNode(l))
               h4 == L!SetNext(h3, L!TailNode(l), NULL)
    <3>3. /\ h1 \in L!Heap
          /\ \A a \in Node : /\ h1.prev[a] = IF a = L!HeadNode(l) THEN NULL ELSE k.prev[a]
                             /\ h1.next[a] = k.next[a]
      BY <3>1, SetNull
    <3> HIDE DEF h1
    <3>4. /\ h2 \in L!Heap
          /\ \A a \in Node : /\ h2.next[a] = IF a = L!HeadNode(l) THEN L!TailNode(l) ELSE h1.next[a]
                             /\ h2.prev[a] = h1.prev[a]
      BY <3>1, <3>3, SetIs
    <3> HIDE DEF h2
    <3>5. /\ h3 \in L!Heap
          /\ \A a \in Node : /\ h3.prev[a] = IF a = L!TailNode(l) THEN L!HeadNode(l) ELSE h2.prev[a]
                             /\ h3.next[a] = h2.next[a]
      BY <3>1, <3>4, SetIs
    <3> HIDE DEF h3
    <3>6. /\ h4 \in L!Heap
          /\ \A a \in Node : /\ h4.next[a] = IF a = L!TailNode(l) THEN NULL ELSE h3.next[a]
                             /\ h4.prev[a] = h3.prev[a]
      BY <3>1, <3>5, SetNull
    <3>7. h4 = L!list_init(k, l)
      BY DEF h1, h2, h3, L!list_init
    <3> HIDE DEF h4
    <3> QED
      BY <3>1, <3>3, <3>4, <3>5, <3>6, <3>7
  <2>2. PICK g1 : g1 = L!list_init(h, "ready")
    OBVIOUS
  <2>3. PICK g2 : g2 = L!list_init(g1, "blocked")
    OBVIOUS
  <2>4. PICK g3 : g3 = L!list_init(g2, "dying")
    OBVIOUS
  <2>5. /\ g1 \in L!Heap
        /\ \A a \in Node : /\ g1.next[a] = IF a = L!HeadNode("ready") THEN L!TailNode("ready")
                                           ELSE IF a = L!TailNode("ready") THEN NULL ELSE h.next[a]
                           /\ g1.prev[a] = IF a = L!TailNode("ready") THEN L!HeadNode("ready")
                                           ELSE IF a = L!HeadNode("ready") THEN NULL ELSE h.prev[a]
    BY <1>0, <2>1, <2>2
  <2>6. /\ g2 \in L!Heap
        /\ \A a \in Node : /\ g2.next[a] = IF a = L!HeadNode("blocked") THEN L!TailNode("blocked")
                                           ELSE IF a = L!TailNode("blocked") THEN NULL ELSE g1.next[a]
                           /\ g2.prev[a] = IF a = L!TailNode("blocked") THEN L!HeadNode("blocked")
                                           ELSE IF a = L!HeadNode("blocked") THEN NULL ELSE g1.prev[a]
    BY <1>0, <2>1, <2>3, <2>5
  <2>7. /\ g3 \in L!Heap
        /\ \A a \in Node : /\ g3.next[a] = IF a = L!HeadNode("dying") THEN L!TailNode("dying")
                                           ELSE IF a = L!TailNode("dying") THEN NULL ELSE g2.next[a]
                           /\ g3.prev[a] = IF a = L!TailNode("dying") THEN L!HeadNode("dying")
                                           ELSE IF a = L!HeadNode("dying") THEN NULL ELSE g2.prev[a]
    BY <1>0, <2>1, <2>4, <2>6
  <2>8. g = g3
    BY <2>2, <2>3, <2>4
  <2> HIDE DEF g
  <2>9. \A l \in Queue : L!HeadNode(l) = <<"head", l>> /\ L!TailNode(l) = <<"tail", l>>
                         /\ L!HeadNode(l)[2] = l /\ L!TailNode(l)[2] = l
    BY DEF L!HeadNode, L!TailNode
  <2>10. ASSUME NEW a \in QueueNode
         PROVE  /\ g.next[a] = IF \E l \in Queue : a = L!HeadNode(l) THEN L!TailNode(a[2]) ELSE NULL
                /\ g.prev[a] = IF \E l \in Queue : a = L!TailNode(l) THEN L!HeadNode(a[2]) ELSE NULL
    <3>0. a \in Node /\ h.next[a] = NULL /\ h.prev[a] = NULL
      BY <1>0
    <3>a. /\ \A l, k \in Queue : L!HeadNode(l) # L!TailNode(k)
          /\ \A l, k \in Queue : L!HeadNode(l) = L!HeadNode(k) => l = k
          /\ \A l, k \in Queue : L!TailNode(l) = L!TailNode(k) => l = k
          /\ "ready" \in Queue /\ "blocked" \in Queue /\ "dying" \in Queue
      BY <1>0 DEF L!HeadNode, L!TailNode
    <3>1. CASE \E l \in Queue : a = L!HeadNode(l)
      <4>1. a = L!HeadNode("ready") \/ a = L!HeadNode("blocked") \/ a = L!HeadNode("dying")
        BY <1>0, <3>1
      <4> QED
        BY <2>5, <2>6, <2>7, <2>8, <2>9, <3>0, <3>a, <3>1, <4>1
    <3>2. CASE \E l \in Queue : a = L!TailNode(l)
      <4>1. a = L!TailNode("ready") \/ a = L!TailNode("blocked") \/ a = L!TailNode("dying")
        BY <1>0, <3>2
      <4> QED
        BY <2>5, <2>6, <2>7, <2>8, <2>9, <3>0, <3>a, <3>2, <4>1
    <3>3. CASE ~(\E l \in Queue : a \in {L!HeadNode(l), L!TailNode(l)})
      BY <1>0, <2>5, <2>6, <2>7, <2>8, <3>0, <3>3
    <3> QED
      BY <3>1, <3>2, <3>3
  <2> QED
    BY <2>10
<1> HIDE DEF g
<1>3. U!Shape(g, S)
  <2>1. S \in [Queue -> Seq({"node"} \X Thread)] /\ g \in U!Heap /\ \A l \in Queue : S[l] = <<>> /\ Len(S[l]) = 0
    BY <1>1, SameHeap DEF Within
  <2> HIDE DEF S
  <2>2. U!Once(S)
    BY <2>1 DEF U!Once
  <2>3. \A l \in Queue : U!Nd(S, l, 0) = L!HeadNode(l) /\ U!Nd(S, l, 0 + 1) = L!TailNode(l)
    BY <2>1, SameEnds DEF U!Nd
  <2>4. \A l \in Queue : L!HeadNode(l)[2] = l /\ L!TailNode(l)[2] = l
    BY DEF L!HeadNode, L!TailNode
  <2>5. \A l \in Queue : g.next[L!HeadNode(l)] = L!TailNode(l) /\ g.prev[L!TailNode(l)] = L!HeadNode(l)
    BY <1>0, <1>2, <2>4
  <2>6. U!Joined(g, S)
    <3> SUFFICES ASSUME NEW l \in Queue, NEW i \in 0..Len(S[l])
                 PROVE  g.next[U!Nd(S, l, i)] = U!Nd(S, l, i + 1)
                        /\ g.prev[U!Nd(S, l, i + 1)] = U!Nd(S, l, i)
      BY DEF U!Joined
    <3>1. i = 0
      BY <2>1
    <3> QED
      BY <2>3, <2>5, <3>1
  <2>7. \A l, k \in Queue : L!HeadNode(l) # L!TailNode(k)
    BY DEF L!HeadNode, L!TailNode
  <2>8. U!Ended(g)
    BY <1>0, <1>2, <2>7, SameEnds DEF U!Ended
  <2>9. \A n \in {"node"} \X Thread : n \in QueueNode /\ \A l \in Queue : n # L!HeadNode(l) /\ n # L!TailNode(l)
    BY DEF QueueNode, L!HeadNode, L!TailNode
  <2>10. U!Apart(g, S)
    BY <1>2, <2>9 DEF U!Apart
  <2> QED
    BY <2>1, <2>2, <2>6, <2>8, <2>10 DEF U!Shape
<1>4. \A l \in Queue : Held(g, l) = {}
  <2> TAKE l \in Queue
  <2>1. \A t \in Thread : t \in Held(g, l) <=> \E i \in 1..Len(S[l]) : S[l][i] = TNode(t)
    BY <1>3, HeldIs
  <2>2. 1..Len(S[l]) = {}
    OBVIOUS
  <2> QED
    BY <2>1, <2>2 DEF Held
<1>5. Linked(g)
  <2>1. Closed(g, Foreign)
    BY <1>1 DEF Closed, Within, Foreign
  <2> QED
    BY <1>1, <1>3, <2>1 DEF Linked, Within
<1> QED
  BY <1>4, <1>5 DEF g

-----------------------------------------------------------------------------
(* The stacks: what a step pushes and what it leaves.                     *)

(* The invariant of the system once init_threads has run: the links of    *)
(* the lists, and the parts of KernelInv.                                 *)
Core == Linked(heap) /\ StackInv /\ MoveInv /\ StateInv /\ Tables /\ BootInv

-----------------------------------------------------------------------------
(* The current stack keeps its lowest k frames and gets fs on top of them.  *)
CurReplaced(k, fs) ==
    /\ cur \in Thread /\ Len(stk[cur]) \in Nat /\ k \in Nat /\ k <= Len(stk[cur]) /\ Len(fs) \in Nat
    /\ Len(stk'[cur]) = k + Len(fs)
    /\ \A d \in 1..k : FD(stk'[cur], d) = FD(stk[cur], d)
    /\ \A d \in (k + 1)..(k + Len(fs)) : FD(stk'[cur], d) = fs[k + Len(fs) + 1 - d]
(* ... and no other stack changes.                                          *)
Replaced(k, fs) == CurReplaced(k, fs) /\ \A u \in Thread \ {cur} : stk'[u] = stk[u]

(* The frame that runs is the one at the full depth of the stack.         *)
LEMMA TopIs ==
    ASSUME NEW pc, At(pc), NEW s \in Seq(Frame), s = stk[cur]
    PROVE  Len(s) \in Nat \ {0} /\ FD(s, Len(s)) = Top
<1>1. Len(s) \in Nat /\ Len(s) > 0
  BY DEF At
<1>2. Len(s) + 1 - Len(s) = 1 /\ s # <<>>
  BY <1>1
<1> QED
  BY <1>1, <1>2 DEF FD, Top

(* Pushing fs onto the lowest k frames of the current stack,              *)
LEMMA CurPush ==
    ASSUME TypeOK, NEW k, NEW r \in Seq(Frame), k = Len(r), k <= Len(stk[cur]),
           \A d \in 1..k : FD(r, d) = FD(stk[cur], d),
           NEW fs \in Seq(Frame), stk'[cur] = fs \o r
    PROVE  CurReplaced(k, fs)
<1>1. cur \in Thread /\ stk[cur] \in Seq(Frame) /\ stk \in [Thread -> Seq(Frame)]
  BY DEF TypeOK
<1>2. Len(stk[cur]) \in Nat /\ Len(fs) \in Nat /\ k \in Nat
  BY <1>1
<1>3. PICK q : q = fs \o r
  OBVIOUS
<1>n. PICK n \in Nat : n = Len(fs)
  BY <1>2
<1>4. Len(q) = Len(fs) + k
      /\ \A i \in 1..(Len(fs) + k) : q[i] = IF i <= Len(fs) THEN fs[i] ELSE r[i - Len(fs)]
  BY <1>3
<1>5. stk'[cur] = q
  BY <1>3
<1>6. ASSUME NEW d \in 1..k PROVE FD(q, d) = FD(stk[cur], d)
  <2>0. k + n + 1 - d \in 1..(n + k)
    BY <1>2
  <2>1. PICK i \in 1..(Len(fs) + k) : i = k + Len(fs) + 1 - d
    BY <1>n, <2>0
  <2>2. ~(i <= Len(fs)) /\ i - Len(fs) = k + 1 - d /\ Len(q) + 1 - d = i
    BY <1>2, <1>4, <2>1
  <2>3. q[i] = r[k + 1 - d]
    BY <1>4, <2>2
  <2>4. FD(q, d) = FD(r, d)
    BY <2>2, <2>3 DEF FD
  <2> QED
    BY <2>4
<1>7. ASSUME NEW d \in (k + 1)..(k + Len(fs)) PROVE FD(q, d) = fs[k + Len(fs) + 1 - d]
  <2>0. k + n + 1 - d \in 1..(n + k)
    BY <1>2, <1>n
  <2>1. PICK i \in 1..(Len(fs) + k) : i = k + Len(fs) + 1 - d
    BY <1>n, <2>0
  <2>2. i <= Len(fs) /\ Len(q) + 1 - d = i
    BY <1>2, <1>4, <2>1
  <2> QED
    BY <1>4, <2>1, <2>2 DEF FD
<1>8. Len(q) = k + Len(fs)
  BY <1>2, <1>4
<1> QED
  BY <1>1, <1>2, <1>5, <1>6, <1>7, <1>8 DEF CurReplaced

(* with the other stacks left alone,                                      *)
LEMMA PushReplaces ==
    ASSUME TypeOK, NEW k, NEW r \in Seq(Frame), k = Len(r), k <= Len(stk[cur]),
           \A d \in 1..k : FD(r, d) = FD(stk[cur], d),
           NEW fs \in Seq(Frame), stk' = [stk EXCEPT ![cur] = fs \o r]
    PROVE  Replaced(k, fs)
<1>1. stk'[cur] = fs \o r /\ \A u \in Thread \ {cur} : stk'[u] = stk[u]
  BY DEF TypeOK
<1> QED
  BY <1>1, CurPush DEF Replaced

(* Goto pops the top frame.                                                 *)
LEMMA TailKeeps ==
    ASSUME TypeOK, NEW pc, At(pc)
    PROVE  /\ Tail(stk[cur]) \in Seq(Frame) /\ Len(Tail(stk[cur])) = Len(stk[cur]) - 1
           /\ \A d \in 1..Len(Tail(stk[cur])) : FD(Tail(stk[cur]), d) = FD(stk[cur], d)
           /\ Len(stk[cur]) \in Nat \ {0} /\ FD(stk[cur], Len(stk[cur])) = Top /\ Top.pc = pc
<1>1. PICK s \in Seq(Frame) : s = stk[cur]
  BY DEF TypeOK
<1>2. Len(s) \in Nat \ {0} /\ FD(s, Len(s)) = Top
  BY <1>1, TopIs
<1>3. s # <<>>
  BY <1>2
<1>a. Tail(s) \in Seq(Frame) /\ Len(Tail(s)) = Len(s) - 1
      /\ \A i \in 1..Len(Tail(s)) : Tail(s)[i] = s[i + 1]
  BY <1>3, HeadTailProperties
<1>4. PICK r \in Seq(Frame) : r = Tail(s)
  BY <1>a
<1>5. Len(r) = Len(s) - 1 /\ \A i \in 1..Len(r) : r[i] = s[i + 1]
  BY <1>a, <1>4
<1>6. ASSUME NEW d \in 1..Len(r) PROVE FD(r, d) = FD(s, d)
  <2>1. Len(r) + 1 - d \in 1..Len(r) /\ Len(r) + 1 - d + 1 = Len(s) + 1 - d
    BY <1>2, <1>5
  <2> QED
    BY <1>5, <2>1 DEF FD
<1> QED
  BY <1>1, <1>2, <1>4, <1>5, <1>6 DEF At

(* and the step of most segments of code: the frame on top gives way to   *)
(* the frames fs.                                                         *)
LEMMA GotoReplaces ==
    ASSUME TypeOK, NEW pc, At(pc), NEW fs \in Seq(Frame), Goto(fs)
    PROVE  /\ Replaced(Len(stk[cur]) - 1, fs)
           /\ Len(stk[cur]) \in Nat \ {0} /\ FD(stk[cur], Len(stk[cur])) = Top /\ Top.pc = pc
<1>1. PICK r \in Seq(Frame) : r = Tail(stk[cur])
  BY TailKeeps
<1>2. /\ Len(r) = Len(stk[cur]) - 1 /\ Len(stk[cur]) \in Nat \ {0}
      /\ \A d \in 1..Len(r) : FD(r, d) = FD(stk[cur], d)
  BY <1>1, TailKeeps
<1>3. stk' = [stk EXCEPT ![cur] = fs \o r]
  BY <1>1 DEF Goto
<1>4. PICK k : k = Len(r)
  OBVIOUS
<1>5. k = Len(stk[cur]) - 1 /\ k <= Len(stk[cur]) /\ \A d \in 1..k : FD(r, d) = FD(stk[cur], d)
  BY <1>2, <1>4
<1>6. Replaced(k, fs)
  BY <1>3, <1>4, <1>5, PushReplaces
<1> QED
  BY <1>5, <1>6, TailKeeps

(* The frame that goes, if one does, is in one of the segments pcs.         *)
Gone(k, pcs) == k < Len(stk[cur]) /\ FD(stk[cur], k + 1).pc \in pcs

(* fs may be put on the lowest k frames of the current stack.               *)
Fits(k, fs) ==
    /\ \A i \in 1..Len(fs) :
         /\ FrameOK(cur, fs[i]) /\ fs[i].pc \notin {"idle_made", "null_return"}
         /\ fs[i].pc \in Deep => Gone(k, Deep) /\ \A j \in i..Len(fs) : fs[j].pc \in Deep
         /\ fs[i].pc = "exit" /\ cur = IdleT => i > 1 /\ fs[i - 1].pc = "idle"
    /\ Gone(k, {"execute"}) => Len(fs) > 0 /\ fs[Len(fs)].pc = "exit"
    /\ Gone(k, {"exit"}) => state'[cur] = "DYING"
    /\ Gone(k, {"idle"}) => Len(fs) > 0 /\ fs[Len(fs)].pc = "idle"

(* What a step must keep for the stacks to stay in order.                   *)
Lasts(t) ==
    /\ state[t] = "DYING" => state'[t] = "DYING"
    /\ \A c \in CmdThread : Created(c) => Created(c)'
Lasting == \A t \in Thread : Lasts(t)

(* A frame stays right while the thread it works on still exists.         *)
LEMMA FrameLasts ==
    ASSUME NEW t, Lasts(t), NEW f, FrameOK(t, f), parent'[t] = parent[t]
    PROVE  FrameOK(t, f)'
BY DEF FrameOK, Lasts

(* A stack no one writes to stays right,                                  *)
LEMMA StackSame ==
    ASSUME NEW t \in Thread, StackOK(t), stk'[t] = stk[t], parent'[t] = parent[t], Lasts(t)
    PROVE  StackOK(t)'
<1>1. PICK s : s = stk[t]
  OBVIOUS
<1>2. \A d \in 1..Len(s) : FrameOK(t, FD(s, d))'
  BY <1>1, FrameLasts DEF StackOK
<1>3. \A d \in 1..Len(s) : NextTo(t, d)'
  BY <1>1 DEF StackOK, NextTo, Lasts
<1>4. Sorted(t)'
  BY <1>1 DEF StackOK, Sorted
<1> QED
  BY <1>1, <1>2, <1>3, <1>4 DEF StackOK

(* and so does the current one under a push of frames that fit.           *)
LEMMA StackPush ==
    ASSUME NEW t \in Thread, t = cur, StackOK(t), NEW k, NEW fs, CurReplaced(k, fs), Fits(k, fs),
           parent'[t] = parent[t], Lasts(t)
    PROVE  StackOK(t)'
<1>1. PICK s : s = stk[t]
  OBVIOUS
<1>2. PICK q : q = stk'[t]
  OBVIOUS
<1>3. PICK n \in Nat, m \in Nat : n = Len(fs) /\ m = Len(s)
  BY <1>1 DEF Replaced, CurReplaced
<1>4. /\ k \in Nat /\ k <= m /\ Len(q) = k + n
      /\ \A d \in 1..k : FD(q, d) = FD(s, d)
      /\ \A d \in (k + 1)..(k + n) : FD(q, d) = fs[k + n + 1 - d]
  BY <1>1, <1>2, <1>3 DEF Replaced, CurReplaced
<1>5. \A d \in (k + 1)..(k + n) : \E i \in 1..n : i = k + n + 1 - d /\ FD(q, d) = fs[i]
  <2> SUFFICES ASSUME NEW d \in (k + 1)..(k + n)
               PROVE  \E i \in 1..n : i = k + n + 1 - d /\ FD(q, d) = fs[i]
    OBVIOUS
  <2>1. FD(q, d) = fs[k + n + 1 - d]
    BY <1>4
  <2>2. k \in Nat
    BY <1>4
  <2>3. k + n + 1 - d \in 1..n
    BY <2>2
  <2> QED
    BY <2>1, <2>3
<1>6. \A d, e \in 1..m : d < e /\ FD(s, e).pc \in Deep => FD(s, d).pc \in Deep
  BY <1>1, <1>3 DEF StackOK, Sorted
<1>7. ASSUME NEW d \in 1..(k + n), NEW e \in 1..(k + n), d < e, FD(q, e).pc \in Deep
      PROVE  FD(q, d).pc \in Deep
  <2>1. CASE e <= k
    BY <1>4, <1>6, <1>7, <2>1
  <2>2. CASE e > k
    <3>0. e \in (k + 1)..(k + n)
      BY <1>4, <2>2
    <3>1. PICK i \in 1..n : i = k + n + 1 - e /\ FD(q, e) = fs[i]
      BY <1>5, <3>0
    <3>2. fs[i].pc \in Deep
      BY <1>7, <3>1
    <3>3. Gone(k, Deep) /\ \A j \in i..n : fs[j].pc \in Deep
      BY <1>3, <3>2 DEF Fits
    <3>4. CASE d <= k
      <4>1. k + 1 \in 1..m /\ FD(s, k + 1).pc \in Deep /\ d \in 1..m /\ d < k + 1
        BY <1>1, <1>3, <1>4, <3>3, <3>4 DEF Gone
      <4> QED
        BY <1>4, <1>6, <3>4, <4>1
    <3>5. CASE d > k
      <4>0. d \in (k + 1)..(k + n)
        BY <1>4, <3>5
      <4>1. PICK j \in 1..n : j = k + n + 1 - d /\ FD(q, d) = fs[j]
        BY <1>5, <4>0
      <4>2. j \in i..n
        BY <1>3, <1>4, <1>7, <3>1, <4>1
      <4> QED
        BY <3>3, <4>1, <4>2
    <3> QED
      BY <1>4, <3>4, <3>5
  <2> QED
    BY <1>4, <2>1, <2>2
<1>8. ASSUME NEW d \in 1..(k + n) PROVE FrameOK(t, FD(q, d))'
  <2>1. CASE d <= k
    <3>1. d \in 1..m /\ FD(q, d) = FD(s, d)
      BY <1>3, <1>4, <2>1
    <3>2. FrameOK(t, FD(s, d))
      BY <1>1, <1>3, <3>1 DEF StackOK
    <3> QED
      BY <3>1, <3>2, FrameLasts
  <2>2. CASE d > k
    <3>0. d \in (k + 1)..(k + n)
      BY <1>4, <2>2
    <3>1. PICK i \in 1..n : FD(q, d) = fs[i]
      BY <1>5, <3>0
    <3>2. FrameOK(t, fs[i])
      BY <1>3 DEF Fits
    <3> QED
      BY <3>1, <3>2, FrameLasts
  <2> QED
    BY <1>4, <2>1, <2>2
<1>9. ASSUME NEW d \in 1..(k + n), FD(q, d).pc = "null_return", state'[t] # "DYING"
      PROVE  d < k + n /\ FD(q, d + 1).pc \in {"execute", "exit"}
  <2>0. d \notin (k + 1)..(k + n)
    <3> SUFFICES ASSUME d \in (k + 1)..(k + n) PROVE FALSE
      OBVIOUS
    <3>1. PICK i \in 1..n : FD(q, d) = fs[i]
      BY <1>5
    <3> QED
      BY <1>3, <1>9, <3>1 DEF Fits
  <2>1. d <= k /\ FD(q, d) = FD(s, d)
    BY <1>4, <2>0
  <2>2. d \in 1..m /\ d < m /\ FD(s, d + 1).pc \in {"execute", "exit"}
    BY <1>1, <1>3, <1>4, <1>9, <2>1 DEF StackOK, NextTo, Lasts
  <2>3. CASE d < k
    <3>1. d + 1 \in 1..k /\ d < k + n
      BY <1>3, <1>4, <2>3
    <3> QED
      BY <1>4, <2>2, <3>1
  <2>4. CASE d = k
    <3>1. ~Gone(k, {"exit"})
      BY <1>9 DEF Fits
    <3>2. Gone(k, {"execute"})
      BY <1>1, <1>3, <2>2, <2>4, <3>1 DEF Gone
    <3>3. n > 0 /\ fs[n].pc = "exit"
      BY <1>3, <3>2 DEF Fits
    <3>4. k + 1 \in (k + 1)..(k + n) /\ k + n + 1 - (k + 1) = n
      BY <1>3, <1>4, <3>3
    <3> QED
      BY <1>3, <1>4, <2>4, <3>3, <3>4
  <2> QED
    BY <1>4, <2>1, <2>3, <2>4
<1>10. ASSUME NEW d \in 1..(k + n), FD(q, d).pc = "exit", t = IdleT
       PROVE  d < k + n /\ FD(q, d + 1).pc = "idle"
  <2>1. CASE d <= k
    <3>1. FD(q, d) = FD(s, d) /\ d \in 1..m /\ d < m /\ FD(s, d + 1).pc = "idle"
      BY <1>1, <1>3, <1>4, <1>10, <2>1 DEF StackOK, NextTo
    <3>2. CASE d < k
      <4>1. d + 1 \in 1..k /\ d < k + n
        BY <1>3, <1>4, <3>2
      <4> QED
        BY <1>4, <3>1, <4>1
    <3>3. CASE d = k
      <4>1. n > 0 /\ fs[n].pc = "idle"
        BY <1>1, <1>3, <3>1, <3>3 DEF Fits, Gone
      <4>2. k + 1 \in (k + 1)..(k + n) /\ k + n + 1 - (k + 1) = n
        BY <1>3, <1>4, <4>1
      <4> QED
        BY <1>3, <1>4, <3>3, <4>1, <4>2
    <3> QED
      BY <1>4, <2>1, <3>2, <3>3
  <2>2. CASE d > k
    <3>0. d \in (k + 1)..(k + n)
      BY <1>4, <2>2
    <3>1. PICK i \in 1..n : i = k + n + 1 - d /\ FD(q, d) = fs[i]
      BY <1>5, <3>0
    <3>2. FD(q, d) = fs[i]
      BY <3>1
    <3>3. i > 1 /\ fs[i - 1].pc = "idle"
      BY <1>3, <1>10, <3>2 DEF Fits
    <3>4. d + 1 \in (k + 1)..(k + n) /\ k + n + 1 - (d + 1) = i - 1 /\ d < k + n
      BY <1>3, <1>4, <2>2, <3>1, <3>3
    <3>5. FD(q, d + 1) = fs[i - 1]
      BY <1>5, <3>4
    <3> QED
      BY <3>3, <3>4, <3>5
  <2> QED
    BY <1>4, <2>1, <2>2
<1>11. ASSUME NEW d \in 1..(k + n), FD(q, d).pc = "idle_made"
       PROVE  t = BootT /\ \E e \in 1..(d - 1) : FD(q, e).pc = "palloc_proc"
  <2>0. d \notin (k + 1)..(k + n)
    <3> SUFFICES ASSUME d \in (k + 1)..(k + n) PROVE FALSE
      OBVIOUS
    <3>1. PICK i \in 1..n : FD(q, d) = fs[i]
      BY <1>5
    <3> QED
      BY <1>3, <1>11, <3>1 DEF Fits
  <2>1. d <= k /\ FD(q, d) = FD(s, d)
    BY <1>4, <2>0
  <2>2. d \in 1..m /\ t = BootT /\ \E e \in 1..(d - 1) : FD(s, e).pc = "palloc_proc"
    <3>1. d \in 1..m
      BY <1>3, <1>4, <2>1
    <3>2. NextTo(t, d)
      BY <1>1, <1>3, <3>1 DEF StackOK
    <3> QED
      BY <1>1, <1>11, <2>1, <3>1, <3>2 DEF NextTo
  <2>3. \A e \in 1..(d - 1) : e \in 1..k
    BY <1>4, <2>1
  <2> QED
    BY <1>4, <2>2, <2>3
<1>12. Sorted(t)'
  BY <1>2, <1>4, <1>7 DEF Sorted
<1>13. \A d \in 1..(k + n) : NextTo(t, d)'
  BY <1>2, <1>4, <1>9, <1>10, <1>11 DEF NextTo
<1> QED
  BY <1>2, <1>4, <1>8, <1>12, <1>13 DEF StackOK

(* All stacks, when no other stack changes.                                 *)
LEMMA StackStep ==
    ASSUME StackInv, NEW k, NEW fs, Replaced(k, fs), Fits(k, fs), Lasting, parent' = parent
    PROVE  StackInv'
<1> SUFFICES ASSUME NEW t \in Thread PROVE StackOK(t)'
  BY DEF StackInv
<1>1. StackOK(t) /\ parent'[t] = parent[t] /\ Lasts(t)
  BY DEF StackInv, Lasting
<1>2. CASE t = cur
  BY <1>1, <1>2, StackPush DEF Replaced
<1>3. CASE t # cur
  BY <1>1, <1>3, StackSame DEF Replaced, CurReplaced
<1> QED
  BY <1>2, <1>3

(* What the invariant says when the top frame is in segment pc.             *)
LEMMA TopFrame ==
    ASSUME TypeOK, NEW pc, At(pc)
    PROVE  /\ cur \in Thread /\ Len(stk[cur]) \in Nat \ {0}
           /\ FD(stk[cur], Len(stk[cur])) = Top /\ Top.pc = pc
<1>1. PICK s \in Seq(Frame) : s = stk[cur]
  BY DEF TypeOK
<1> QED
  BY <1>1, TopIs DEF At, TypeOK

(* schedule's frames are found at the top, or under a call or an interrupt. *)
LEMMA InsideAt ==
    ASSUME TypeOK, InsideInv, NEW pc, At(pc), NEW u \in Thread, NEW d \in 1..Len(stk[u]),
           FD(stk[u], d).pc \in Inside
    PROVE  /\ u = cur /\ InsideOK(FD(stk[u], d), d)
           /\ pc \in Inside \cup {"irq_return", "unblock"}
           /\ pc \in Inside => d = Len(stk[cur]) /\ FD(stk[u], d) = Top
           /\ pc \in {"irq_return", "unblock"} => d = Len(stk[cur]) - 1 /\ ~iflag
<1>1. u = cur /\ InsideOK(FD(stk[u], d), d)
  BY DEF InsideInv
<1>2. FD(stk[cur], Len(stk[cur])) = Top /\ Top.pc = pc
  BY TopFrame
<1>3. CASE d = Len(stk[cur])
  BY <1>1, <1>2, <1>3 DEF Inside
<1>4. CASE d = Len(stk[cur]) - 1 /\ Top.pc \in {"irq_return", "unblock"} /\ ~iflag
  BY <1>1, <1>2, <1>4 DEF Inside
<1> QED
  BY <1>1, <1>3, <1>4 DEF InsideOK

(* Outside schedule and what it calls, no stack is inside schedule, and   *)
(* the current thread has left the dying and the blocked list.            *)
LEMMA NoInside ==
    ASSUME TypeOK, InsideInv, CurListed, NEW pc, At(pc),
           pc \notin Inside \cup {"irq_return", "unblock"}
    PROVE  /\ \A u \in Thread : \A d \in 1..Len(stk[u]) : FD(stk[u], d).pc \notin Inside
           /\ cur \notin Dying /\ (cur \in Blocked => pc = "schedule" /\ ~iflag)
<1>1. \A u \in Thread : \A d \in 1..Len(stk[u]) : FD(stk[u], d).pc \notin Inside
  BY InsideAt
<1>2. {"self_dying", "switch"} \subseteq Inside /\ cur \in Thread /\ Top.pc = pc
  BY TopFrame DEF Inside
<1>3. ~CurHas(Inside) /\ ~CurHas({"self_dying", "switch"})
  BY <1>1, <1>2 DEF CurHas
<1> QED
  BY <1>1, <1>2, <1>3 DEF CurListed, At

(* The thread that runs is RUNNING, outside schedule and its return.        *)
LEMMA NotOver ==
    ASSUME TypeOK, LimboInv, StateInv, NEW pc, At(pc), pc \notin Over
    PROVE  /\ state[cur] # "DYING"
           /\ pc # "finish" => state[cur] = "RUNNING" \/ cur = BootT
<1>1. /\ cur \in Thread /\ Len(stk[cur]) \in Nat \ {0}
      /\ FD(stk[cur], Len(stk[cur])) = Top /\ Top.pc = pc
  BY TopFrame
<1>2. ASSUME NEW pcs, Limbo(pcs) PROVE pc \in pcs
  <2>1. PICK d \in 1..Len(stk[cur]) : /\ FD(stk[cur], d).pc \in pcs
                                      /\ \A e \in (d + 1)..Len(stk[cur]) : FD(stk[cur], e).pc \in Over
    BY <1>2 DEF Limbo
  <2>2. d = Len(stk[cur])
    BY <1>1, <2>1
  <2> QED
    BY <1>1, <2>1, <2>2
<1>3. pc \notin Inside \cup {"schedule"}
  BY DEF Over
<1>4. state[cur] # "DYING"
  BY <1>2, <1>3 DEF LimboInv
<1>5. pc # "finish" => ~Limbo(Inside \cup {"schedule", "finish"})
  BY <1>2, <1>3
<1>6. state[cur] \in State /\ state[cur] # "TERMINATED"
  BY <1>1 DEF TypeOK, StateInv
<1> QED
  BY <1>4, <1>5, <1>6 DEF LimboInv, State

(* Counting frames from the top or from the bottom is all the same.         *)
LEMMA Depths ==
    ASSUME NEW s \in Seq(Frame), NEW pcs
    PROVE  (\E i \in 1..Len(s) : s[i].pc \in pcs) <=> \E d \in 1..Len(s) : FD(s, d).pc \in pcs
<1>1. Len(s) \in Nat
  OBVIOUS
<1>3. \A d \in 1..Len(s) : Len(s) + 1 - d \in 1..Len(s) /\ Len(s) + 1 - (Len(s) + 1 - d) = d
  BY <1>1
<1>4. ASSUME NEW i \in 1..Len(s), s[i].pc \in pcs
      PROVE  \E d \in 1..Len(s) : FD(s, d).pc \in pcs
  <2>1. FD(s, Len(s) + 1 - i) = s[i]
    BY <1>3 DEF FD
  <2> QED
    BY <1>3, <1>4, <2>1
<1>5. ASSUME NEW d \in 1..Len(s), FD(s, d).pc \in pcs
      PROVE  \E i \in 1..Len(s) : s[i].pc \in pcs
  BY <1>3, <1>5 DEF FD
<1> QED
  BY <1>4, <1>5

(* kmain is starting up while its stack holds one of two return           *)
(* addresses.                                                             *)
LEMMA BootingIs ==
    ASSUME TypeOK
    PROVE  Booting <=> \E d \in 1..Len(stk[BootT]) : FD(stk[BootT], d).pc \in {"palloc_proc", "boot_sti"}
<1>1. stk[BootT] \in Seq(Frame)
  BY DEF TypeOK, Thread
<1> QED
  BY <1>1, Depths DEF Booting

(* Code that is not part of the start-up runs after it.                   *)
LEMMA NotBooting ==
    ASSUME TypeOK, BootInv, NEW pc, At(pc), pc \notin BootPcs
    PROVE  ~Booting
BY TopFrame DEF BootInv

(* Once kmain has made the idle thread, it is there for good.             *)
LEMMA IdleUp ==
    ASSUME BootInv, NEW pc, At(pc), pc \notin {"palloc", "palloc_thread"}
    PROVE  IdleT \in tpages
BY DEF BootInv, IdleToCome, At

(* thread_create of the idle thread is over before any other code runs.   *)
LEMMA IdleLinked ==
    ASSUME TypeOK, BootInv, NEW pc, At(pc), pc # "tc_insert",
           NEW u \in Thread, NEW d \in 1..Len(stk[u])
    PROVE  ~(FD(stk[u], d).pc = "tc_insert" /\ FD(stk[u], d).arg = IdleT)
BY TopFrame DEF BootInv

-----------------------------------------------------------------------------
(* Every frame of the next state was there before, or is new.               *)
LEMMA CurCases ==
    ASSUME NEW k, NEW fs, CurReplaced(k, fs), NEW d \in 1..Len(stk'[cur])
    PROVE  \/ /\ d \in 1..Len(stk[cur]) /\ FD(stk'[cur], d) = FD(stk[cur], d) /\ d <= k
           \/ /\ d > k
              /\ \E i \in 1..Len(fs) : FD(stk'[cur], d) = fs[i] /\ i = k + Len(fs) + 1 - d
<2>1. PICK n \in Nat, m \in Nat : n = Len(fs) /\ m = Len(stk[cur])
  BY DEF CurReplaced
<2>2. k \in Nat /\ k <= m /\ d \in 1..(k + n)
  BY <2>1 DEF CurReplaced
<2>3. CASE d <= k
  <3>1. d \in 1..k /\ d \in 1..m
    BY <2>1, <2>2, <2>3
  <3> QED
    BY <2>1, <2>3, <3>1 DEF CurReplaced
<2>4. CASE d > k
  <3>1. d \in (k + 1)..(k + n) /\ k + n + 1 - d \in 1..n
    BY <2>1, <2>2, <2>4
  <3>2. FD(stk'[cur], d) = fs[k + n + 1 - d]
    BY <2>1, <3>1 DEF CurReplaced
  <3> QED
    BY <2>1, <2>4, <3>1, <3>2
<2> QED
  BY <2>2, <2>3, <2>4

(* A frame of a stack after a step was there before, or was pushed.       *)
LEMMA FrameCases ==
    ASSUME NEW k, NEW fs, Replaced(k, fs), NEW u \in Thread, NEW d \in 1..Len(stk'[u])
    PROVE  \/ /\ d \in 1..Len(stk[u]) /\ FD(stk'[u], d) = FD(stk[u], d)
              /\ u = cur => d <= k
           \/ /\ u = cur /\ d > k
              /\ \E i \in 1..Len(fs) : FD(stk'[u], d) = fs[i] /\ i = k + Len(fs) + 1 - d
<1>1. CASE u # cur
  BY <1>1 DEF Replaced
<1>2. CASE u = cur
  BY <1>2, CurCases DEF Replaced
<1> QED
  BY <1>1, <1>2

(* The other way round.                                                     *)
LEMMA FrameStays ==
    ASSUME NEW k, NEW fs, Replaced(k, fs), NEW u \in Thread, NEW d \in 1..Len(stk[u]),
           u = cur => d <= k
    PROVE  d \in 1..Len(stk'[u]) /\ FD(stk'[u], d) = FD(stk[u], d)
<1>1. CASE u # cur
  BY <1>1 DEF Replaced, CurReplaced
<1>2. CASE u = cur
  <2>1. PICK n \in Nat : n = Len(fs)
    BY DEF Replaced, CurReplaced
  <2>2. k \in Nat /\ d \in 1..k /\ d \in 1..(k + n)
    BY <1>2, <2>1 DEF Replaced, CurReplaced
  <2> QED
    BY <1>2, <2>1, <2>2 DEF Replaced, CurReplaced
<1> QED
  BY <1>1, <1>2

(* And what is pushed is there, in its order.                             *)
LEMMA FrameNew ==
    ASSUME NEW k, NEW fs, CurReplaced(k, fs), NEW i \in 1..Len(fs)
    PROVE  /\ k + Len(fs) + 1 - i \in 1..Len(stk'[cur]) /\ k + Len(fs) + 1 - i > k
           /\ FD(stk'[cur], k + Len(fs) + 1 - i) = fs[i]
<1>1. PICK n \in Nat : n = Len(fs)
  BY DEF Replaced, CurReplaced
<1>2. k \in Nat /\ i \in 1..n
  BY <1>1 DEF Replaced, CurReplaced
<1>3. PICK d : d = k + n + 1 - i
  OBVIOUS
<1>4. d \in (k + 1)..(k + n) /\ k + n + 1 - d = i /\ d > k /\ d \in 1..(k + n)
  BY <1>2, <1>3
<1>5. FD(stk'[cur], d) = fs[k + n + 1 - d]
  BY <1>1, <1>4 DEF Replaced, CurReplaced
<1> QED
  BY <1>1, <1>3, <1>4, <1>5 DEF Replaced, CurReplaced

(* Claims survive as long as what they are about does.                      *)
LEMMA ClaimStep ==
    ASSUME ClaimInv, NEW k, NEW fs, Replaced(k, fs),
           \A u \in Thread : Alive(u)' => Alive(u),
           \A i, j \in 1..Len(fs) : fs[i].pc \in Claim /\ fs[j].pc \in Claim => i = j,
           \A i \in 1..Len(fs) : fs[i].pc \in Claim => ClaimOK(fs[i])',
           \A u \in Thread : \A d \in 1..Len(stk[u]) :
              Alive(u) /\ (u = cur => d <= k) /\ FD(stk[u], d).pc \in Claim =>
                 /\ \A i \in 1..Len(fs) : fs[i].pc \in Claim => FD(stk[u], d).arg # fs[i].arg
                 /\ Alive(u)' => /\ FD(stk[u], d).arg \in tpages' \ Listed'
                                 /\ FD(stk[u], d).arg # cur'
                                 /\ state'[FD(stk[u], d).arg] = state[FD(stk[u], d).arg]
    PROVE  ClaimInv'
<1>1. ASSUME NEW u \in Thread, Alive(u)', NEW d \in 1..Len(stk'[u]), NEW g, g = FD(stk'[u], d),
             g.pc \in Claim
      PROVE  ClaimOK(g)'
  <2>1. Alive(u)
    BY <1>1
  <2>2. CASE d \in 1..Len(stk[u]) /\ FD(stk'[u], d) = FD(stk[u], d) /\ (u = cur => d <= k)
    <3>1. PICK f : f = FD(stk[u], d)
      OBVIOUS
    <3>2. ClaimOK(f) /\ f.pc \in Claim /\ g = f
      BY <1>1, <2>1, <2>2, <3>1 DEF ClaimInv
    <3>3. f.arg \in tpages' \ Listed' /\ f.arg # cur' /\ state'[f.arg] = state[f.arg]
      BY <1>1, <2>1, <2>2, <3>1, <3>2
    <3>4. ClaimOK(f)'
      BY <3>2, <3>3 DEF ClaimOK
    <3> QED
      BY <3>2, <3>4
  <2>3. CASE \E i \in 1..Len(fs) : FD(stk'[u], d) = fs[i]
    BY <1>1, <2>3
  <2> QED
    BY <2>2, <2>3, FrameCases
<1>2. ASSUME NEW u \in Thread, NEW v \in Thread, Alive(u)', Alive(v)',
             NEW d \in 1..Len(stk'[u]), NEW e \in 1..Len(stk'[v]),
             FD(stk'[u], d).pc \in Claim, FD(stk'[v], e).pc \in Claim,
             FD(stk'[u], d).arg = FD(stk'[v], e).arg
      PROVE  u = v /\ d = e
  <2>0. Alive(u) /\ Alive(v)
    BY <1>2
  <2> DEFINE Old(w, c) == c \in 1..Len(stk[w]) /\ FD(stk'[w], c) = FD(stk[w], c) /\ (w = cur => c <= k)
             New(w, c) == w = cur /\ \E i \in 1..Len(fs) : FD(stk'[w], c) = fs[i] /\ i = k + Len(fs) + 1 - c
  <2>1. Old(u, d) \/ New(u, d)
    BY FrameCases
  <2>2. Old(v, e) \/ New(v, e)
    BY FrameCases
  <2>3. CASE Old(u, d) /\ Old(v, e)
    BY <1>2, <2>0, <2>3 DEF ClaimInv
  <2>4. CASE New(u, d) /\ New(v, e)
    <3>1. k + Len(fs) + 1 - d = k + Len(fs) + 1 - e /\ u = v /\ d \in 1..Len(stk'[cur])
          /\ e \in 1..Len(stk'[cur])
      BY <1>2, <2>4
    <3>2. k + Len(fs) \in Nat /\ Len(stk'[cur]) = k + Len(fs)
      BY DEF Replaced, CurReplaced
    <3> HIDE DEF Old, New
    <3> QED
      BY <3>1, <3>2
  <2>5. CASE Old(u, d) /\ New(v, e)
    BY <1>2, <2>0, <2>5
  <2>6. CASE New(u, d) /\ Old(v, e)
    BY <1>2, <2>0, <2>6
  <2> QED
    BY <2>1, <2>2, <2>3, <2>4, <2>5, <2>6
<1>3. \A u \in Thread : Alive(u)' => \A d \in 1..Len(stk'[u]) :
        LET g == FD(stk'[u], d) IN g.pc \in Claim =>
            /\ g.arg \in tpages' \ Listed' /\ g.arg # cur'
            /\ state'[g.arg] = IF g.pc = "tc_insert" THEN "READY" ELSE "DYING"
  BY <1>1 DEF ClaimOK
<1> QED
  BY <1>2, <1>3 DEF ClaimInv, ClaimOK

(* A thread in nobody's hand stays so if no frame that takes it is        *)
(* pushed.                                                                *)
LEMMA UnclaimedStep ==
    ASSUME NEW k, NEW fs, Replaced(k, fs), NEW t, Unclaimed(t),
           \A u \in Thread : Alive(u)' => Alive(u),
           \A i \in 1..Len(fs) : fs[i].pc \in Claim => fs[i].arg # t
    PROVE  Unclaimed(t)'
<1> SUFFICES ASSUME NEW u \in Thread, Alive(u)', NEW d \in 1..Len(stk'[u]), FD(stk'[u], d).pc \in Claim
             PROVE  FD(stk'[u], d).arg # t
  BY DEF Unclaimed
<1>1. CASE d \in 1..Len(stk[u]) /\ FD(stk'[u], d) = FD(stk[u], d)
  BY <1>1 DEF Unclaimed
<1>2. CASE \E i \in 1..Len(fs) : FD(stk'[u], d) = fs[i]
  BY <1>2
<1> QED
  BY <1>1, <1>2, FrameCases

(* The CPU stays with its thread: the lemmas below.                         *)
LEMMA ParkedStep ==
    ASSUME Parked, NEW k, NEW fs, Replaced(k, fs), cur' = cur, tpages' \subseteq tpages,
           tpages \subseteq Thread,
           \A t \in Thread \ {cur} : state'[t] \in {"READY", "BLOCKED"} => state[t] \in {"READY", "BLOCKED"}
    PROVE  Parked'
BY DEF Parked, Replaced, CurReplaced

(* The frame of schedule that a thread off its list is in stays.            *)
LEMMA LimboStay ==
    ASSUME LimboInv, NEW k, NEW fs, Replaced(k, fs), cur' = cur, k >= Len(stk[cur]) - 1,
           ~Gone(k, Inside \cup {"schedule", "finish"}),
           \A i \in 1..Len(fs) : fs[i].pc \in Over,
           state'[cur] = "DYING" => state[cur] = "DYING",
           state'[cur] \in {"READY", "BLOCKED"} => state[cur] \in {"READY", "BLOCKED"}
    PROVE  LimboInv'
<1>0. cur \in Thread /\ k \in Nat /\ Len(stk[cur]) \in Nat /\ Claim \cap Over = {}
  BY DEF Replaced, CurReplaced, Claim, Over, Inside
<1>1. ASSUME NEW pcs, Limbo(pcs), pcs \subseteq Inside \cup {"schedule", "finish"} PROVE Limbo(pcs)'
  <2>1. PICK d \in 1..Len(stk[cur]) : /\ FD(stk[cur], d).pc \in pcs
                                      /\ \A e \in (d + 1)..Len(stk[cur]) : FD(stk[cur], e).pc \in Over
    BY <1>1 DEF Limbo
  <2>2. d <= k
    BY <1>0, <1>1, <2>1 DEF Gone
  <2>3. d \in 1..Len(stk'[cur]) /\ FD(stk'[cur], d).pc \in pcs
    BY <1>0, <2>1, <2>2, FrameStays
  <2>4. ASSUME NEW e \in (d + 1)..Len(stk'[cur]) PROVE FD(stk'[cur], e).pc \in Over
    <3>1. e \in 1..Len(stk'[cur]) /\ e > d
      BY <2>1, <2>4, <1>0 DEF Replaced, CurReplaced
    <3>2. CASE e \in 1..Len(stk[cur]) /\ FD(stk'[cur], e) = FD(stk[cur], e)
      BY <1>0, <2>1, <3>1, <3>2
    <3>3. CASE \E i \in 1..Len(fs) : FD(stk'[cur], e) = fs[i]
      BY <3>3
    <3> QED
      BY <1>0, <3>1, <3>2, <3>3, FrameCases
  <2> QED
    BY <2>3, <2>4 DEF Limbo
<1>2. ASSUME state'[cur] = "DYING" PROVE \A d \in 1..Len(stk'[cur]) : FD(stk'[cur], d).pc \notin Claim
  <2> TAKE d \in 1..Len(stk'[cur])
  <2>1. \A e \in 1..Len(stk[cur]) : FD(stk[cur], e).pc \notin Claim
    BY <1>2 DEF LimboInv
  <2>2. CASE d \in 1..Len(stk[cur]) /\ FD(stk'[cur], d) = FD(stk[cur], d)
    BY <2>1, <2>2
  <2>3. CASE \E i \in 1..Len(fs) : FD(stk'[cur], d) = fs[i]
    BY <1>0, <2>3
  <2> QED
    BY <1>0, <2>2, <2>3, FrameCases
<1>3. (state[cur] = "DYING" => Limbo(Inside \cup {"schedule"}))
      /\ (state[cur] \in {"READY", "BLOCKED"} /\ cur # BootT => Limbo(Inside \cup {"schedule", "finish"}))
  BY DEF LimboInv
<1> QED
  BY <1>1, <1>2, <1>3 DEF LimboInv

(* ... or is entered.                                                       *)
LEMMA LimboEnter ==
    ASSUME NEW k, NEW fs, Replaced(k, fs), cur' = cur, NEW j \in 1..Len(fs),
           fs[j].pc \in Inside \cup {"schedule"}, \A i \in 1..(j - 1) : fs[i].pc \in Over,
           \A i \in 1..Len(fs) : fs[i].pc \notin Claim,
           state'[cur] = "DYING" => \A d \in 1..k : FD(stk[cur], d).pc \notin Claim
    PROVE  LimboInv'
<1>0. cur \in Thread /\ k \in Nat /\ Len(fs) \in Nat /\ Len(stk'[cur]) = k + Len(fs)
  BY DEF Replaced, CurReplaced
<1>1. PICK d : d = k + Len(fs) + 1 - j
  OBVIOUS
<1>2. d \in 1..Len(stk'[cur]) /\ FD(stk'[cur], d) = fs[j] /\ d > k
  BY <1>1, FrameNew DEF Replaced
<1>3. ASSUME NEW e \in (d + 1)..Len(stk'[cur]) PROVE FD(stk'[cur], e).pc \in Over
  <2>1. e \in 1..Len(stk'[cur]) /\ e > k
    BY <1>0, <1>2
  <2>a. ~(e <= k)
    BY <1>0, <2>1
  <2>2. PICK i \in 1..Len(fs) : FD(stk'[cur], e) = fs[i] /\ i = k + Len(fs) + 1 - e
    <3>0. PICK u \in Thread : u = cur
      BY <1>0
    <3>a. e \in 1..Len(stk'[u])
      BY <2>1, <3>0
    <3>1. \/ /\ e \in 1..Len(stk[u]) /\ FD(stk'[u], e) = FD(stk[u], e)
             /\ u = cur => e <= k
          \/ /\ u = cur /\ e > k
             /\ \E i \in 1..Len(fs) : FD(stk'[u], e) = fs[i] /\ i = k + Len(fs) + 1 - e
      BY <3>a, FrameCases
    <3> QED
      BY <2>a, <3>0, <3>1
  <2>3. i \in 1..(j - 1)
    BY <1>0, <1>1, <1>3, <2>2
  <2> QED
    BY <2>2, <2>3
<1>4. ASSUME state'[cur] = "DYING" PROVE \A e \in 1..Len(stk'[cur]) : FD(stk'[cur], e).pc \notin Claim
  <2> TAKE e \in 1..Len(stk'[cur])
  <2>1. CASE e \in 1..Len(stk[cur]) /\ FD(stk'[cur], e) = FD(stk[cur], e) /\ e <= k
    BY <1>0, <1>4, <2>1
  <2>2. CASE \E i \in 1..Len(fs) : FD(stk'[cur], e) = fs[i]
    BY <2>2
  <2> QED
    BY <1>0, <2>1, <2>2, FrameCases
<1>5. Limbo(Inside \cup {"schedule"})' /\ Limbo(Inside \cup {"schedule", "finish"})'
  BY <1>2, <1>3 DEF Limbo
<1> QED
  BY <1>4, <1>5 DEF LimboInv

(* No frame of schedule stays, none comes.                                  *)
LEMMA InsideNone ==
    ASSUME NEW k, NEW fs, Replaced(k, fs), \A i \in 1..Len(fs) : fs[i].pc \notin Inside,
           \A u \in Thread : \A d \in 1..Len(stk[u]) : FD(stk[u], d).pc \in Inside => u = cur /\ d > k
    PROVE  \A u \in Thread : \A d \in 1..Len(stk'[u]) : FD(stk'[u], d).pc \notin Inside
<1> SUFFICES ASSUME NEW u \in Thread, NEW d \in 1..Len(stk'[u]), FD(stk'[u], d).pc \in Inside
             PROVE  FALSE
  OBVIOUS
<1>0. k \in Nat
  BY DEF Replaced, CurReplaced
<1>1. CASE d \in 1..Len(stk[u]) /\ FD(stk'[u], d) = FD(stk[u], d) /\ (u = cur => d <= k)
  BY <1>0, <1>1
<1>2. CASE \E i \in 1..Len(fs) : FD(stk'[u], d) = fs[i]
  BY <1>2
<1> QED
  BY <1>1, <1>2, FrameCases

(* A thread in hand stays so until the frame that has it in hand goes on. *)
LEMMA PendingStep ==
    ASSUME NEW k, NEW fs, Replaced(k, fs), cur' = cur, NEW t, Pending(t),
           \A u \in Thread : \A d \in 1..Len(stk[u]) : FD(stk[u], d).pc = "tc_insert" /\ Alive(u) => Alive(u)',
           \A d \in 1..Len(stk[cur]) :
              d > k /\ FD(stk[cur], d).pc \in Inside \cup {"tc_insert"} => FD(stk[cur], d).arg # t
    PROVE  Pending(t)'
<1>0. cur \in Thread /\ k \in Nat
  BY DEF Replaced, CurReplaced
<1>1. CASE \E d \in 1..Len(stk[cur]) : FD(stk[cur], d).pc \in Inside /\ FD(stk[cur], d).arg = t
  <2>1. PICK d \in 1..Len(stk[cur]) : FD(stk[cur], d).pc \in Inside /\ FD(stk[cur], d).arg = t
    BY <1>1
  <2>2. ~(d > k)
    BY <2>1
  <2>3. d <= k
    BY <1>0, <2>2
  <2> QED
    BY <1>0, <2>1, <2>3, FrameStays DEF Pending
<1>2. CASE \E u \in Thread : Alive(u) /\ \E d \in 1..Len(stk[u]) :
             FD(stk[u], d).pc = "tc_insert" /\ FD(stk[u], d).arg = t
  <2>0. PICK u \in Thread : Alive(u) /\ \E d \in 1..Len(stk[u]) :
             FD(stk[u], d).pc = "tc_insert" /\ FD(stk[u], d).arg = t
    BY <1>2
  <2>1. PICK d \in 1..Len(stk[u]) :
             Alive(u) /\ FD(stk[u], d).pc = "tc_insert" /\ FD(stk[u], d).arg = t
    BY <2>0
  <2>a. u = cur => ~(d > k)
    BY <2>1
  <2>2. u = cur => d <= k
    BY <1>0, <2>a
  <2> QED
    BY <2>1, <2>2, FrameStays DEF Pending
<1> QED
  BY <1>1, <1>2 DEF Pending

(* The end of the start-up.                                                 *)
LEMMA BootStep ==
    ASSUME TypeOK, TypeOK', BootInv, NEW k, NEW fs, Replaced(k, fs), cur' = cur,
           IdleT \in tpages' \/ IdleToCome',
           \A u \in Thread : \A d \in 1..Len(stk[u]) :
              (u = cur => d <= k) => ~(FD(stk[u], d).pc = "tc_insert" /\ FD(stk[u], d).arg = IdleT),
           \A i \in 1..Len(fs) : fs[i].pc # "tc_insert",
           cur = BootT => \A i \in 1..Len(fs) :
              /\ fs[i].pc \in {"palloc_proc", "boot_sti"} => Gone(k, {"palloc_proc", "boot_sti"})
              /\ Booting => fs[i].pc \in BootPcs,
           Booting => BootT \notin Listed'
    PROVE  BootInv'
<1>0. BootT \in Thread /\ cur \in Thread /\ Len(stk[cur]) \in Nat /\ k \in Nat
  BY DEF Replaced, CurReplaced, Thread
<1>1. ASSUME NEW u \in Thread, NEW d \in 1..Len(stk'[u])
      PROVE  ~(FD(stk'[u], d).pc = "tc_insert" /\ FD(stk'[u], d).arg = IdleT)
  BY FrameCases
<1>2. Booting' => Booting
  <2> SUFFICES ASSUME Booting' PROVE Booting
    OBVIOUS
  <2>1. PICK d \in 1..Len(stk'[BootT]) : FD(stk'[BootT], d).pc \in {"palloc_proc", "boot_sti"}
    <3>1. stk'[BootT] \in Seq(Frame)
      BY <1>0 DEF TypeOK
    <3>2. \E i \in 1..Len(stk'[BootT]) : stk'[BootT][i].pc \in {"palloc_proc", "boot_sti"}
      BY DEF Booting
    <3> QED
      BY <3>1, <3>2, Depths
  <2>2. CASE d \in 1..Len(stk[BootT]) /\ FD(stk'[BootT], d) = FD(stk[BootT], d)
    BY <2>1, <2>2, BootingIs
  <2>3. CASE BootT = cur /\ \E i \in 1..Len(fs) : FD(stk'[BootT], d) = fs[i]
    <3>1. Gone(k, {"palloc_proc", "boot_sti"})
      BY <2>1, <2>3
    <3>2. k + 1 \in 1..Len(stk[BootT]) /\ FD(stk[BootT], k + 1).pc \in {"palloc_proc", "boot_sti"}
      BY <1>0, <2>3, <3>1 DEF Gone
    <3> QED
      BY <3>2, BootingIs
  <2> QED
    BY <1>0, <2>2, <2>3, FrameCases
<1>3. ASSUME Booting' PROVE \A d \in 1..Len(stk'[BootT]) : FD(stk'[BootT], d).pc \in BootPcs
  <2> TAKE d \in 1..Len(stk'[BootT])
  <2>1. cur = BootT /\ Booting /\ \A e \in 1..Len(stk[BootT]) : FD(stk[BootT], e).pc \in BootPcs
    BY <1>2, <1>3 DEF BootInv
  <2>2. CASE d \in 1..Len(stk[BootT]) /\ FD(stk'[BootT], d) = FD(stk[BootT], d)
    BY <2>1, <2>2
  <2>3. CASE \E i \in 1..Len(fs) : FD(stk'[BootT], d) = fs[i]
    BY <2>1, <2>3
  <2> QED
    BY <1>0, <2>2, <2>3, FrameCases
<1>4. Booting' => cur' = BootT /\ BootT \notin Listed'
  BY <1>2 DEF BootInv
<1> QED
  BY <1>1, <1>3, <1>4 DEF BootInv

-----------------------------------------------------------------------------
(* The steps, one lemma CodeCore for each segment of code: steps that     *)
(* move no thread.                                                        *)

(* A segment that moves on leaves nothing but its own frame.              *)
LEMMA GoneIs ==
    ASSUME TypeOK, NEW pc, At(pc), NEW pcs
    PROVE  Gone(Len(stk[cur]) - 1, pcs) <=> pc \in pcs
<1>1. PICK m \in Nat \ {0} : m = Len(stk[cur])
  BY TopFrame
<1>2. m - 1 < m /\ m - 1 + 1 = m
  BY <1>1
<1> QED
  BY <1>1, <1>2, TopFrame DEF Gone

(* The steps that leave the threads, their lists and their tables alone.    *)
Quiet(pc, fs) ==
    /\ At(pc) /\ Goto(fs) /\ fs \in Seq(Frame)
    /\ pc \notin Inside \cup Claim \cup {"unblock", "schedule", "finish", "exit"}
    /\ cur' = cur /\ state' = state /\ tpages' = tpages /\ parent' = parent
    /\ \A p \in CmdProc : \A i \in Slot : threads'[p][i] \in {threads[p][i], NULL}
    /\ Linked(heap') /\ \A l \in Queue : Held(heap', l) = Held(heap, l)
    /\ Fits(Len(stk[cur]) - 1, fs)
    /\ \A i \in 1..Len(fs) :
         /\ fs[i].pc \notin Inside \cup Claim
         /\ pc \in {"notify", "irq_return"} => fs[i].pc \in Over
         /\ fs[i].pc \in {"palloc_proc", "boot_sti"} /\ cur = BootT => pc \in {"palloc_proc", "boot_sti"}
         /\ pc \in BootPcs /\ cur = BootT => fs[i].pc \in BootPcs
    /\ pc = "irq_return" => fs = <<>>
    /\ IdleT \in tpages \/ IdleToCome'

(* Which segment runs after a step of the same thread.                    *)
LEMMA TopNext ==
    ASSUME TypeOK', cur' = cur, Len(stk'[cur]) \in Nat \ {0}
    PROVE  /\ Top' = FD(stk'[cur], Len(stk'[cur]))
           /\ \A pc : At(pc)' <=> FD(stk'[cur], Len(stk'[cur])).pc = pc
<1>1. PICK s \in Seq(Frame) : s = stk'[cur]
  BY DEF TypeOK
<1>2. Len(s) \in Nat /\ Len(s) > 0 /\ s # <<>> /\ Len(s) + 1 - Len(s) = 1
  BY <1>1
<1>3. Top' = s[1]
  BY <1>1, <1>2 DEF Top
<1>4. Top' = FD(s, Len(s))
  BY <1>2, <1>3 DEF FD
<1>5. Len(stk'[cur']) > 0
  BY <1>1, <1>2
<1> QED
  BY <1>1, <1>4, <1>5 DEF At

(* Frames below the one that gave way are still there.                    *)
LEMMA CurHasStep ==
    ASSUME NEW k, NEW fs, Replaced(k, fs), cur' = cur, k + 1 = Len(stk[cur]), NEW pcs, CurHas(pcs),
           ~Gone(k, pcs)
    PROVE  CurHas(pcs)'
<1>1. PICK d \in 1..Len(stk[cur]) : FD(stk[cur], d).pc \in pcs
  BY DEF CurHas
<1>2. cur \in Thread /\ k \in Nat
  BY DEF Replaced, CurReplaced
<1>3. d <= k
  BY <1>1, <1>2 DEF Gone
<1>4. d \in 1..Len(stk'[cur]) /\ FD(stk'[cur], d) = FD(stk[cur], d)
  BY <1>1, <1>2, <1>3, FrameStays
<1> QED
  BY <1>1, <1>4 DEF CurHas

(* If no list of the scheduler changes, neither do the sets of threads on *)
(* them.                                                                  *)
LEMMA SameListed ==
    ASSUME \A l \in Queue : Held(heap', l) = Held(heap, l)
    PROVE  Ready' = Ready /\ Blocked' = Blocked /\ Dying' = Dying /\ Listed' = Listed
BY DEF Ready, Blocked, Dying, Listed, Queue, Held

(* A segment of code that touches neither lists, states nor pages of      *)
(* threads preserves the invariant.                                       *)
LEMMA QuietStep ==
    ASSUME TypeOK, TypeOK', Core, NEW pc, NEW fs, Quiet(pc, fs)
    PROVE  Core'
<1> PICK k : k = Len(stk[cur]) - 1
  OBVIOUS
<1>0. /\ At(pc) /\ cur' = cur /\ state' = state /\ tpages' = tpages /\ parent' = parent
      /\ Fits(k, fs) /\ pc \notin Inside \cup Claim \cup {"unblock", "schedule", "finish", "exit"}
  BY DEF Quiet
<1>1. Replaced(k, fs)
  BY GotoReplaces DEF Quiet
<1>2. /\ cur \in Thread /\ Len(stk[cur]) \in Nat \ {0} /\ FD(stk[cur], Len(stk[cur])) = Top /\ Top.pc = pc
      /\ k \in Nat /\ k + 1 = Len(stk[cur]) /\ tpages \subseteq Thread
  BY <1>0, TopFrame DEF TypeOK
<1>3. Ready' = Ready /\ Blocked' = Blocked /\ Dying' = Dying /\ Listed' = Listed
  BY SameListed DEF Quiet
<1>4. \A u : Alive(u)' <=> Alive(u)
  BY <1>0 DEF Alive
<1>5. Lasting
  BY <1>0 DEF Lasting, Lasts, Created
<1>6. \A d \in 1..Len(stk[cur]) : d > k => d = Len(stk[cur]) /\ FD(stk[cur], d).pc = pc
  BY <1>2
<1>7. StackInv /\ Parked /\ LimboInv /\ ClaimInv /\ InsideInv /\ CurListed /\ StateInv /\ Tables /\ BootInv
  BY DEF Core, MoveInv
<1>8. StackInv'
  BY <1>0, <1>1, <1>5, <1>7, StackStep
<1>9. Parked'
  BY <1>0, <1>1, <1>2, <1>7, ParkedStep
<1>10. LimboInv'
  <2>1. CASE pc \in {"notify", "irq_return"}
    <3>1. ~Gone(k, Inside \cup {"schedule", "finish"})
      BY <1>0, GoneIs
    <3>2. \A i \in 1..Len(fs) : fs[i].pc \in Over
      BY <2>1 DEF Quiet
    <3>3. k >= Len(stk[cur]) - 1 /\ state'[cur] = state[cur]
      BY <1>0, <1>2
    <3> QED
      BY <1>0, <1>1, <1>7, <3>1, <3>2, <3>3, LimboStay
  <2>2. CASE pc \notin {"notify", "irq_return"}
    <3>1. pc \notin Over
      BY <1>0, <2>2 DEF Over
    <3>2. state[cur] # "DYING" /\ (state[cur] = "RUNNING" \/ cur = BootT)
      BY <1>0, <1>7, <3>1, NotOver
    <3> QED
      BY <1>0, <3>2 DEF LimboInv
  <2> QED
    BY <2>1, <2>2
<1>11. ClaimInv'
  <2>1. \A i \in 1..Len(fs) : fs[i].pc \notin Claim
    BY DEF Quiet
  <2>2. \A u \in Thread : \A d \in 1..Len(stk[u]) :
              Alive(u) /\ (u = cur => d <= k) /\ FD(stk[u], d).pc \in Claim =>
                 /\ FD(stk[u], d).arg \in tpages' \ Listed' /\ FD(stk[u], d).arg # cur'
                 /\ state'[FD(stk[u], d).arg] = state[FD(stk[u], d).arg]
    BY <1>0, <1>3, <1>7 DEF ClaimInv, ClaimOK
  <2> QED
    BY <1>1, <1>4, <1>7, <2>1, <2>2, ClaimStep
<1>12. InsideInv' /\ CurListed'
  <2>1. \A i \in 1..Len(fs) : fs[i].pc \notin Inside
    BY DEF Quiet
  <2>2. CASE pc # "irq_return"
    <3>1. /\ \A u \in Thread : \A d \in 1..Len(stk[u]) : FD(stk[u], d).pc \notin Inside
          /\ cur \notin Dying /\ cur \notin Blocked
      BY <1>0, <1>7, <2>2, NoInside
    <3>2. \A u \in Thread : \A d \in 1..Len(stk'[u]) : FD(stk'[u], d).pc \notin Inside
      BY <1>1, <2>1, <3>1, InsideNone
    <3>3. InsideInv'
      BY <3>2 DEF InsideInv
    <3> QED
      BY <1>0, <1>3, <3>1, <3>3 DEF CurListed
  <2>3. CASE pc = "irq_return"
    <3>0. Len(fs) = 0 /\ Len(stk'[cur]) = k
      BY <1>1, <2>3 DEF Quiet, Replaced, CurReplaced
    <3>1. ASSUME NEW u \in Thread, NEW d \in 1..Len(stk'[u]), NEW f, f = FD(stk'[u], d), f.pc \in Inside
          PROVE  u = cur /\ InsideOK(f, d)'
      <4>1. d \in 1..Len(stk[u]) /\ FD(stk[u], d) = f
        BY <3>0, <3>1, <1>1, FrameCases
      <4>2. u = cur /\ InsideOK(f, d) /\ d = k /\ ~iflag
        BY <1>0, <1>2, <1>7, <2>3, <3>1, <4>1, InsideAt
      <4>3. Unclaimed(f.arg)'
        <5>1. \A i \in 1..Len(fs) : fs[i].pc \in Claim => fs[i].arg # f.arg
          BY <3>0
        <5>2. Unclaimed(f.arg)
          BY <4>2 DEF InsideOK
        <5> QED
          BY <1>1, <1>4, <5>1, <5>2, UnclaimedStep
      <4>4. Top' = f
        <5>1. Len(stk'[cur]) \in Nat \ {0} /\ FD(stk'[cur], Len(stk'[cur])) = f
          <6>1. k \in 1..Len(stk'[u]) /\ FD(stk'[u], k) = f /\ u = cur
            BY <3>1, <4>2
          <6>2. k \in Nat /\ 1 <= k
            BY <1>2, <3>0, <6>1
          <6> QED
            BY ONLY <3>0, <6>1, <6>2
        <5> QED
          BY <1>0, <5>1, TopNext
      <4>5. Top'.pc # "unblock" /\ Top.pc # "unblock"
        BY <1>2, <2>3, <3>1, <4>4 DEF Inside
      <4> QED
        BY <1>0, <1>3, <3>0, <4>2, <4>3, <4>5 DEF InsideOK
    <3>2. InsideInv'
      BY <1>0, <3>1 DEF InsideInv
    <3>3. CurListed'
      <4>1. ~Gone(k, Inside) /\ ~Gone(k, {"self_dying", "switch"})
        BY <1>0, <2>3, GoneIs
      <4>2. ~At("schedule")
        BY <1>2, <2>3 DEF At
      <4>3. CurHas(Inside) => CurHas(Inside)'
        BY <1>0, <1>1, <1>2, <4>1, CurHasStep
      <4>4. CurHas({"self_dying", "switch"}) => CurHas({"self_dying", "switch"})'
        BY <1>0, <1>1, <1>2, <4>1, CurHasStep
      <4> QED
        BY <1>0, <1>3, <1>7, <4>2, <4>3, <4>4 DEF CurListed
    <3> QED
      BY <3>2, <3>3
  <2> QED
    BY <2>2, <2>3
<1>13. StateInv'
  <2>1. \A t \in tpages : Pending(t) => Pending(t)'
    <3> SUFFICES ASSUME NEW t \in tpages, Pending(t) PROVE Pending(t)'
      OBVIOUS
    <3>1. \A d \in 1..Len(stk[cur]) : d > k => FD(stk[cur], d).pc \notin Inside \cup {"tc_insert"}
      BY <1>0, <1>6 DEF Claim
    <3> QED
      BY <1>0, <1>1, <1>4, <3>1, PendingStep
  <2> QED
    BY <1>0, <1>3, <1>7, <2>1 DEF StateInv
<1>14. Tables'
  <2>1. \A p \in CmdProc : \A i \in Slot : threads'[p][i] \in {threads[p][i], NULL}
    BY DEF Quiet
  <2> QED
    BY <1>0, <1>7, <2>1 DEF Tables, Created
<1>15. BootInv'
  <2>1. IdleT \in tpages' \/ IdleToCome'
    BY DEF Quiet
  <2>2. \A u \in Thread : \A d \in 1..Len(stk[u]) :
          ~(FD(stk[u], d).pc = "tc_insert" /\ FD(stk[u], d).arg = IdleT)
    BY <1>0, <1>7, IdleLinked DEF Claim
  <2>3. \A i \in 1..Len(fs) : fs[i].pc # "tc_insert"
    BY DEF Quiet, Claim
  <2>4. cur = BootT => \A i \in 1..Len(fs) :
              /\ fs[i].pc \in {"palloc_proc", "boot_sti"} => Gone(k, {"palloc_proc", "boot_sti"})
              /\ Booting => fs[i].pc \in BootPcs
    <3>1. Gone(k, {"palloc_proc", "boot_sti"}) <=> pc \in {"palloc_proc", "boot_sti"}
      BY <1>0, GoneIs
    <3>2. Booting => pc \in BootPcs
      BY <1>0, <1>7, NotBooting
    <3> QED
      BY <3>1, <3>2 DEF Quiet
  <2>5. Booting => BootT \notin Listed'
    BY <1>3, <1>7 DEF BootInv
  <2> QED
    BY <1>0, <1>1, <1>7, <2>1, <2>2, <2>3, <2>4, <2>5, BootStep
<1>16. Linked(heap)'
  BY DEF Quiet
<1> QED
  BY <1>8, <1>9, <1>10, <1>11, <1>12, <1>13, <1>14, <1>15, <1>16 DEF Core, MoveInv

(* Nothing happens to the threads, their lists and their tables.            *)
Still ==
    /\ cur' = cur /\ state' = state /\ tpages' = tpages /\ parent' = parent
    /\ \A p \in CmdProc : \A i \in Slot : threads'[p][i] \in {threads[p][i], NULL}
    /\ Linked(heap') /\ \A l \in Queue : Held(heap', l) = Held(heap, l)

(* The segments that are followed by nothing else.                          *)
LEMMA PopCore ==
    ASSUME TypeOK, TypeOK', Core, NEW pc, At(pc), Goto(<<>>), Still,
           pc \notin Inside \cup Claim \cup {"unblock", "schedule", "finish", "exit", "execute", "idle"},
           pc \in {"palloc", "palloc_thread"} => IdleT \in tpages \/ IdleToCome'
    PROVE  Core'
<1>1. <<>> \in Seq(Frame) /\ Len(<<>>) = 0
  OBVIOUS
<1>2. PICK fs : fs = <<>>
  OBVIOUS
<1>3. Fits(Len(stk[cur]) - 1, fs)
  BY <1>1, <1>2, GoneIs DEF Fits
<1>4. IdleT \in tpages \/ IdleToCome'
  BY IdleUp DEF Core
<1>5. Quiet(pc, fs)
  BY <1>1, <1>2, <1>3, <1>4 DEF Quiet, Still
<1> QED
  BY <1>5, QuietStep

(* The segments that are followed by frames fs.                             *)
LEMMA PushCore ==
    ASSUME TypeOK, TypeOK', Core, NEW pc, At(pc), NEW fs \in Seq(Frame), Goto(fs), Still,
           pc \notin Inside \cup Claim \cup {"unblock", "schedule", "finish", "exit", "irq_return",
                                             "palloc", "palloc_thread"},
           \A i \in 1..Len(fs) :
             /\ FrameOK(cur, fs[i]) /\ fs[i].pc \notin {"idle_made", "null_return"} \cup Inside \cup Claim
             /\ fs[i].pc \in Deep => pc \in Deep /\ \A j \in i..Len(fs) : fs[j].pc \in Deep
             /\ fs[i].pc = "exit" /\ cur = IdleT => i > 1 /\ fs[i - 1].pc = "idle"
             /\ pc = "notify" => fs[i].pc \in Over
             /\ fs[i].pc \in {"palloc_proc", "boot_sti"} /\ cur = BootT => pc \in {"palloc_proc", "boot_sti"}
             /\ pc \in BootPcs /\ cur = BootT => fs[i].pc \in BootPcs,
           pc = "execute" => Len(fs) > 0 /\ fs[Len(fs)].pc = "exit",
           pc = "idle" => Len(fs) > 0 /\ fs[Len(fs)].pc = "idle"
    PROVE  Core'
<1>1. Fits(Len(stk[cur]) - 1, fs)
  BY GoneIs DEF Fits
<1>2. IdleT \in tpages
  BY IdleUp DEF Core
<1>3. Quiet(pc, fs)
  BY <1>1, <1>2 DEF Quiet, Still
<1> QED
  BY <1>3, QuietStep

(* The heap: left alone, or changed in lists of other nodes.                *)
LEMMA StillHeap ==
    ASSUME Core, cur' = cur, state' = state, tpages' = tpages, parent' = parent,
           \A p \in CmdProc : \A i \in Slot : threads'[p][i] \in {threads[p][i], NULL},
           heap' = heap \/ Within(heap, heap', Foreign)
    PROVE  Still
<1>1. Linked(heap)
  BY DEF Core
<1>2. CASE heap' = heap
  BY <1>1, <1>2 DEF Still
<1>3. CASE Within(heap, heap', Foreign)
  BY <1>1, <1>3, ForeignStep DEF Still
<1> QED
  BY <1>2, <1>3

(* The lists of processes and of waiters are closed among themselves.     *)
LEMMA ForeignHeap ==
    ASSUME Core
    PROVE  heap \in L!Heap /\ Closed(heap, Foreign) /\ Foreign \in SUBSET Node
BY LinkedHeap, Places DEF Core, Linked

(* kmain linking init into all_procs leaves the lists of the scheduler    *)
(* alone.                                                                 *)
LEMMA LinkInitCore == ASSUME TypeOK, TypeOK', Core, LinkInit PROVE Core'
<1>1. L!HeadNode("all") \in Foreign /\ PNode(InitP) \in Foreign
  BY Places DEF ListId, Queue, Proc
<1>2. Within(heap, heap', Foreign)
  BY <1>1, ForeignHeap, InsertWithin DEF LinkInit, L!list_insert
<1>3. Still
  BY <1>2, StillHeap DEF LinkInit, memory, cpu
<1> QED
  BY <1>3, PopCore DEF LinkInit, Inside, Claim

(* kmain enabling interrupts hands nothing to anybody.                    *)
LEMMA BootStiCore == ASSUME TypeOK, TypeOK', Core, BootSti PROVE Core'
<1>1. Still
  BY StillHeap DEF BootSti, tables, memory
<1> QED
  BY <1>1, PopCore DEF BootSti, Inside, Claim

(* proc_create setting num_live touches no thread.                        *)
LEMMA NumLiveSetCore == ASSUME TypeOK, TypeOK', Core, NumLiveSet PROVE Core'
<1>1. Still
  BY StillHeap DEF NumLiveSet, memory, cpu
<1> QED
  BY <1>1, PopCore DEF NumLiveSet, Inside, Claim

(* proc_create linking the process into all_procs leaves the lists of the *)
(* scheduler alone.                                                       *)
LEMMA LinkProcCore == ASSUME TypeOK, TypeOK', Core, LinkProc PROVE Core'
<1>1. L!TailNode("all") \in Foreign /\ PNode(Top.arg) \in Foreign
  BY Places, TopProc DEF ListId, Queue, LinkProc, OnProc
<1>2. Within(heap, heap', Foreign)
  BY <1>1, ForeignHeap, InsertWithin DEF LinkProc
<1>3. Still
  BY <1>2, StillHeap DEF LinkProc, memory, cpu
<1> QED
  BY <1>3, PopCore DEF LinkProc, Inside, Claim

(* pfree of the page of a process frees no thread.                        *)
LEMMA PfreeProcCore == ASSUME TypeOK, TypeOK', Core, PfreeProc PROVE Core'
<1>1. Still
  BY StillHeap DEF PfreeProc, tables, cpu
<1> QED
  BY <1>1, PopCore DEF PfreeProc, Inside, Claim

(* thread_wait reading the return value moves no thread.                  *)
LEMMA WaitRetCore == ASSUME TypeOK, TypeOK', Core, WaitRet PROVE Core'
<1>1. Still
  BY StillHeap DEF WaitRet, tables, memory, cpu
<1> QED
  BY <1>1, PopCore DEF WaitRet, Inside, Claim

(* thread_cleanup taking the process off all_procs leaves the lists of    *)
(* the scheduler alone.                                                   *)
LEMMA ProcCleanupCore == ASSUME TypeOK, TypeOK', Core, ProcCleanup PROVE Core'
<1>1. PNode(Top.arg) \in Foreign
  BY Places, TopProc DEF ProcCleanup, OnProc
<1>2. Within(heap, heap', Foreign)
  BY <1>1, ForeignHeap, DeleteWithin DEF ProcCleanup, Unlink
<1>3. Still
  BY <1>2, StillHeap DEF ProcCleanup, tables, memory, cpu
<1> QED
  BY <1>3, PopCore DEF ProcCleanup, Inside, Claim

(* finish_schedule enabling interrupts moves no thread.                   *)
LEMMA StiCore == ASSUME TypeOK, TypeOK', Core, Sti PROVE Core'
<1>1. Still
  BY StillHeap DEF Sti, tables, memory
<1> QED
  BY <1>1, PopCore DEF Sti, Inside, Claim

(* finish_schedule acknowledging the timer moves no thread.               *)
LEMMA FirstEoiCore == ASSUME TypeOK, TypeOK', Core, FirstEoi PROVE Core'
<1>1. Still
  BY StillHeap DEF FirstEoi, tables, memory
<1> QED
  BY <1>1, PopCore DEF FirstEoi, Inside, Claim

(* The return from the interrupt handler moves no thread.                 *)
LEMMA IrqReturnCore == ASSUME TypeOK, TypeOK', Core, IrqReturn PROVE Core'
<1>1. Still
  BY StillHeap DEF IrqReturn, tables, memory
<1> QED
  BY <1>1, PopCore DEF IrqReturn, Inside, Claim

(* A command returning to thread_execute moves no thread.                 *)
LEMMA BodyReturnCore == ASSUME TypeOK, TypeOK', Core, BodyReturn PROVE Core'
<1>1. Still
  BY StillHeap DEF BodyReturn, tables, memory, cpu
<1> QED
  BY <1>1, PopCore DEF BodyReturn, Inside, Claim

(* proc_create_thread counting the new thread in num_live moves no        *)
(* thread.                                                                *)
LEMMA LiveIncCore == ASSUME TypeOK, TypeOK', Core, LiveInc PROVE Core'
<1>1. Still
  BY StillHeap DEF LiveInc, memory, cpu
<1> QED
  BY <1>1, PopCore DEF LiveInc, Inside, Claim

(* palloc taking the spin lock moves no thread.                           *)
LEMMA PallocAcquireCore == ASSUME TypeOK, TypeOK', Core, PallocAcquire PROVE Core'
<1>1. Still
  BY StillHeap DEF PallocAcquire, tables, cpu
<1>2. ASSUME IdleT \notin tpages PROVE IdleToCome'
  <2>1. /\ cur = BootT /\ ~iflag /\ At("palloc") /\ Len(stk[cur]) > 1
        /\ FD(stk[cur], Len(stk[cur]) - 1).pc = "palloc_thread"
        /\ FD(stk[cur], Len(stk[cur]) - 1).arg = InitP
    BY <1>2 DEF Core, BootInv, IdleToCome, PallocAcquire, At
  <2>2. cur' = cur /\ iflag' = iflag
    BY DEF PallocAcquire, cpu
  <2>3. PICK k : k = Len(stk[cur]) - 1
    OBVIOUS
  <2>0. <<>> \in Seq(Frame)
    OBVIOUS
  <2>a. PICK fs \in Seq(Frame) : fs = <<>>
    BY <2>0
  <2>b. At("palloc") /\ Goto(fs)
    BY <2>a DEF PallocAcquire
  <2>4. Replaced(k, <<>>)
    BY <2>a, <2>b, <2>3, GotoReplaces
  <2>5. k \in Nat \ {0} /\ Len(stk'[cur]) = k /\ FD(stk'[cur], k) = FD(stk[cur], k)
    <3>1. Len(<<>>) = 0 /\ Len(stk[cur]) \in Nat /\ k \in Nat
      BY <2>4 DEF Replaced, CurReplaced
    <3>2. k > 0 /\ k + Len(<<>>) = k
      BY <2>1, <2>3, <3>1
    <3> QED
      BY <2>4, <3>1, <3>2 DEF Replaced, CurReplaced
  <2>6. Top' = FD(stk[cur], k) /\ At("palloc_thread")'
    BY <2>1, <2>2, <2>3, <2>5, TopNext
  <2> QED
    BY <2>1, <2>2, <2>3, <2>6 DEF IdleToCome
<1> QED
  BY <1>1, <1>2, PopCore DEF PallocAcquire, Inside, Claim

(* thread_create giving up for want of a page moves no thread.            *)
LEMMA NoThreadCore ==
    ASSUME TypeOK, TypeOK', Core, PallocThread, NoThread, ThreadPages(Top.arg) \subseteq tpages
    PROVE  Core'
<1>1. Still
  BY StillHeap DEF PallocThread, NoThread, cpu
<1>2. IdleT \in tpages
  <2> SUFFICES ASSUME IdleT \notin tpages PROVE FALSE
    OBVIOUS
  <2>1. At("palloc_thread") /\ IdleToCome
    BY DEF PallocThread, Core, BootInv
  <2>2. Top.arg = InitP
    BY <2>1 DEF IdleToCome, At
  <2>3. ThreadPages(InitP) = {IdleT}
    BY ConstantsAssumption DEF ThreadPages
  <2>4. ThreadPages(InitP) \subseteq tpages
    BY <2>2
  <2> QED
    BY <2>3, <2>4
<1> QED
  BY <1>1, <1>2, PopCore DEF PallocThread, NoThread, Inside, Claim

(* What a frame f may be put on the stack by segment pc for.                *)
Follows(pc, f) ==
    /\ FrameOK(cur, f) /\ f.pc \notin {"idle_made", "null_return"} \cup Inside \cup Claim
    /\ f.pc \in Deep => pc \in Deep
    /\ pc = "notify" => f.pc \in Over
    /\ f.pc \in {"palloc_proc", "boot_sti"} /\ cur = BootT => pc \in {"palloc_proc", "boot_sti"}
    /\ pc \in BootPcs /\ cur = BootT => f.pc \in BootPcs

NoPush == Inside \cup Claim \cup {"unblock", "schedule", "finish", "exit", "irq_return",
                                  "palloc", "palloc_thread"}

(* The segments that are followed by one frame ...                          *)
LEMMA PushOne ==
    ASSUME TypeOK, TypeOK', Core, NEW pc, At(pc), NEW f \in Frame, Goto(<<f>>), Still,
           pc \notin NoPush, Follows(pc, f), f.pc = "exit" => cur # IdleT,
           pc = "execute" => f.pc = "exit", pc = "idle" => f.pc = "idle"
    PROVE  Core'
<1>1. <<f>> \in Seq(Frame)
  OBVIOUS
<1>2. PICK fs \in Seq(Frame) : fs = <<f>>
  BY <1>1
<1>3. Len(fs) = 1 /\ fs[1] = f /\ Goto(fs)
  BY <1>2
<1>4. \A i \in 1..Len(fs) : i = 1 /\ fs[i] = f
  BY <1>3
<1>5. \A i \in 1..Len(fs) : \A j \in i..Len(fs) : fs[j] = f
  BY <1>3
<1>6. \A i \in 1..Len(fs) :
        /\ FrameOK(cur, fs[i]) /\ fs[i].pc \notin {"idle_made", "null_return"} \cup Inside \cup Claim
        /\ fs[i].pc \in Deep => pc \in Deep /\ \A j \in i..Len(fs) : fs[j].pc \in Deep
        /\ fs[i].pc = "exit" /\ cur = IdleT => i > 1 /\ fs[i - 1].pc = "idle"
        /\ pc = "notify" => fs[i].pc \in Over
        /\ fs[i].pc \in {"palloc_proc", "boot_sti"} /\ cur = BootT => pc \in {"palloc_proc", "boot_sti"}
        /\ pc \in BootPcs /\ cur = BootT => fs[i].pc \in BootPcs
  BY <1>4, <1>5 DEF Follows
<1>7. /\ pc = "execute" => Len(fs) > 0 /\ fs[Len(fs)].pc = "exit"
      /\ pc = "idle" => Len(fs) > 0 /\ fs[Len(fs)].pc = "idle"
  BY <1>3
<1> QED
  BY <1>3, <1>6, <1>7, PushCore DEF NoPush

(* ... by two ...                                                           *)
LEMMA PushTwo ==
    ASSUME TypeOK, TypeOK', Core, NEW pc, At(pc), NEW f \in Frame, NEW g \in Frame,
           Goto(<<f, g>>), Still, pc \notin NoPush, Follows(pc, f), Follows(pc, g),
           f.pc \in Deep => g.pc \in Deep, f.pc = "exit" => cur # IdleT,
           g.pc = "exit" /\ cur = IdleT => f.pc = "idle",
           pc = "execute" => g.pc = "exit", pc = "idle" => g.pc = "idle"
    PROVE  Core'
<1>1. <<f, g>> \in Seq(Frame)
  OBVIOUS
<1>2. PICK fs \in Seq(Frame) : fs = <<f, g>>
  BY <1>1
<1>3. Len(fs) = 2 /\ fs[1] = f /\ fs[2] = g /\ Goto(fs)
  BY <1>2
<1>4. \A i \in 1..Len(fs) : (i = 1 /\ fs[i] = f) \/ (i = 2 /\ fs[i] = g /\ fs[i - 1] = f)
  BY <1>3
<1>5. \A i \in 1..Len(fs) : fs[i].pc \in Deep => \A j \in i..Len(fs) : fs[j].pc \in Deep
  BY <1>3
<1>6. \A i \in 1..Len(fs) : fs[i].pc = "exit" /\ cur = IdleT => i > 1 /\ fs[i - 1].pc = "idle"
  BY <1>4
<1>7. \A i \in 1..Len(fs) : Follows(pc, fs[i])
  BY <1>4
<1>8. pc = "execute" => Len(fs) > 0 /\ fs[Len(fs)].pc = "exit"
  BY <1>3
<1>9. pc = "idle" => Len(fs) > 0 /\ fs[Len(fs)].pc = "idle"
  BY <1>3
<1>10. \A i \in 1..Len(fs) :
        /\ FrameOK(cur, fs[i]) /\ fs[i].pc \notin {"idle_made", "null_return"} \cup Inside \cup Claim
        /\ fs[i].pc \in Deep => pc \in Deep /\ \A j \in i..Len(fs) : fs[j].pc \in Deep
        /\ fs[i].pc = "exit" /\ cur = IdleT => i > 1 /\ fs[i - 1].pc = "idle"
        /\ pc = "notify" => fs[i].pc \in Over
        /\ fs[i].pc \in {"palloc_proc", "boot_sti"} /\ cur = BootT => pc \in {"palloc_proc", "boot_sti"}
        /\ pc \in BootPcs /\ cur = BootT => fs[i].pc \in BootPcs
  BY <1>5, <1>6, <1>7 DEF Follows
<1> QED
  BY <1>3, <1>8, <1>9, <1>10, PushCore DEF NoPush

(* ... and by three.                                                        *)
LEMMA PushThree ==
    ASSUME TypeOK, TypeOK', Core, NEW pc, At(pc), NEW f \in Frame, NEW g \in Frame, NEW h \in Frame,
           Goto(<<f, g, h>>), Still, pc \notin NoPush \cup {"execute", "idle"},
           Follows(pc, f), Follows(pc, g), Follows(pc, h),
           f.pc \in Deep => g.pc \in Deep, g.pc \in Deep => h.pc \in Deep,
           "exit" \notin {f.pc, g.pc, h.pc}
    PROVE  Core'
<1>1. <<f, g, h>> \in Seq(Frame)
  OBVIOUS
<1>2. PICK fs \in Seq(Frame) : fs = <<f, g, h>>
  BY <1>1
<1>3. Len(fs) = 3 /\ fs[1] = f /\ fs[2] = g /\ fs[3] = h /\ Goto(fs)
  BY <1>2
<1>4. \A i \in 1..Len(fs) : (i = 1 /\ fs[i] = f) \/ (i = 2 /\ fs[i] = g) \/ (i = 3 /\ fs[i] = h)
  BY <1>3
<1>5. \A i \in 1..Len(fs) : fs[i].pc \in Deep => \A j \in i..Len(fs) : fs[j].pc \in Deep
  BY <1>3
<1> QED
  BY <1>3, <1>4, <1>5, PushCore DEF Follows, NoPush

(* The frame that runs works on what its function was called with.        *)
LEMMA TopOK ==
    ASSUME TypeOK, Core, NEW pc, At(pc)
    PROVE  FrameOK(cur, Top) /\ Top.pc = pc
<1>1. cur \in Thread /\ Len(stk[cur]) \in 1..Len(stk[cur])
  BY TopFrame
<1> QED
  BY <1>1, TopFrame DEF Core, StackInv, StackOK

(* kmain yielding, once it has nothing left to do, moves no thread by     *)
(* itself.                                                                *)
LEMMA YieldLoopCore == ASSUME TypeOK, TypeOK', Core, YieldLoop PROVE Core'
<1>1. Still
  BY StillHeap DEF YieldLoop, tables, memory, cpu
<1>2. FrameOK(cur, Top) /\ Top.pc = "yield_loop"
  BY TopOK DEF YieldLoop
<1>3. Follows("yield_loop", Fr("schedule")) /\ Follows("yield_loop", Fr("yield_loop"))
  BY <1>2 DEF Follows, FrameOK, Fr, Inside, Claim, Deep, BootPcs
<1> QED
  BY <1>1, <1>3, PushTwo, PlainFrames DEF YieldLoop, Fr, NoPush, Inside, Claim, Deep

(* The idle thread blocking itself moves no thread until thread_block     *)
(* does.                                                                  *)
LEMMA IdleCore == ASSUME TypeOK, TypeOK', Core, Idle PROVE Core'
<1>1. Still
  BY StillHeap DEF Idle, tables, memory, cpu
<1>2. FrameOK(cur, Top) /\ Top.pc = "idle"
  BY TopOK DEF Idle
<1>3. Follows("idle", Fr("block")) /\ Follows("idle", Fr("idle"))
  BY <1>2 DEF Follows, FrameOK, Fr, Inside, Claim, Deep, BootPcs
<1> QED
  BY <1>1, <1>3, PushTwo, PlainFrames DEF Idle, Fr, NoPush, Inside, Claim, Deep

(* The shell reading a command moves no thread.                           *)
LEMMA ShellCommandCore == ASSUME TypeOK, TypeOK', Core, ShellCommand PROVE Core'
<1>1. Still
  BY StillHeap DEF ShellCommand, tables, memory, cpu
<1>2. FrameOK(cur, Top) /\ Top.pc = "shell"
  BY TopOK DEF ShellCommand
<1>3. cur # BootT /\ cur # IdleT
  BY <1>2 DEF FrameOK, Deep
<1>4. Follows("shell", Fr("palloc")) /\ Follows("shell", Fr("palloc_proc")) /\ Follows("shell", Fr("shell"))
  BY <1>2, <1>3 DEF Follows, FrameOK, Fr, Inside, Claim, Deep, BootPcs
<1> QED
  BY <1>1, <1>4, PushThree, PlainFrames DEF ShellCommand, Fr, NoPush, Inside, Claim, Deep

(* A command calling thread_yield moves no thread until schedule does.    *)
LEMMA BodyYieldCore == ASSUME TypeOK, TypeOK', Core, BodyYield PROVE Core'
<1>1. Still
  BY StillHeap DEF BodyYield, Calling, tables, memory, cpu
<1>2. FrameOK(cur, Top) /\ Top.pc = "body" /\ At("body")
  BY TopOK DEF BodyYield, Calling
<1>3. Follows("body", Fr("schedule")) /\ Follows("body", Fr("body"))
  BY <1>2 DEF Follows, FrameOK, Fr, Inside, Claim, Deep, BootPcs
<1> QED
  BY <1>1, <1>2, <1>3, PushTwo, PlainFrames DEF BodyYield, Fr, NoPush, Inside, Claim, Deep

(* proc_create_thread finding no slot in the table changes nothing.       *)
LEMMA BodyNoSlotCore == ASSUME TypeOK, TypeOK', Core, BodyNoSlot PROVE Core'
<1>1. Still
  BY StillHeap DEF BodyNoSlot, Calling, tables, memory, cpu
<1>2. FrameOK(cur, Top) /\ Top.pc = "body" /\ At("body")
  BY TopOK DEF BodyNoSlot, Calling
<1>3. Follows("body", Fr("body"))
  BY <1>2 DEF Follows, FrameOK, Fr, Inside, Claim, Deep, BootPcs
<1> QED
  BY <1>1, <1>2, <1>3, PushOne, PlainFrames DEF BodyNoSlot, Fr, NoPush, Inside, Claim, Deep

(* ... and by more, of which only the last may be Deep.                     *)
LEMMA PushMany ==
    ASSUME TypeOK, TypeOK', Core, NEW pc, At(pc), NEW fs \in Seq(Frame), NEW n \in Nat, Len(fs) = n,
           Goto(fs), Still, pc \notin NoPush \cup {"execute", "idle"},
           \A i \in 1..n : Follows(pc, fs[i]) /\ fs[i].pc # "exit" /\ (i < n => fs[i].pc \notin Deep)
    PROVE  Core'
<1>1. \A i \in 1..Len(fs) :
        /\ FrameOK(cur, fs[i]) /\ fs[i].pc \notin {"idle_made", "null_return"} \cup Inside \cup Claim
        /\ fs[i].pc \in Deep => pc \in Deep /\ \A j \in i..Len(fs) : fs[j].pc \in Deep
        /\ fs[i].pc = "exit" /\ cur = IdleT => i > 1 /\ fs[i - 1].pc = "idle"
        /\ pc = "notify" => fs[i].pc \in Over
        /\ fs[i].pc \in {"palloc_proc", "boot_sti"} /\ cur = BootT => pc \in {"palloc_proc", "boot_sti"}
        /\ pc \in BootPcs /\ cur = BootT => fs[i].pc \in BootPcs
  <2> TAKE i \in 1..Len(fs)
  <2>1. Follows(pc, fs[i]) /\ fs[i].pc # "exit" /\ (i < n => fs[i].pc \notin Deep)
    OBVIOUS
  <2>2. ASSUME fs[i].pc \in Deep PROVE \A j \in i..Len(fs) : fs[j].pc \in Deep
    <3>1. \A j \in i..Len(fs) : j = i
      BY <2>1, <2>2
    <3> QED
      BY <2>2, <3>1
  <2> QED
    BY <2>1, <2>2 DEF Follows
<1> QED
  BY <1>1, PushCore DEF NoPush

(* A command calling proc_create_thread names its own process.            *)
LEMMA BodyCreateCore == ASSUME TypeOK, TypeOK', Core, BodyCreate PROVE Core'
<1>1. Still /\ At("body")
  BY StillHeap DEF BodyCreate, Calling, tables, memory, cpu
<1>2. FrameOK(cur, Top) /\ Top.pc = "body"
  BY <1>1, TopOK
<1>3. PICK i \in FreeSlots : Goto(CallThreadCreate(parent[cur], i)
                                  \o <<FrA("live_inc", parent[cur]), Fr("body")>>)
  BY DEF BodyCreate
<1>4. PICK p : p = parent[cur]
  OBVIOUS
<1>5. p \in Proc /\ i \in Slot
  BY <1>4 DEF TypeOK, FreeSlots
<1>6. PICK a \in Frame, b \in Frame, c \in Frame, e \in Frame :
        a = Fr("palloc") /\ b = FrN("palloc_thread", p, i) /\ c = FrA("live_inc", p) /\ e = Fr("body")
  BY <1>5, PlainFrames, ProcFrames
<1>7. CallThreadCreate(p, i) = <<a, b>>
  BY <1>6 DEF CallThreadCreate
<1>8. <<a, b>> \o <<c, e>> \in Seq(Frame)
  OBVIOUS
<1>a. PICK fs \in Seq(Frame) : fs = <<a, b>> \o <<c, e>>
  BY <1>8
<1>9. Len(fs) = 4 /\ fs[1] = a /\ fs[2] = b /\ fs[3] = c /\ fs[4] = e
  BY <1>a
<1>b. Goto(fs)
  BY <1>3, <1>4, <1>6, <1>7, <1>a
<1>10. /\ Follows("body", a) /\ Follows("body", b) /\ Follows("body", c) /\ Follows("body", e)
       /\ a.pc \notin Deep \cup {"exit"} /\ b.pc \notin Deep \cup {"exit"}
       /\ c.pc \notin Deep \cup {"exit"} /\ e.pc # "exit"
  BY <1>2, <1>6 DEF Follows, FrameOK, Fr, FrA, FrN, Inside, Claim, Deep, BootPcs
<1>11. \A i_1 \in 1..4 : Follows("body", fs[i_1]) /\ fs[i_1].pc # "exit" /\ (i_1 < 4 => fs[i_1].pc \notin Deep)
  <2> TAKE n \in 1..4
  <2>1. n = 1 \/ n = 2 \/ n = 3 \/ n = 4
    OBVIOUS
  <2> QED
    BY <1>9, <1>10, <2>1
<1>12. "body" \notin NoPush \cup {"execute", "idle"}
  BY DEF NoPush, Inside, Claim
<1> QED
  BY <1>1, <1>9, <1>b, <1>11, <1>12, PushMany

(* An entry of the table of a process of a command is a thread of a       *)
(* command, alive or dying.                                               *)
LEMMA SiblingOK ==
    ASSUME TypeOK, Core, NEW p \in CmdProc, NEW i \in Slot, threads[p][i] # NULL
    PROVE  threads[p][i] \in CmdThread /\ threads[p][i] \in Thread /\ Created(threads[p][i])
BY DEF Core, Tables, Thread

(* A command calling thread_wait names a thread of its own table,         *)
LEMMA BodyWaitCore == ASSUME TypeOK, TypeOK', Core, BodyWait PROVE Core'
<1>1. Still /\ At("body")
  BY StillHeap DEF BodyWait, Calling, tables, memory, cpu
<1>2. FrameOK(cur, Top) /\ Top.pc = "body"
  BY <1>1, TopOK
<1>3. PICK t \in Siblings : Goto(<<FrA("wait", t), Fr("body")>>)
  BY DEF BodyWait
<1>4. Follows("body", FrA("wait", t)) /\ Follows("body", Fr("body"))
  BY <1>2 DEF Follows, FrameOK, Fr, FrA, Inside, Claim, Deep, BootPcs
<1>5. FrA("wait", t) \in Frame
  BY EitherFrames DEF Siblings
<1> QED
  BY <1>1, <1>3, <1>4, <1>5, PushTwo, PlainFrames DEF Fr, FrA, NoPush, Inside, Claim, Deep

(* and so does one that calls thread_kill.                                *)
LEMMA BodyKillCore == ASSUME TypeOK, TypeOK', Core, BodyKill PROVE Core'
<1>1. Still /\ At("body")
  BY StillHeap DEF BodyKill, Calling, tables, memory, cpu
<1>2. FrameOK(cur, Top) /\ Top.pc = "body"
  BY <1>1, TopOK
<1>3. PICK t \in Siblings : Goto(<<FrA("kill", t), Fr("body")>>)
  BY DEF BodyKill
<1>4. t \in CmdThread /\ t # cur /\ Created(t)
  <2>1. parent[cur] \in CmdProc
    BY <1>2 DEF FrameOK
  <2>2. PICK i \in Slot : threads[parent[cur]][i] = t
    BY DEF Siblings
  <2>3. t # NULL /\ t # cur
    BY ConstantsAssumption DEF Siblings
  <2> QED
    BY <2>1, <2>2, <2>3, SiblingOK
<1>5. Follows("body", FrA("kill", t)) /\ Follows("body", Fr("body"))
  BY <1>2, <1>4 DEF Follows, FrameOK, Fr, FrA, Inside, Claim, Deep, BootPcs
<1>6. FrA("kill", t) \in Frame
  BY ThreadFramesNamed DEF Siblings
<1> QED
  BY <1>1, <1>3, <1>5, <1>6, PushTwo, PlainFrames DEF Fr, FrA, NoPush, Inside, Claim, Deep

(* The count of live threads of a process is a number.                    *)
LEMMA ByteInt == ASSUME TypeOK, NEW p \in Proc PROVE num_live[p] \in Int
<1>1. num_live[p] \in Byte
  BY DEF TypeOK
<1> QED
  BY <1>1 DEF Byte

(* A command calling thread_exit is still running.                        *)
LEMMA BodyExitCore == ASSUME TypeOK, TypeOK', Core, BodyExit PROVE Core'
<1>1. Still /\ At("body")
  BY StillHeap DEF BodyExit, Calling, tables, memory, cpu
<1>2. FrameOK(cur, Top) /\ Top.pc = "body"
  BY <1>1, TopOK
<1>3. PICK f : f = FrM("proc_kill", parent[cur], 0, num_live[parent[cur]])
  OBVIOUS
<1>4. Follows("body", f) /\ Follows("body", Fr("body"))
  BY <1>2, <1>3 DEF Follows, FrameOK, Fr, FrM, Inside, Claim, Deep, BootPcs
<1>5. f \in Frame
  <2>1. parent[cur] \in Proc
    BY DEF TypeOK
  <2>2. PICK p \in Proc : p = parent[cur]
    BY <2>1
  <2>3. PICK n \in Int : n = num_live[p]
    BY ByteInt
  <2>4. FrM("proc_kill", p, 0, n) \in Frame
    BY ProcFrames
  <2> QED
    BY <1>3, <2>2, <2>3, <2>4
<1>6. f.pc = "proc_kill" /\ Goto(<<f, Fr("body")>>)
  BY <1>3 DEF FrM, BodyExit
<1> QED
  BY <1>1, <1>4, <1>5, <1>6, PushTwo, PlainFrames DEF Fr, NoPush, Inside, Claim, Deep

(* The shell calling kill names a process of a command.                   *)
LEMMA ShellCallCore == ASSUME TypeOK, TypeOK', Core, ShellCall PROVE Core'
<1>1. Still /\ At("shell_call")
  BY StillHeap DEF ShellCall, tables, memory, cpu
<1>2. FrameOK(cur, Top) /\ Top.pc = "shell_call"
  BY <1>1, TopOK
<1>3. CASE Goto(<<>>)
  BY <1>1, <1>3, PopCore DEF Inside, Claim
<1>4. ASSUME Top.arg # NULL PROVE Top.arg \in CmdProc /\ Top.arg \in Proc
  BY <1>2, <1>4 DEF FrameOK, Proc
<1>5. CASE Top.arg # NULL /\ Goto(<<FrA("wait", Top.arg)>>)
  <2>1. Follows("shell_call", FrA("wait", Top.arg))
    BY <1>2 DEF Follows, FrameOK, FrA, Inside, Claim, Deep, BootPcs
  <2>2. FrA("wait", Top.arg) \in Frame
    BY <1>4, <1>5, EitherFrames
  <2> QED
    BY <1>1, <1>5, <2>1, <2>2, PushOne DEF FrA, NoPush, Inside, Claim
<1>6. CASE Top.arg # NULL /\ Goto(<<FrM("proc_kill", Top.arg, 0, num_live[Top.arg])>>)
  <2>0. PICK f : f = FrM("proc_kill", Top.arg, 0, num_live[Top.arg])
    OBVIOUS
  <2>1. Follows("shell_call", f)
    BY <1>2, <1>4, <1>6, <2>0 DEF Follows, FrameOK, FrM, Inside, Claim, Deep, BootPcs
  <2>2. f \in Frame
    <3>1. PICK p \in Proc : p = Top.arg
      BY <1>4, <1>6
    <3>2. num_live[p] \in Int /\ 0 \in Int
      BY ByteInt
    <3>3. FrM("proc_kill", p, 0, num_live[p]) \in Frame
      BY <3>2, ProcFrames
    <3> QED
      BY <2>0, <3>1, <3>3
  <2>3. f.pc = "proc_kill" /\ Goto(<<f>>)
    BY <1>6, <2>0 DEF FrM
  <2> QED
    BY <1>1, <2>1, <2>2, <2>3, PushOne DEF NoPush, Inside, Claim
<1> QED
  BY <1>3, <1>5, <1>6 DEF ShellCall

(* thread_execute calling the function of the thread moves no thread.     *)
LEMMA ThreadExecuteCore == ASSUME TypeOK, TypeOK', Core, ThreadExecute PROVE Core'
<1>1. Still /\ At("execute")
  BY StillHeap DEF ThreadExecute, tables, memory
<1>2. FrameOK(cur, Top) /\ Top.pc = "execute"
  BY <1>1, TopOK
<1>3. PICK f \in Frame : f = Fr(Func(parent[cur])) /\ f.pc \in {"idle", "shell", "body"}
  BY PlainFrames DEF Func, Fr
<1>4. cur # BootT /\ (cur = IdleT => f.pc = "idle") /\ (f.pc = "body" => parent[cur] \in CmdProc)
  <2>1. parent[IdleT] = InitP
    BY DEF Core, Tables
  <2>2. parent[cur] \in Proc
    BY DEF TypeOK
  <2> QED
    BY <1>2, <1>3, <2>1, <2>2, ConstantsAssumption DEF Func, Fr, FrameOK, Proc
<1>5. Follows("execute", f) /\ Follows("execute", Fr("exit"))
  BY <1>3, <1>4 DEF Follows, FrameOK, Fr, Inside, Claim, Deep, BootPcs
<1>6. Goto(<<f, Fr("exit")>>)
  BY <1>3 DEF ThreadExecute
<1> QED
  BY <1>1, <1>3, <1>4, <1>5, <1>6, PushTwo, PlainFrames DEF Fr, NoPush, Inside, Claim, Deep

(* proc_kill picking the next thread of the process names a thread of its *)
(* table.                                                                 *)
LEMMA ProcKillNextCore == ASSUME TypeOK, TypeOK', Core, ProcKillNext PROVE Core'
<1>1. Still /\ At("proc_kill_next")
  BY StillHeap DEF ProcKillNext, tables, memory, cpu
<1>2. FrameOK(cur, Top) /\ Top.pc = "proc_kill_next"
  BY <1>1, TopOK
<1>3. PICK f : f = FrM("proc_kill", Top.arg, Top.n + 1, IF eax[cur] # -1 THEN Top.m - 1 ELSE Top.m)
  OBVIOUS
<1>4. Follows("proc_kill_next", f)
  BY <1>2, <1>3 DEF Follows, FrameOK, FrM, Inside, Claim, Deep, BootPcs
<1>5. f \in Frame
  <2>1. Top.arg \in Proc
    BY <1>1, TopProc DEF OnProc
  <2>2. Top.n + 1 \in Int /\ (IF eax[cur] # -1 THEN Top.m - 1 ELSE Top.m) \in Int
    BY <1>1, TopNumbers
  <2> QED
    BY <1>3, <2>1, <2>2, ProcFrames
<1>6. f.pc = "proc_kill" /\ Goto(<<f>>)
  BY <1>3 DEF FrM, ProcKillNext
<1> QED
  BY <1>1, <1>4, <1>5, <1>6, PushOne DEF NoPush, Inside, Claim

(* proc_kill starting its loop moves no thread.                           *)
LEMMA ProcKillCore == ASSUME TypeOK, TypeOK', Core, ProcKill PROVE Core'
<1>1. Still /\ At("proc_kill")
  BY StillHeap DEF ProcKill, tables, memory, cpu
<1>2. FrameOK(cur, Top) /\ Top.pc = "proc_kill"
  BY <1>1, TopOK
<1>3. PICK p, i, m, t : p = Top.arg /\ i = Top.n /\ m = Top.m /\ t = threads[p][i]
  OBVIOUS
<1>4. p \in Proc /\ p \in CmdProc /\ i \in Int /\ m \in Int
  BY <1>1, <1>2, <1>3, TopProc, TopNumbers DEF OnProc, FrameOK
<1>5. ASSUME i \in Slot, t # NULL, state[t] \notin {"DYING", "RUNNING"},
             Goto(<<FrA("kill", t), FrM("proc_kill_next", p, i, m)>>)
      PROVE  Core'
  <2>1. t \in CmdThread /\ t \in Thread /\ Created(t)
    BY <1>3, <1>4, <1>5, SiblingOK
  <2>2. t # cur
    <3>1. state[cur] = "RUNNING" \/ cur = BootT
      BY <1>1, NotOver DEF Core, MoveInv, Over, Inside
    <3> QED
      BY <1>5, <2>1, <3>1, ConstantsAssumption
  <2>3. PICK g : g = FrM("proc_kill_next", p, i, m)
    OBVIOUS
  <2>4. FrA("kill", t) \in Frame /\ g \in Frame
    BY <1>4, <2>1, <2>3, ThreadFramesNamed, ProcFrames
  <2>5. Follows("proc_kill", FrA("kill", t)) /\ Follows("proc_kill", g) /\ g.pc = "proc_kill_next"
    BY <1>2, <1>4, <2>1, <2>2, <2>3 DEF Follows, FrameOK, FrA, FrM, Inside, Claim, Deep, BootPcs
  <2>6. Goto(<<FrA("kill", t), g>>)
    BY <1>5, <2>3
  <2> QED
    BY <1>1, <2>4, <2>5, <2>6, PushTwo DEF FrA, NoPush, Inside, Claim, Deep
<1>6. ASSUME Goto(<<FrM("proc_kill", p, i + 1, m)>>) PROVE Core'
  <2>1. PICK f : f = FrM("proc_kill", p, i + 1, m)
    OBVIOUS
  <2>2. Follows("proc_kill", f) /\ f.pc = "proc_kill"
    BY <1>2, <1>4, <2>1 DEF Follows, FrameOK, FrM, Inside, Claim, Deep, BootPcs
  <2>3. f \in Frame
    <3>1. i + 1 \in Int
      BY <1>4
    <3> QED
      BY <1>4, <2>1, <3>1, ProcFrames
  <2>4. Goto(<<f>>)
    BY <1>6, <2>1
  <2> QED
    BY <1>1, <2>2, <2>3, <2>4, PushOne DEF NoPush, Inside, Claim
<1>7. ASSUME Goto(<<Fr("exit")>>) PROVE Core'
  <2>1. Follows("proc_kill", Fr("exit")) /\ cur # IdleT
    BY <1>2 DEF Follows, FrameOK, Fr, Inside, Claim, Deep, BootPcs
  <2> QED
    BY <1>1, <1>7, <2>1, PushOne, PlainFrames DEF Fr, NoPush, Inside, Claim
<1>8. ASSUME Goto(<<>>) PROVE Core'
  BY <1>1, <1>8, PopCore DEF Inside, Claim
<1>9. \/ i \in Slot /\ t # NULL /\ state[t] \notin {"DYING", "RUNNING"}
         /\ Goto(<<FrA("kill", t), FrM("proc_kill_next", p, i, m)>>)
      \/ Goto(<<FrM("proc_kill", p, i + 1, m)>>)
      \/ Goto(<<Fr("exit")>>) \/ Goto(<<>>)
  BY <1>3 DEF ProcKill
<1> QED
  BY <1>5, <1>6, <1>7, <1>8, <1>9

(* No other thread than the current one is RUNNING.                       *)
LEMMA OthersNotRunning ==
    ASSUME SwitchInv, Without(ListFaults), NEW t \in Thread, t # cur
    PROVE  state[t] # "RUNNING"
BY DEF SwitchInv, OneRunning, Without, ListFaults, SchedulerFaults

(* thread_kill turns the interrupts off, and has a running target exit    *)
(* instead.                                                               *)
LEMMA ThreadKillCore ==
    ASSUME TypeOK, TypeOK', Core, SwitchInv, Without(ListFaults), ThreadKill PROVE Core'
<1>1. Still /\ At("kill")
  BY StillHeap DEF ThreadKill, tables, memory
<1>2. FrameOK(cur, Top) /\ Top.pc = "kill" /\ Top.arg \in Thread
  BY <1>1, TopOK, TopThread DEF OnThread
<1>3. state[Top.arg] # "RUNNING"
  BY <1>2, OthersNotRunning DEF FrameOK
<1>4. Goto(<<FrA("kill_rest", Top.arg)>>)
  <2>1. <<>> \o <<FrA("kill_rest", Top.arg)>> = <<FrA("kill_rest", Top.arg)>>
    OBVIOUS
  <2>2. Goto(<<>> \o <<FrA("kill_rest", Top.arg)>>)
    BY <1>3 DEF ThreadKill
  <2> QED
    BY <2>1, <2>2
<1>5. Follows("kill", FrA("kill_rest", Top.arg))
  BY <1>2 DEF Follows, FrameOK, FrA, Inside, Claim, Deep, BootPcs
<1>6. FrA("kill_rest", Top.arg) \in Frame
  BY <1>2, ThreadFramesNamed
<1> QED
  BY <1>1, <1>4, <1>5, <1>6, PushOne DEF FrA, NoPush, Inside, Claim

(* The list of waiters of a thread and the list of threads of a process   *)
(* are not lists of the scheduler.                                        *)
LEMMA ForeignLists ==
    ASSUME NEW l \in Thread \cup Proc
    PROVE  l \notin Queue /\ l \in ListId /\ L!HeadNode(l) \in Foreign /\ L!TailNode(l) \in Foreign
<1>1. l \notin Queue /\ l \in ListId
  BY NodeAssumption DEF Queue, ListId
<1> QED
  BY <1>1, Places

(* thread_wait linking itself into the waiters leaves the lists of the    *)
(* scheduler alone.                                                       *)
LEMMA WaitCore == ASSUME TypeOK, TypeOK', Core, Wait PROVE Core'
<1>1. At("wait") /\ Top.arg \in Thread \cup Proc /\ cur \in Thread
  BY TopEither DEF Wait, OnEither, TypeOK
<1>2. L!HeadNode(Top.arg) \in Foreign /\ WNode(cur) \in Foreign
  BY <1>1, ForeignLists, Places
<1>3. Within(heap, heap', Foreign)
  BY <1>2, ForeignHeap, InsertWithin DEF Wait, L!list_insert
<1>4. Still
  BY <1>3, StillHeap DEF Wait, tables, memory, cpu
<1>5. Follows("wait", Fr("block")) /\ Follows("wait", FrA("wait_ret", Top.arg))
  BY DEF Follows, FrameOK, Fr, FrA, Inside, Claim, Deep, BootPcs
<1>6. FrA("wait_ret", Top.arg) \in Frame
  BY <1>1, EitherFrames
<1> QED
  BY <1>1, <1>4, <1>5, <1>6, PushTwo, PlainFrames DEF Wait, Fr, FrA, NoPush, Inside, Claim, Deep

(* Taking the first waiter off the waiters leaves the lists of the        *)
(* scheduler alone; thread_unblock comes next.                            *)
LEMMA NotifyCore == ASSUME TypeOK, TypeOK', Core, Notify PROVE Core'
<1>1. At("notify") /\ Top.arg \in Thread \cup Proc
  BY TopEither DEF Notify, OnEither
<1>2. L!HeadNode(Top.arg) \in Foreign
  BY <1>1, ForeignLists
<1>3. Within(heap, heap', Foreign)
  BY <1>2, ForeignHeap, PopWithin DEF Notify
<1>4. Still
  BY <1>3, StillHeap DEF Notify, tables, memory, cpu
<1>5. CASE Goto(<<>>)
  BY <1>1, <1>4, <1>5, PopCore DEF Inside, Claim
<1>6. ASSUME NEW w \in Thread, Goto(<<FrA("unblock", w), Top>>) PROVE Core'
  <2>1. Top \in Frame /\ FrA("unblock", w) \in Frame /\ Top.pc = "notify"
    BY <1>1, TopType, ThreadFramesNamed
  <2>2. Follows("notify", FrA("unblock", w)) /\ Follows("notify", Top)
    BY <2>1 DEF Follows, FrameOK, FrA, Inside, Claim, Deep, BootPcs, Over
  <2> QED
    BY <1>1, <1>4, <1>6, <2>1, <2>2, PushTwo DEF FrA, NoPush, Inside, Claim, Deep
<1> QED
  BY <1>5, <1>6 DEF Notify

(* What proc_create returns to goes on with the new process, or with      *)
(* NULL.                                                                  *)
LEMMA CallerFrame ==
    ASSUME TypeOK, Core, At("palloc_proc"), NEW p \in ProcPages \cup {NULL}, NEW f,
           f = FrA(CallerOf(cur), p)
    PROVE  f \in Frame /\ Follows("palloc_proc", f) /\ f.pc # "exit" /\ p \in Proc \cup {NULL}
<1>1. FrameOK(cur, Top) /\ Top.pc = "palloc_proc"
  BY TopOK
<1>2. cur # IdleT
  BY <1>1 DEF FrameOK, Deep
<1>3. p \in Proc \cup {NULL} /\ (cur # BootT => p \in CmdProc \cup {NULL})
  BY DEF ProcPages, Proc
<1>4. f.arg = p /\ f.pc = IF cur = BootT THEN "boot_sti" ELSE "shell_call"
  BY DEF FrA, CallerOf
<1>5. Follows("palloc_proc", f)
  BY <1>2, <1>3, <1>4 DEF Follows, FrameOK, Inside, Claim, Deep, BootPcs
<1>6. f \in Frame
  BY <1>3 DEF CallerOf, FrA, Frame, Label, OnThread, OnProc, OnEither
<1> QED
  BY <1>3, <1>4, <1>5, <1>6

(* proc_create taking a page for the process takes none of a thread.      *)
LEMMA PallocProcCore ==
    ASSUME TypeOK, TypeOK', Core, Without(ListFaults)', PallocProc PROVE Core'
<1>1. At("palloc_proc")
  BY DEF PallocProc
<1>2. CASE Goto(<<Fr(CallerOf(cur))>>) /\ UNCHANGED <<heap, state>>
  <2>1. Still
    BY <1>2, StillHeap DEF PallocProc, cpu
  <2>2. PICK f : f = FrA(CallerOf(cur), NULL)
    OBVIOUS
  <2>3. f \in Frame /\ Follows("palloc_proc", f) /\ f.pc # "exit"
    BY <1>1, <2>2, CallerFrame
  <2>4. Goto(<<f>>)
    BY <1>2, <2>2 DEF Fr, FrA
  <2> QED
    BY <1>1, <2>1, <2>3, <2>4, PushOne DEF NoPush, Inside, Claim
<1>3. ASSUME NEW p \in ProcPages \ ppages, NewProc(p),
             Meet("reused", \E i \in Slot : threads[p][i] # NULL)
      PROVE  Core'
  <2>0. p \in Proc
    BY DEF ProcPages, Proc
  <2>1. \A i \in Slot : threads[p][i] = NULL
    BY <1>3 DEF Meet, Without, ListFaults
  <2>2. state' = state
    <3>1. \A t \in Thread : {i \in Slot : threads[p][i] = t} = {}
      BY <2>1, ConstantsAssumption
    <3>2. state' = [t \in Thread |-> state[t]]
      BY <1>3, <3>1 DEF NewProc
    <3> QED
      BY <3>2 DEF TypeOK
  <2>3. Within(heap, heap', Foreign)
    <3>1. L!HeadNode(p) \in Foreign /\ L!TailNode(p) \in Foreign
      BY <2>0, ForeignLists
    <3> QED
      BY <1>3, <3>1, ForeignHeap, ListInitWithin DEF NewProc
  <2>4. Still
    BY <2>2, <2>3, StillHeap DEF PallocProc, cpu
  <2>5. PICK a \in Frame, b \in Frame, c \in Frame, d \in Frame :
          /\ a = Fr("palloc") /\ b = FrN("palloc_thread", p, 0)
          /\ c = FrA("num_live_set", p) /\ d = FrA("link_proc", p)
    <3>1. 0 \in Slot
      BY ConstantsAssumption DEF Slot
    <3> QED
      BY <2>0, <3>1, PlainFrames, ProcFrames
  <2>6. PICK e \in Frame : e = FrA(CallerOf(cur), p)
    BY <1>1, CallerFrame
  <2>7. Follows("palloc_proc", e) /\ e.pc # "exit"
    BY <1>1, <2>6, CallerFrame
  <2>8. CallThreadCreate(p, 0) = <<a, b>>
    BY <2>5 DEF CallThreadCreate
  <2>9. <<a, b>> \o <<c, d, e>> \in Seq(Frame)
    OBVIOUS
  <2>10. PICK fs \in Seq(Frame) : fs = <<a, b>> \o <<c, d, e>>
    BY <2>9
  <2>11. Len(fs) = 5 /\ fs[1] = a /\ fs[2] = b /\ fs[3] = c /\ fs[4] = d /\ fs[5] = e
    BY <2>10
  <2>12. Goto(fs)
    BY <1>3, <2>5, <2>6, <2>8, <2>10 DEF NewProc
  <2>13. /\ Follows("palloc_proc", a) /\ Follows("palloc_proc", b)
         /\ Follows("palloc_proc", c) /\ Follows("palloc_proc", d)
         /\ a.pc \notin Deep \cup {"exit"} /\ b.pc \notin Deep \cup {"exit"}
         /\ c.pc \notin Deep \cup {"exit"} /\ d.pc \notin Deep \cup {"exit"}
    BY <2>5 DEF Follows, FrameOK, Fr, FrA, FrN, Inside, Claim, Deep, BootPcs
  <2>14. \A i \in 1..5 : Follows("palloc_proc", fs[i]) /\ fs[i].pc # "exit" /\ (i < 5 => fs[i].pc \notin Deep)
    <3> TAKE n \in 1..5
    <3>1. n = 1 \/ n = 2 \/ n = 3 \/ n = 4 \/ n = 5
      OBVIOUS
    <3> QED
      BY <2>7, <2>11, <2>13, <3>1
  <2>15. "palloc_proc" \notin NoPush \cup {"execute", "idle"}
    BY DEF NoPush, Inside, Claim
  <2> QED
    BY <1>1, <2>4, <2>11, <2>12, <2>14, <2>15, PushMany
<1> QED
  BY <1>2, <1>3 DEF PallocProc

-----------------------------------------------------------------------------
(* Making and listing threads.                                            *)

(* What every Goto has in common.                                           *)
LEMMA GotoIs ==
    ASSUME TypeOK, NEW pc, At(pc), NEW fs \in Seq(Frame), Goto(fs), NEW k, k = Len(stk[cur]) - 1
    PROVE  /\ Replaced(k, fs) /\ cur \in Thread /\ k \in Nat /\ k + 1 = Len(stk[cur])
           /\ Len(stk[cur]) \in 1..Len(stk[cur])
           /\ Top.pc = pc /\ FD(stk[cur], Len(stk[cur])) = Top
           /\ \A d \in 1..Len(stk[cur]) : d > k => d = Len(stk[cur]) /\ FD(stk[cur], d) = Top
           /\ \A pcs : Gone(k, pcs) <=> pc \in pcs
<1>1. Replaced(k, fs) /\ cur \in Thread /\ Len(stk[cur]) \in Nat \ {0}
      /\ FD(stk[cur], Len(stk[cur])) = Top /\ Top.pc = pc
  BY GotoReplaces, TopFrame
<1>2. \A pcs : Gone(k, pcs) <=> pc \in pcs
  BY GoneIs
<1> QED
  BY <1>1, <1>2

(* The threads of the start-up are not threads of commands.               *)
LEMMA ThreadsDiffer ==
    BootT # IdleT /\ BootT # ShellT /\ IdleT # ShellT /\ {BootT, IdleT, ShellT} \cap CmdThread = {}
<1>1. ASSUME NEW a, NEW b PROVE IsFiniteSet({a, b}) /\ Cardinality({a, b}) \in 0..2
  <2>1. IsFiniteSet({a}) /\ Cardinality({a}) = 1
    BY FS_Singleton
  <2>2. IsFiniteSet({a} \cup {b}) /\ Cardinality({a} \cup {b}) \in {Cardinality({a}), Cardinality({a}) + 1}
    BY <2>1, FS_AddElement
  <2>3. {a} \cup {b} = {a, b}
    OBVIOUS
  <2> QED
    BY <2>1, <2>2, <2>3
<1>2. Cardinality({BootT, IdleT, ShellT}) \notin 0..2
  BY ConstantsAssumption
<1>3. /\ {BootT, IdleT, ShellT} # {BootT, ShellT}
      /\ {BootT, IdleT, ShellT} # {BootT, IdleT}
  BY <1>1, <1>2
<1> QED
  BY <1>3, ConstantsAssumption

(* No claim is made.                                                        *)
LEMMA ClaimKeep ==
    ASSUME ClaimInv, NEW k, NEW fs, Replaced(k, fs),
           \A u \in Thread : Alive(u)' => Alive(u),
           \A i \in 1..Len(fs) : fs[i].pc \notin Claim,
           \A u \in Thread : \A d \in 1..Len(stk[u]) :
              Alive(u) /\ (u = cur => d <= k) /\ FD(stk[u], d).pc \in Claim /\ Alive(u)' =>
                 /\ FD(stk[u], d).arg \in tpages' \ Listed'
                 /\ FD(stk[u], d).arg # cur'
                 /\ state'[FD(stk[u], d).arg] = state[FD(stk[u], d).arg]
    PROVE  ClaimInv'
<1>1. \A u \in Thread : \A d \in 1..Len(stk[u]) :
              Alive(u) /\ (u = cur => d <= k) /\ FD(stk[u], d).pc \in Claim =>
                 /\ \A i \in 1..Len(fs) : fs[i].pc \in Claim => FD(stk[u], d).arg # fs[i].arg
                 /\ Alive(u)' => /\ FD(stk[u], d).arg \in tpages' \ Listed'
                                 /\ FD(stk[u], d).arg # cur'
                                 /\ state'[FD(stk[u], d).arg] = state[FD(stk[u], d).arg]
  OBVIOUS
<1>2. /\ \A i, j \in 1..Len(fs) : fs[i].pc \in Claim /\ fs[j].pc \in Claim => i = j
      /\ \A i \in 1..Len(fs) : fs[i].pc \in Claim => ClaimOK(fs[i])'
  OBVIOUS
<1> QED
  BY <1>1, <1>2, ClaimStep

(* The parts of the invariant.                                            *)
LEMMA CoreParts ==
    ASSUME Core
    PROVE  Linked(heap) /\ StackInv /\ Parked /\ LimboInv /\ ClaimInv /\ InsideInv /\ CurListed
           /\ StateInv /\ Tables /\ BootInv
BY DEF Core, MoveInv

(* The steps outside schedule.                                              *)
LEMMA OutsideCore ==
    ASSUME TypeOK, TypeOK', Core, NEW pc, At(pc), pc \notin Inside \cup {"irq_return", "unblock"},
           NEW fs \in Seq(Frame), Goto(fs), NEW k, k = Len(stk[cur]) - 1, Fits(k, fs), Lasting,
           parent' = parent, cur' = cur, tpages' \subseteq tpages,
           \A t \in Thread \ {cur} : state'[t] \in {"READY", "BLOCKED"} => state[t] \in {"READY", "BLOCKED"},
           \A i \in 1..Len(fs) : fs[i].pc \notin Inside,
           cur \notin Dying', cur \in Blocked' => At("schedule")' /\ ~iflag',
           Linked(heap'), LimboInv', ClaimInv', StateInv', Tables', BootInv'
    PROVE  Core'
<1>1. Replaced(k, fs)
  BY GotoIs
<1>2. StackInv'
  BY <1>1, CoreParts, StackStep
<1>3. Parked'
  <2>1. tpages \subseteq Thread
    BY DEF TypeOK
  <2> QED
    BY <1>1, <2>1, CoreParts, ParkedStep
<1>4. \A u \in Thread : \A d \in 1..Len(stk[u]) : FD(stk[u], d).pc \notin Inside
  BY CoreParts, NoInside
<1>5. InsideInv'
  <2>1. \A u \in Thread : \A d \in 1..Len(stk'[u]) : FD(stk'[u], d).pc \notin Inside
    BY <1>1, <1>4, InsideNone
  <2> QED
    BY <2>1 DEF InsideInv
<1>6. CurListed'
  BY DEF CurListed
<1> QED
  BY <1>2, <1>3, <1>5, <1>6 DEF Core, MoveInv

(* kmain going on after the idle thread is made leaves it on its way to   *)
(* the blocked list.                                                      *)
LEMMA IdleMadeCore == ASSUME TypeOK, TypeOK', Core, IdleMade PROVE Core'
<1>1. <<>> \in Seq(Frame)
  OBVIOUS
<1> PICK fs, k : fs \in Seq(Frame) /\ fs = <<>> /\ k = Len(stk[cur]) - 1
  BY <1>1
<1>2. /\ At("idle_made") /\ Goto(fs) /\ Len(fs) = 0 /\ cur' = cur /\ tpages' = tpages /\ parent' = parent
      /\ threads' = threads /\ heap' = heap /\ iflag' = iflag
      /\ state' = [state EXCEPT ![cur] = "BLOCKED"]
  BY DEF IdleMade, tables, memory, cpu
<1>3. /\ Replaced(k, fs) /\ cur \in Thread /\ k \in Nat /\ k + 1 = Len(stk[cur])
      /\ Len(stk[cur]) \in 1..Len(stk[cur]) /\ FD(stk[cur], Len(stk[cur])) = Top /\ Top.pc = "idle_made"
      /\ \A d \in 1..Len(stk[cur]) : d > k => d = Len(stk[cur]) /\ FD(stk[cur], d) = Top
  BY <1>2, GotoIs
<1>4. cur = BootT /\ Booting /\ BootT # IdleT
  <2>1. NextTo(cur, Len(stk[cur]))
    BY <1>3, CoreParts DEF StackInv, StackOK
  <2>2. cur = BootT /\ \E e \in 1..(Len(stk[cur]) - 1) : FD(stk[cur], e).pc = "palloc_proc"
    BY <1>3, <2>1 DEF NextTo
  <2>3. \A e \in 1..(Len(stk[cur]) - 1) : e \in 1..Len(stk[cur])
    BY <1>3
  <2>4. \E e \in 1..Len(stk[BootT]) : FD(stk[BootT], e).pc = "palloc_proc"
    BY <2>2, <2>3
  <2> QED
    BY <2>2, <2>4, BootingIs, ThreadsDiffer
<1>5. state[cur] # "DYING"
  BY <1>2, CoreParts, NotOver DEF Over, Inside
<1>6. BootT \notin Listed
  BY <1>4, CoreParts DEF BootInv
<1>7. Ready' = Ready /\ Blocked' = Blocked /\ Dying' = Dying /\ Listed' = Listed
  BY <1>2, SameListed
<1>8. /\ state'[cur] = "BLOCKED" /\ \A t \in Thread \ {cur} : state'[t] = state[t]
  BY <1>2, <1>3 DEF TypeOK
<1>9. Fits(k, fs)
  BY <1>2, GoneIs DEF Fits
<1>10. Lasting
  BY <1>2, <1>3, <1>5, <1>8 DEF Lasting, Lasts, Created
<1>11. LimboInv'
  BY <1>2, <1>4, <1>8 DEF LimboInv
<1>12. \A u \in Thread : Alive(u)' => Alive(u)
  BY <1>2, <1>8 DEF Alive
<1>13. ClaimInv'
  <2>1. \A u \in Thread : \A d \in 1..Len(stk[u]) :
              Alive(u) /\ (u = cur => d <= k) /\ FD(stk[u], d).pc \in Claim =>
                 /\ FD(stk[u], d).arg \in tpages' \ Listed' /\ FD(stk[u], d).arg # cur'
                 /\ state'[FD(stk[u], d).arg] = state[FD(stk[u], d).arg]
    <3>1. tpages \subseteq Thread
      BY DEF TypeOK
    <3> QED
      BY <1>2, <1>7, <1>8, <3>1, CoreParts DEF ClaimInv, ClaimOK
  <2>2. \A i \in 1..Len(fs) : FALSE
    BY <1>2
  <2> QED
    BY <1>3, <1>12, <2>1, <2>2, CoreParts, ClaimKeep
<1>14. StateInv'
  <2>1. \A t \in tpages : Pending(t) => Pending(t)'
    <3> SUFFICES ASSUME NEW t \in tpages, Pending(t) PROVE Pending(t)'
      OBVIOUS
    <3>1. \A d \in 1..Len(stk[cur]) : d > k => FD(stk[cur], d).pc \notin Inside \cup {"tc_insert"}
      BY <1>3 DEF Inside
    <3>2. \A u \in Thread : Alive(u) => Alive(u)'
      BY <1>2, <1>8, CoreParts DEF Alive, StateInv
    <3> QED
      BY <1>2, <1>3, <3>1, <3>2, PendingStep
  <2>2. cur \notin Ready /\ cur \notin Blocked /\ cur \notin Dying
    BY <1>4, <1>6 DEF Listed
  <2>3. Ready \subseteq Thread /\ Blocked \subseteq Thread /\ Dying \subseteq Thread /\ IdleT \in Thread
    BY DEF Ready, Blocked, Dying, Held, Thread
  <2> QED
    BY <1>2, <1>4, <1>7, <1>8, <2>1, <2>2, <2>3, CoreParts DEF StateInv, TypeOK
<1>15. Tables'
  BY <1>2, <1>8, <1>10, CoreParts DEF Tables, Lasting, Lasts, Thread
<1>16. BootInv'
  <2>1. IdleT \in tpages'
    BY <1>2, CoreParts, IdleUp
  <2>2. \A u \in Thread : \A d \in 1..Len(stk[u]) :
          ~(FD(stk[u], d).pc = "tc_insert" /\ FD(stk[u], d).arg = IdleT)
    BY <1>2, CoreParts, IdleLinked
  <2>3. \A i \in 1..Len(fs) : FALSE
    BY <1>2
  <2> QED
    BY <1>2, <1>3, <1>6, <1>7, <2>1, <2>2, <2>3, CoreParts, BootStep
<1>17. cur \notin Dying' /\ cur \notin Blocked'
  BY <1>4, <1>6, <1>7 DEF Listed
<1>18. \A i \in 1..Len(fs) : fs[i].pc \notin Inside
  BY <1>2
<1>19. Linked(heap')
  BY <1>2, CoreParts
<1>20. "idle_made" \notin Inside \cup {"irq_return", "unblock"}
  BY DEF Inside
<1> QED
  BY <1>2, <1>8, <1>9, <1>10, <1>11, <1>13, <1>14, <1>15, <1>16, <1>17, <1>18, <1>19, <1>20, OutsideCore

(* After the start-up.                                                      *)
LEMMA LateBoot ==
    ASSUME TypeOK, TypeOK', Core, NEW pc, At(pc), pc \notin BootPcs, NEW k, NEW fs, Replaced(k, fs),
           cur' = cur, tpages' = tpages \/ IdleT \in tpages',
           \A i \in 1..Len(fs) : fs[i].pc \notin {"tc_insert", "palloc_proc", "boot_sti"}
    PROVE  BootInv' /\ ~Booting
<1>1. BootInv
  BY CoreParts
<1>2. IdleT \in tpages'
  BY <1>1, IdleUp DEF BootPcs
<1>3. ~Booting
  BY <1>1, NotBooting
<1>4. \A u \in Thread : \A d \in 1..Len(stk[u]) :
        ~(FD(stk[u], d).pc = "tc_insert" /\ FD(stk[u], d).arg = IdleT)
  BY <1>1, IdleLinked DEF BootPcs
<1> QED
  BY <1>1, <1>2, <1>3, <1>4, BootStep

(* thread_create puts the thread it has made, which is in its hand alone, *)
(* on the ready list.                                                     *)
LEMMA TcInsertCore == ASSUME TypeOK, TypeOK', Core, TcInsert PROVE Core'
<1>1. <<>> \in Seq(Frame)
  OBVIOUS
<1> PICK fs, k, a : fs \in Seq(Frame) /\ fs = <<>> /\ k = Len(stk[cur]) - 1 /\ a = Top.arg
  BY <1>1
<1>2. /\ At("tc_insert") /\ Goto(fs) /\ Len(fs) = 0 /\ cur' = cur /\ tpages' = tpages /\ parent' = parent
      /\ threads' = threads /\ state' = state /\ heap' = L!list_insert(heap, "ready", TNode(a))
  BY DEF TcInsert, tables, memory
<1>3. /\ Replaced(k, fs) /\ cur \in Thread /\ k \in Nat /\ k + 1 = Len(stk[cur])
      /\ Len(stk[cur]) \in 1..Len(stk[cur]) /\ FD(stk[cur], Len(stk[cur])) = Top /\ Top.pc = "tc_insert"
      /\ \A d \in 1..Len(stk[cur]) : d > k => d = Len(stk[cur]) /\ FD(stk[cur], d) = Top
  BY <1>2, GotoIs
<1>4. a \in tpages \ Listed /\ a # cur /\ state[a] = "READY" /\ a \in Thread
  <2>1. Alive(cur) /\ Top.pc \in Claim
    BY <1>3 DEF Alive, Claim
  <2>2. ClaimOK(Top)
    BY <1>3, <2>1, CoreParts DEF ClaimInv
  <2> QED
    BY <1>3, <2>2 DEF ClaimOK, TypeOK
<1>5. Linked(heap') /\ Ready' = Ready \cup {a} /\ Blocked' = Blocked /\ Dying' = Dying /\ Listed' = Listed \cup {a}
  <2>1. Linked(heap) /\ \A l \in Queue : a \notin Held(heap, l)
    BY <1>4, CoreParts DEF Queue, Listed, Ready, Blocked, Dying
  <2>2. /\ Linked(heap') /\ Held(heap', "ready") = Held(heap, "ready") \cup {a}
        /\ \A l \in Queue \ {"ready"} : Held(heap', l) = Held(heap, l)
    BY <1>2, <1>4, <2>1, InsertHeld DEF Queue
  <2> QED
    BY <2>2 DEF Queue, Listed, Ready, Blocked, Dying
<1>6. state[cur] # "DYING" /\ (state[cur] = "RUNNING" \/ cur = BootT)
  BY <1>2, CoreParts, NotOver DEF Over, Inside
<1>7. cur \notin Dying /\ cur \notin Blocked
  BY <1>2, CoreParts, NoInside DEF Inside
<1>8. Fits(k, fs)
  BY <1>2, GoneIs DEF Fits
<1>9. Lasting
  BY <1>2 DEF Lasting, Lasts, Created
<1>10. LimboInv'
  BY <1>2, <1>6 DEF LimboInv
<1>11. \A u \in Thread : Alive(u)' <=> Alive(u)
  BY <1>2 DEF Alive
<1>12. ClaimInv'
  <2>1. \A u \in Thread : \A d \in 1..Len(stk[u]) :
              Alive(u) /\ (u = cur => d <= k) /\ FD(stk[u], d).pc \in Claim => FD(stk[u], d).arg # a
    <3> SUFFICES ASSUME NEW u \in Thread, NEW d \in 1..Len(stk[u]), Alive(u), u = cur => d <= k,
                        FD(stk[u], d).pc \in Claim, FD(stk[u], d).arg = a
                 PROVE  FALSE
      OBVIOUS
    <3>1. Alive(cur) /\ Top.pc \in Claim
      BY <1>3 DEF Alive, Claim
    <3>2. u = cur /\ d = Len(stk[cur])
      BY <1>3, <3>1, CoreParts DEF ClaimInv
    <3> QED
      BY <1>3, <3>2
  <2>2. \A u \in Thread : \A d \in 1..Len(stk[u]) :
              Alive(u) /\ (u = cur => d <= k) /\ FD(stk[u], d).pc \in Claim /\ Alive(u)' =>
                 /\ FD(stk[u], d).arg \in tpages' \ Listed' /\ FD(stk[u], d).arg # cur'
                 /\ state'[FD(stk[u], d).arg] = state[FD(stk[u], d).arg]
    BY <1>2, <1>5, <2>1, CoreParts DEF ClaimInv, ClaimOK
  <2>3. \A i \in 1..Len(fs) : fs[i].pc \notin Claim
    BY <1>2
  <2> QED
    BY <1>3, <1>11, <2>2, <2>3, CoreParts, ClaimKeep
<1>13. StateInv'
  <2>1. \A t \in tpages \ {a} : Pending(t) => Pending(t)'
    <3> SUFFICES ASSUME NEW t \in tpages \ {a}, Pending(t) PROVE Pending(t)'
      OBVIOUS
    <3>1. \A d \in 1..Len(stk[cur]) : d > k => FD(stk[cur], d).arg # t
      BY <1>3
    <3> QED
      BY <1>2, <1>3, <1>11, <3>1, PendingStep
  <2> QED
    BY <1>2, <1>4, <1>5, <2>1, CoreParts DEF StateInv, Listed
<1>14. Tables'
  BY <1>2, CoreParts DEF Tables, Created
<1>15. BootInv'
  <2>1. IdleT \in tpages'
    BY <1>2, CoreParts, IdleUp
  <2>2. \A u \in Thread : \A d \in 1..Len(stk[u]) :
          (u = cur => d <= k) => ~(FD(stk[u], d).pc = "tc_insert" /\ FD(stk[u], d).arg = IdleT)
    BY <1>3, CoreParts DEF BootInv
  <2>3. Booting => BootT \notin Listed'
    BY <1>4, <1>5, CoreParts DEF BootInv
  <2>4. \A i \in 1..Len(fs) : FALSE
    BY <1>2
  <2> QED
    BY <1>2, <1>3, <2>1, <2>2, <2>3, <2>4, CoreParts, BootStep
<1>16. cur \notin Dying' /\ cur \notin Blocked'
  BY <1>5, <1>7
<1>17. \A i \in 1..Len(fs) : fs[i].pc \notin Inside
  BY <1>2
<1>18. "tc_insert" \notin Inside \cup {"irq_return", "unblock"}
  BY DEF Inside
<1> QED
  BY <1>2, <1>5, <1>8, <1>9, <1>10, <1>12, <1>13, <1>14, <1>15, <1>16, <1>17, <1>18, OutsideCore

(* Taking a thread off a list.                                              *)
LEMMA DeleteQueues ==
    ASSUME Linked(heap), NEW l \in {"ready", "blocked"}, NEW t \in Thread, NEW g,
           g = L!list_delete(heap, l, TNode(t))
    PROVE  /\ Linked(g) /\ L!Deleted(heap, l, TNode(t)) = IF t \in Held(heap, l) THEN TNode(t) ELSE NULL
           /\ Held(g, "dying") = Dying
           /\ Held(g, "ready") = IF l = "ready" THEN Ready \ {t} ELSE Ready
           /\ Held(g, "blocked") = IF l = "blocked" THEN Blocked \ {t} ELSE Blocked
BY DeleteHeld DEF Queue, Ready, Blocked, Dying

(* A thread has a node.                                                   *)
LEMMA NodeNotNull == ASSUME NEW t \in Thread PROVE TNode(t) # NULL
<1>1. TNode(t) \in Node /\ NULL \notin Node
  BY Places, NodeAssumption
<1> QED
  BY <1>1

(* The parts that depend on little of a step of the thread on the CPU that  *)
(* is outside schedule: it moves threads off the ready list, and may change *)
(* its own state.                                                           *)
LEMMA ThreadBlockCore == ASSUME TypeOK, TypeOK', Core, ThreadBlock PROVE Core'
<1> PICK node, h : node = L!Deleted(heap, "ready", TNode(cur)) /\ h = L!list_delete(heap, "ready", TNode(cur))
  OBVIOUS
<1>1. /\ At("block") /\ cur' = cur /\ tpages' = tpages /\ parent' = parent /\ threads' = threads
      /\ cur \in Thread
  BY DEF ThreadBlock, tables, memory, TypeOK
<1>2. /\ Linked(h) /\ node = IF cur \in Ready THEN TNode(cur) ELSE NULL
      /\ Held(h, "ready") = Ready \ {cur} /\ Held(h, "blocked") = Blocked /\ Held(h, "dying") = Dying
  BY <1>1, DeleteQueues, CoreParts DEF Ready
<1>3. PICK fs, k :
        /\ fs \in Seq(Frame) /\ k = Len(stk[cur]) - 1 /\ Goto(fs)
        /\ \/ /\ fs = <<>> /\ heap' = h /\ state' = state
           \/ /\ fs = <<Fr("schedule")>> /\ node # NULL /\ state[cur] = "RUNNING"
              /\ state' = [state EXCEPT ![cur] = "BLOCKED"] /\ iflag' = FALSE
              /\ heap' = L!list_insert(h, "blocked", TNode(cur))
  <2>1. <<>> \in Seq(Frame) /\ <<Fr("schedule")>> \in Seq(Frame)
    BY PlainFrames
  <2>2. \/ heap' = h /\ Goto(<<>>) /\ state' = state
        \/ /\ node # NULL /\ state[cur] = "RUNNING" /\ state' = [state EXCEPT ![cur] = "BLOCKED"]
           /\ heap' = L!list_insert(h, "blocked", node) /\ iflag' = FALSE /\ Goto(<<Fr("schedule")>>)
    BY DEF ThreadBlock
  <2>3. node # NULL => node = TNode(cur)
    BY <1>2
  <2> QED
    BY <2>1, <2>2, <2>3
<1>4. /\ Replaced(k, fs) /\ k \in Nat /\ k + 1 = Len(stk[cur])
      /\ Len(stk[cur]) \in 1..Len(stk[cur]) /\ FD(stk[cur], Len(stk[cur])) = Top /\ Top.pc = "block"
      /\ \A d \in 1..Len(stk[cur]) : d > k => d = Len(stk[cur]) /\ FD(stk[cur], d) = Top
  BY <1>1, <1>3, GotoIs
<1>5. state[cur] # "DYING" /\ (state[cur] = "RUNNING" \/ cur = BootT)
  BY <1>1, CoreParts, NotOver DEF Over, Inside
<1>6. cur \notin Dying /\ cur \notin Blocked
  BY <1>1, CoreParts, NoInside DEF Inside
<1>7. /\ Linked(heap') /\ Ready' = Ready \ {cur} /\ Dying' = Dying
      /\ \/ fs = <<>> /\ state' = state /\ Blocked' = Blocked
         \/ /\ fs = <<Fr("schedule")>> /\ state' = [state EXCEPT ![cur] = "BLOCKED"] /\ iflag' = FALSE
            /\ cur \in Ready /\ Blocked' = Blocked \cup {cur}
  <2>1. CASE fs = <<>> /\ heap' = h /\ state' = state
    BY <1>2, <2>1 DEF Ready, Blocked, Dying
  <2>2. CASE /\ fs = <<Fr("schedule")>> /\ node # NULL /\ state' = [state EXCEPT ![cur] = "BLOCKED"]
             /\ iflag' = FALSE /\ heap' = L!list_insert(h, "blocked", TNode(cur))
    <3>1. cur \in Ready
      BY <1>2, <2>2
    <3>2. \A l \in Queue : cur \notin Held(h, l)
      BY <1>2, <1>6 DEF Queue
    <3>3. /\ Linked(heap') /\ Held(heap', "blocked") = Held(h, "blocked") \cup {cur}
          /\ \A l \in Queue \ {"blocked"} : Held(heap', l) = Held(h, l)
      BY <1>1, <1>2, <2>2, <3>2, InsertHeld DEF Queue
    <3> QED
      BY <1>2, <2>2, <3>1, <3>3 DEF Ready, Blocked, Dying, Queue
  <2> QED
    BY <1>3, <2>1, <2>2
<1>8. /\ \A t \in Thread \ {cur} : state'[t] = state[t]
      /\ state'[cur] \in {state[cur], "BLOCKED"}
      /\ Listed' \subseteq Listed
  BY <1>1, <1>7 DEF TypeOK, Listed
<1>9. \A i \in 1..Len(fs) : fs[i] = Fr("schedule")
  <2>1. CASE fs = <<>>
    BY <2>1
  <2>2. CASE fs = <<Fr("schedule")>>
    BY <2>2
  <2> QED
    BY <1>7, <2>1, <2>2
<1>10. Fits(k, fs)
  <2>1. FrameOK(cur, Fr("schedule")) /\ Fr("schedule").pc \notin {"idle_made", "null_return", "exit"} \cup Deep
    BY DEF FrameOK, Fr, Deep
  <2>2. ~Gone(k, {"execute"}) /\ ~Gone(k, {"exit"}) /\ ~Gone(k, {"idle"})
    BY <1>1, <1>3, GoneIs
  <2> QED
    BY <1>9, <2>1, <2>2 DEF Fits
<1>11. Lasting
  <2>1. \A c \in CmdThread : Created(c) => Created(c)'
    <3> SUFFICES ASSUME NEW c \in CmdThread, Created(c) PROVE Created(c)'
      OBVIOUS
    <3>1. CASE c = cur
      BY <1>1, <3>1, CoreParts DEF Created, StateInv
    <3>2. CASE c # cur
      <4>1. state'[c] = state[c]
        BY <1>8, <3>2 DEF Thread
      <4> QED
        BY <1>1, <4>1 DEF Created
    <3> QED
      BY <3>1, <3>2
  <2>2. \A t \in Thread : state[t] = "DYING" => state'[t] = "DYING"
    BY <1>5, <1>8
  <2> QED
    BY <2>1, <2>2 DEF Lasting, Lasts
<1>12. LimboInv'
  <2>1. CASE fs = <<>> /\ state' = state
    BY <1>1, <1>5, <2>1 DEF LimboInv
  <2>2. CASE fs = <<Fr("schedule")>> /\ state' = [state EXCEPT ![cur] = "BLOCKED"]
    <3>1. PICK j \in 1..Len(fs) : j = 1
      BY <2>2
    <3>2. fs[j].pc = "schedule" /\ \A i \in 1..(j - 1) : FALSE
      BY <1>9, <3>1 DEF Fr
    <3>3. \A i \in 1..Len(fs) : fs[i].pc \notin Claim
      BY <1>9 DEF Fr, Claim
    <3>4. state'[cur] # "DYING"
      BY <1>1, <2>2 DEF TypeOK
    <3> QED
      BY <1>1, <1>4, <3>2, <3>3, <3>4, LimboEnter
  <2> QED
    BY <1>7, <2>1, <2>2
<1>13. \A u \in Thread : Alive(u)' <=> Alive(u)
  <2>1. \A u \in Thread : Alive(u)' => Alive(u)
    BY <1>1, <1>8 DEF Alive
  <2> QED
    BY <1>1, <1>8, <2>1 DEF Alive
<1>14. ClaimInv'
  <2>1. \A u \in Thread : \A d \in 1..Len(stk[u]) :
              Alive(u) /\ (u = cur => d <= k) /\ FD(stk[u], d).pc \in Claim /\ Alive(u)' =>
                 /\ FD(stk[u], d).arg \in tpages' \ Listed' /\ FD(stk[u], d).arg # cur'
                 /\ state'[FD(stk[u], d).arg] = state[FD(stk[u], d).arg]
    <3>1. tpages \subseteq Thread
      BY DEF TypeOK
    <3> QED
      BY <1>1, <1>8, <3>1, CoreParts DEF ClaimInv, ClaimOK
  <2>2. \A i \in 1..Len(fs) : fs[i].pc \notin Claim
    BY <1>9 DEF Fr, Claim
  <2> QED
    BY <1>4, <1>13, <2>1, <2>2, CoreParts, ClaimKeep
<1>15. StateInv'
  <2>1. \A t \in tpages : Pending(t) => Pending(t)'
    <3> SUFFICES ASSUME NEW t \in tpages, Pending(t) PROVE Pending(t)'
      OBVIOUS
    <3>1. \A d \in 1..Len(stk[cur]) : d > k => FD(stk[cur], d).pc \notin Inside \cup {"tc_insert"}
      BY <1>4 DEF Inside
    <3> QED
      BY <1>1, <1>4, <1>13, <3>1, PendingStep
  <2>2. Ready \subseteq Thread /\ Blocked \subseteq Thread /\ Dying \subseteq Thread /\ IdleT \in Thread
    BY DEF Ready, Blocked, Dying, Held, Thread
  <2>3. CASE state' = state /\ Blocked' = Blocked
    BY <1>1, <1>7, <2>1, <2>2, <2>3, CoreParts DEF StateInv, Listed
  <2>4. CASE state' = [state EXCEPT ![cur] = "BLOCKED"] /\ cur \in Ready /\ Blocked' = Blocked \cup {cur}
    <3>1. state'[cur] = "BLOCKED"
      BY <1>1, <2>4 DEF TypeOK
    <3>2. StateInv /\ cur \in tpages
      BY CoreParts DEF StateInv
    <3>3. Ready' = Ready \ {cur} /\ Blocked' = Blocked \cup {cur} /\ Dying' = Dying
      BY <1>7, <2>4
    <3>4. \A t \in Ready' : state'[t] = "READY"
      BY <1>8, <2>2, <3>2, <3>3 DEF StateInv
    <3>5. \A t \in Blocked' : state'[t] = "BLOCKED"
      BY <1>8, <2>2, <3>1, <3>2, <3>3 DEF StateInv
    <3>6. \A t \in Dying' : state'[t] = "DYING"
      BY <1>6, <1>8, <2>2, <3>2, <3>3 DEF StateInv
    <3>7. Listed' \subseteq tpages'
      BY <1>1, <1>8, <3>2 DEF StateInv
    <3>8. (\A t \in Thread : state'[t] # "TERMINATED") /\ state'[IdleT] # "DYING"
      BY <1>8, <2>2, <3>1, <3>2 DEF StateInv
    <3>9. ASSUME NEW t \in tpages' \ {BootT}
          PROVE  /\ state'[t] = "BLOCKED" => t \in Blocked'
                 /\ state'[t] = "READY" /\ t # cur' /\ ~Pending(t)' => t \in Ready'
      <4>1. t \in Thread /\ t \in tpages
        BY <1>1, <3>9 DEF TypeOK
      <4>2. CASE t = cur
        BY <1>1, <3>3, <4>2
      <4>3. CASE t # cur
        BY <1>1, <1>8, <2>1, <3>2, <3>3, <4>1, <4>3 DEF StateInv
      <4> QED
        BY <4>2, <4>3
    <3> QED
      BY <1>1, <3>2, <3>4, <3>5, <3>6, <3>7, <3>8, <3>9 DEF StateInv
  <2> QED
    BY <1>7, <2>3, <2>4
<1>16. Tables'
  BY <1>1, <1>11, CoreParts DEF Tables, Lasting, Lasts, Thread
<1>17. BootInv'
  <2>1. \A i \in 1..Len(fs) : fs[i].pc \notin {"tc_insert", "palloc_proc", "boot_sti"}
    BY <1>9 DEF Fr
  <2> QED
    BY <1>1, <1>4, <2>1, LateBoot DEF BootPcs
<1>18. cur \notin Dying' /\ (cur \in Blocked' => At("schedule")' /\ ~iflag')
  <2>1. CASE Blocked' = Blocked
    BY <1>6, <1>7, <2>1
  <2>2. CASE fs = <<Fr("schedule")>> /\ iflag' = FALSE
    <3>1. Len(fs) = 1 /\ fs[1] = Fr("schedule")
      BY <2>2
    <3>2. PICK i \in 1..Len(fs) : i = 1
      BY <3>1
    <3>3. k + Len(fs) + 1 - i = k + 1 /\ Len(stk'[cur]) = k + 1
      BY <1>4, <3>1, <3>2 DEF Replaced, CurReplaced
    <3>a. FD(stk'[cur], k + Len(fs) + 1 - i) = fs[i]
      BY <1>4, FrameNew DEF Replaced
    <3>4. FD(stk'[cur], k + 1) = Fr("schedule")
      BY <3>1, <3>2, <3>3, <3>a
    <3>5. At("schedule")'
      BY <1>1, <1>4, <3>3, <3>4, TopNext DEF Fr
    <3> QED
      BY <1>6, <1>7, <2>2, <3>5
  <2> QED
    BY <1>7, <2>1, <2>2
<1>19. \A i \in 1..Len(fs) : fs[i].pc \notin Inside
  BY <1>9 DEF Fr, Inside
<1>20. "block" \notin Inside \cup {"irq_return", "unblock"}
  BY DEF Inside
<1> QED
  BY <1>1, <1>3, <1>7, <1>8, <1>10, <1>11, <1>12, <1>14, <1>15, <1>16, <1>17, <1>18, <1>19, <1>20, OutsideCore

-----------------------------------------------------------------------------
(* Leaving, freeing and killing.                                          *)

(* Only thread c moves.                                                     *)
LEMMA StateStep ==
    ASSUME TypeOK, TypeOK', StateInv, cur' = cur, tpages' = tpages, NEW c \in Thread,
           \A t \in Thread \ {c} :
             /\ state'[t] = state[t]
             /\ (t \in Ready' <=> t \in Ready) /\ (t \in Blocked' <=> t \in Blocked)
             /\ t \in Dying' => t \in Dying,
           \A t \in tpages \ {c} : Pending(t) => Pending(t)',
           c \in Ready' => state'[c] = "READY" \/ (state'[c] = "RUNNING" /\ c = cur),
           c \in Blocked' => state'[c] = "BLOCKED", c \in Dying' => state'[c] = "DYING",
           c \in Listed' => c \in tpages, state'[c] # "TERMINATED", c = IdleT => state'[c] # "DYING",
           c \in tpages \ {BootT} =>
             /\ state'[c] = "BLOCKED" => c \in Blocked'
             /\ state'[c] = "READY" /\ c # cur /\ ~Pending(c)' => c \in Ready'
    PROVE  StateInv'
<1>1. /\ Ready \subseteq Thread /\ Blocked \subseteq Thread /\ Dying \subseteq Thread /\ IdleT \in Thread
      /\ Ready' \subseteq Thread /\ Blocked' \subseteq Thread /\ Dying' \subseteq Thread
  BY DEF Ready, Blocked, Dying, Held, Thread
<1>2. \A t \in Ready' : state'[t] = "READY" \/ (state'[t] = "RUNNING" /\ t = cur')
  BY <1>1 DEF StateInv
<1>3. \A t \in Blocked' : state'[t] = "BLOCKED"
  BY <1>1 DEF StateInv
<1>4. \A t \in Dying' : state'[t] = "DYING"
  BY <1>1 DEF StateInv
<1>5. Listed' \subseteq tpages'
  BY <1>1 DEF StateInv, Listed
<1>6. (\A t \in Thread : state'[t] # "TERMINATED") /\ state'[IdleT] # "DYING" /\ cur' \in tpages'
  BY <1>1 DEF StateInv
<1>7. ASSUME NEW t \in tpages' \ {BootT}
      PROVE  /\ state'[t] = "BLOCKED" => t \in Blocked'
             /\ state'[t] = "READY" /\ t # cur' /\ ~Pending(t)' => t \in Ready'
  <2>1. t \in Thread /\ t \in tpages
    BY <1>7 DEF TypeOK
  <2>2. CASE t = c
    BY <2>1, <2>2
  <2>3. CASE t # c
    BY <2>1, <2>3 DEF StateInv
  <2> QED
    BY <2>2, <2>3
<1> QED
  BY <1>2, <1>3, <1>4, <1>5, <1>6, <1>7 DEF StateInv

(* thread_exit marks the current thread DYING and puts it on the dying    *)
(* list, with its way out through schedule still ahead.                   *)
LEMMA ThreadExitCore == ASSUME TypeOK, TypeOK', Core, ThreadExit PROVE Core'
<1>1. /\ At("exit") /\ cur' = cur /\ tpages' = tpages /\ parent' = parent /\ threads' = threads
      /\ cur \in Thread /\ heap' = L!list_delete(heap, "ready", TNode(cur))
      /\ state' = [state EXCEPT ![cur] = "DYING"] /\ state'[cur] = "DYING"
      /\ \A t \in Thread \ {cur} : state'[t] = state[t]
      /\ Goto(<<FrN("notify", cur, 0), Fr("schedule")>>)
  BY DEF ThreadExit, tables, memory, TypeOK, ExitLeavesReady
<1>2. FrN("notify", cur, 0) \in Frame /\ Fr("schedule") \in Frame
  BY <1>1, PlainFrames DEF FrN, Frame, Label, OnThread, OnProc, OnEither
<1>3. PICK fs, k :
        /\ fs \in Seq(Frame) /\ k = Len(stk[cur]) - 1
        /\ Goto(fs) /\ fs = <<FrN("notify", cur, 0), Fr("schedule")>>
  <2>1. <<FrN("notify", cur, 0), Fr("schedule")>> \in Seq(Frame)
    BY <1>2
  <2> QED
    BY <1>1, <2>1
<1>f. /\ Len(fs) = 2 /\ fs[1].pc = "notify" /\ fs[2].pc = "schedule"
      /\ \A i \in 1..Len(fs) : fs[i].pc \in {"notify", "schedule"}
  BY <1>3 DEF FrN, Fr
<1>4. /\ Replaced(k, fs) /\ k \in Nat /\ k + 1 = Len(stk[cur])
      /\ Len(stk[cur]) \in 1..Len(stk[cur]) /\ FD(stk[cur], Len(stk[cur])) = Top /\ Top.pc = "exit"
      /\ \A d \in 1..Len(stk[cur]) : d > k => d = Len(stk[cur]) /\ FD(stk[cur], d) = Top
  BY <1>1, <1>3, GotoIs
<1>5. state[cur] # "DYING"
  BY <1>1, CoreParts, NotOver DEF Over, Inside
<1>6. cur \notin Dying /\ cur \notin Blocked
  BY <1>1, CoreParts, NoInside DEF Inside
<1>7. /\ Linked(heap') /\ Ready' = Ready \ {cur} /\ Blocked' = Blocked /\ Dying' = Dying
      /\ Listed' \subseteq Listed
  <2>1. /\ Linked(heap') /\ Held(heap', "ready") = Ready \ {cur}
        /\ Held(heap', "blocked") = Blocked /\ Held(heap', "dying") = Dying
    BY <1>1, DeleteQueues, CoreParts DEF Ready
  <2> QED
    BY <2>1 DEF Ready, Blocked, Dying, Listed
<1>8. cur # IdleT
  <2>1. NextTo(cur, Len(stk[cur]))
    BY <1>1, <1>4, CoreParts DEF StackInv, StackOK
  <2> QED
    BY <1>4, <2>1 DEF NextTo
<1>9. \A d \in 1..k : FD(stk[cur], d).pc \notin Claim
  <2>1. Sorted(cur)
    BY <1>1, CoreParts DEF StackInv, StackOK
  <2>2. \A d \in 1..k : d \in 1..Len(stk[cur]) /\ d < Len(stk[cur])
    BY <1>4
  <2>3. \A d \in 1..k : FD(stk[cur], d).pc \in Deep
    BY <1>4, <2>1, <2>2 DEF Sorted, Deep
  <2> QED
    BY <2>3 DEF Deep, Claim
<1>10. Fits(k, fs)
  <2>1. \A i \in 1..Len(fs) : FrameOK(cur, fs[i])
    BY <1>f DEF FrameOK, Deep
  <2>2. ~Gone(k, {"execute"}) /\ ~Gone(k, {"idle"})
    BY <1>1, <1>3, GoneIs
  <2> QED
    BY <1>1, <1>f, <2>1, <2>2 DEF Fits, Deep
<1>11. Lasting
  BY <1>1 DEF Lasting, Lasts, Created, Thread
<1>12. LimboInv'
  <2>1. PICK j \in 1..Len(fs) : j = 2
    BY <1>f
  <2>2. fs[j].pc \in Inside \cup {"schedule"} /\ \A i \in 1..(j - 1) : fs[i].pc \in Over
    BY <1>f, <2>1 DEF Over
  <2>3. \A i \in 1..Len(fs) : fs[i].pc \notin Claim
    BY <1>f DEF Claim
  <2> QED
    BY <1>1, <1>4, <1>9, <2>2, <2>3, LimboEnter
<1>13. \A u \in Thread : Alive(u)' <=> Alive(u)
  BY <1>1 DEF Alive
<1>14. ClaimInv'
  <2>1. \A u \in Thread : \A d \in 1..Len(stk[u]) :
              Alive(u) /\ (u = cur => d <= k) /\ FD(stk[u], d).pc \in Claim /\ Alive(u)' =>
                 /\ FD(stk[u], d).arg \in tpages' \ Listed' /\ FD(stk[u], d).arg # cur'
                 /\ state'[FD(stk[u], d).arg] = state[FD(stk[u], d).arg]
    <3>1. tpages \subseteq Thread
      BY DEF TypeOK
    <3> QED
      BY <1>1, <1>7, <3>1, CoreParts DEF ClaimInv, ClaimOK
  <2>2. \A i \in 1..Len(fs) : fs[i].pc \notin Claim
    BY <1>f DEF Claim
  <2> QED
    BY <1>4, <1>13, <2>1, <2>2, CoreParts, ClaimKeep
<1>15. StateInv'
  <2>1. \A t \in tpages : Pending(t) => Pending(t)'
    <3> SUFFICES ASSUME NEW t \in tpages, Pending(t) PROVE Pending(t)'
      OBVIOUS
    <3>1. \A d \in 1..Len(stk[cur]) : d > k => FD(stk[cur], d).pc \notin Inside \cup {"tc_insert"}
      BY <1>4 DEF Inside
    <3> QED
      BY <1>1, <1>4, <1>13, <3>1, PendingStep
  <2>2. cur \notin Ready' /\ cur \notin Blocked' /\ cur \notin Dying' /\ cur \notin Listed'
    BY <1>6, <1>7 DEF Listed
  <2> QED
    BY <1>1, <1>7, <1>8, <2>1, <2>2, CoreParts, StateStep
<1>16. Tables'
  BY <1>1, <1>11, CoreParts DEF Tables, Lasting, Lasts, Thread
<1>17. BootInv'
  BY <1>1, <1>4, <1>f, LateBoot DEF BootPcs
<1>18. cur \notin Dying' /\ cur \notin Blocked'
  BY <1>6, <1>7
<1>19. \A i \in 1..Len(fs) : fs[i].pc \notin Inside
  BY <1>f DEF Inside
<1>20. "exit" \notin Inside \cup {"irq_return", "unblock"}
  BY DEF Inside
<1> QED
  BY <1>1, <1>3, <1>7, <1>10, <1>11, <1>12, <1>14, <1>15, <1>16, <1>17, <1>18, <1>19, <1>20, OutsideCore
=============================================================================
