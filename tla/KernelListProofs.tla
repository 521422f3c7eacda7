-------------------------- MODULE KernelListProofs --------------------------
(***************************************************************************)
(* Theorems about module Kernel, for any number of threads, processes,     *)
(* slots, ticks and calls: the lists of the scheduler are properly linked, *)
(* hold the threads their states call for and lead to no freed thread,     *)
(* thread_exit does not return, and only dead threads are freed.           *)
(*                                                                         *)
(* The invariant is KInv, near the end; Core is preserved by each segment  *)
(* of code, one lemma for each here and in KernelProofs.                   *)
(***************************************************************************)
EXTENDS KernelProofs

(* The frame on top of the stack is the only claim on its thread.           *)
LEMMA TopClaim ==
    ASSUME TypeOK, Core, NEW pc \in Claim, At(pc)
    PROVE  /\ ClaimOK(Top) /\ Top.arg \in Thread /\ Top.pc = pc
           /\ \A u \in Thread : \A d \in 1..Len(stk[u]) :
                 /\ Alive(u) /\ (u = cur => d <= Len(stk[cur]) - 1)
                 /\ FD(stk[u], d).pc \in Claim
                 => FD(stk[u], d).arg # Top.arg
<1>1. /\ cur \in Thread /\ Len(stk[cur]) \in Nat \ {0} /\ FD(stk[cur], Len(stk[cur])) = Top /\ Top.pc = pc
  BY TopFrame
<1>2. Alive(cur) /\ Len(stk[cur]) \in 1..Len(stk[cur]) /\ ClaimInv
  BY <1>1, CoreParts DEF Alive
<1>3. ClaimOK(Top)
  BY <1>1, <1>2 DEF ClaimInv
<1>4. Top.arg \in Thread
  BY <1>3 DEF ClaimOK, TypeOK
<1>5. ASSUME NEW u \in Thread, NEW d \in 1..Len(stk[u]), Alive(u), u = cur => d <= Len(stk[cur]) - 1,
             FD(stk[u], d).pc \in Claim, FD(stk[u], d).arg = Top.arg
      PROVE  FALSE
  <2>1. u = cur /\ d = Len(stk[cur])
    BY <1>1, <1>2, <1>5 DEF ClaimInv
  <2> QED
    BY <1>1, <1>5, <2>1
<1> QED
  BY <1>1, <1>3, <1>4, <1>5

(* thread_cleanup frees a thread that is in its hand alone, so nothing is *)
(* left naming it.                                                        *)
LEMMA PfreeThreadCore == ASSUME TypeOK, TypeOK', Core, PfreeThread PROVE Core'
<1>1. <<>> \in Seq(Frame)
  OBVIOUS
<1> PICK fs, k, a : fs \in Seq(Frame) /\ fs = <<>> /\ k = Len(stk[cur]) - 1 /\ a = Top.arg
  BY <1>1
<1>2. /\ At("pfree_thread") /\ Goto(fs) /\ Len(fs) = 0 /\ cur' = cur /\ tpages' = tpages \ {a} /\ parent' = parent
      /\ threads' = threads /\ state' = state /\ heap' = heap
  BY DEF PfreeThread, tables, cpu
<1>3. /\ Replaced(k, fs) /\ cur \in Thread /\ k \in Nat /\ k + 1 = Len(stk[cur])
      /\ Len(stk[cur]) \in 1..Len(stk[cur]) /\ FD(stk[cur], Len(stk[cur])) = Top /\ Top.pc = "pfree_thread"
      /\ \A d \in 1..Len(stk[cur]) : d > k => d = Len(stk[cur]) /\ FD(stk[cur], d) = Top
  BY <1>2, GotoIs
<1>4. a \in tpages \ Listed /\ a # cur /\ state[a] = "DYING" /\ a \in Thread
  BY <1>2, TopClaim DEF ClaimOK, Claim
<1>5. Ready' = Ready /\ Blocked' = Blocked /\ Dying' = Dying /\ Listed' = Listed
  BY <1>2, SameListed
<1>6. state[cur] # "DYING" /\ (state[cur] = "RUNNING" \/ cur = BootT)
  BY <1>2, CoreParts, NotOver DEF Over, Inside
<1>7. cur \notin Dying /\ cur \notin Blocked
  BY <1>2, CoreParts, NoInside DEF Inside
<1>8. Fits(k, fs)
  BY <1>2, GoneIs DEF Fits
<1>9. Lasting
  BY <1>2, <1>4 DEF Lasting, Lasts, Created
<1>10. LimboInv'
  BY <1>2, <1>6 DEF LimboInv
<1>11. \A u \in Thread : Alive(u)' <=> Alive(u)
  BY <1>2, <1>4 DEF Alive
<1>12. ClaimInv'
  <2>1. \A u \in Thread : \A d \in 1..Len(stk[u]) :
              Alive(u) /\ (u = cur => d <= k) /\ FD(stk[u], d).pc \in Claim => FD(stk[u], d).arg # a
    BY <1>2, TopClaim DEF Claim
  <2>2. \A u \in Thread : \A d \in 1..Len(stk[u]) :
              Alive(u) /\ (u = cur => d <= k) /\ FD(stk[u], d).pc \in Claim /\ Alive(u)' =>
                 /\ FD(stk[u], d).arg \in tpages' \ Listed' /\ FD(stk[u], d).arg # cur'
                 /\ state'[FD(stk[u], d).arg] = state[FD(stk[u], d).arg]
    BY <1>2, <1>5, <2>1, CoreParts DEF ClaimInv, ClaimOK
  <2>3. \A i \in 1..Len(fs) : fs[i].pc \notin Claim
    BY <1>2
  <2> QED
    BY <1>3, <1>11, <2>2, <2>3, CoreParts, ClaimKeep
<1>13. StateInv'
  <2>1. \A t \in tpages : Pending(t) => Pending(t)'
    <3> SUFFICES ASSUME NEW t \in tpages, Pending(t) PROVE Pending(t)'
      OBVIOUS
    <3>1. \A d \in 1..Len(stk[cur]) : d > k => FD(stk[cur], d).pc \notin Inside \cup {"tc_insert"}
      BY <1>3 DEF Inside
    <3> QED
      BY <1>2, <1>3, <1>11, <3>1, PendingStep
  <2> QED
    BY <1>2, <1>4, <1>5, <2>1, CoreParts DEF StateInv
<1>14. Tables'
  BY <1>2, <1>9, CoreParts DEF Tables, Lasting, Lasts, Thread
<1>15. BootInv'
  <2>1. IdleT \in tpages'
    <3>1. IdleT \in tpages
      BY <1>2, CoreParts, IdleUp
    <3> QED
      BY <1>2, <1>4, <3>1, CoreParts DEF StateInv
  <2>2. \A i \in 1..Len(fs) : FALSE
    BY <1>2
  <2> QED
    BY <1>2, <1>3, <2>1, <2>2, LateBoot DEF BootPcs
<1>16. cur \notin Dying' /\ cur \notin Blocked'
  BY <1>5, <1>7
<1>17. \A i \in 1..Len(fs) : fs[i].pc \notin Inside
  BY <1>2
<1>18. "pfree_thread" \notin Inside \cup {"irq_return", "unblock"} /\ Linked(heap')
  BY <1>2, CoreParts DEF Inside
<1> QED
  BY <1>2, <1>8, <1>9, <1>10, <1>12, <1>13, <1>14, <1>15, <1>16, <1>17, <1>18, OutsideCore

(* thread_cleanup takes the first dying thread off the list and has it in *)
(* hand alone.                                                            *)
LEMMA ThreadCleanupCore == ASSUME TypeOK, TypeOK', Core, ThreadCleanup PROVE Core'
<1> PICK t, k, p, left : t = Top.arg /\ k = Len(stk[cur]) - 1 /\ p = parent[t] /\ left = Decrement(num_live[p])
  OBVIOUS
<1>1. /\ At("cleanup") /\ cur' = cur /\ tpages' = tpages /\ parent' = parent /\ state' = state /\ heap' = heap
  BY DEF ThreadCleanup, memory, cpu
<1>2. t \in tpages \ Listed /\ t # cur /\ state[t] = "DYING" /\ t \in Thread /\ p \in Proc /\ cur \in Thread
  BY <1>1, TopClaim DEF ClaimOK, Claim, TypeOK
<1>3. PICK fs \in Seq(Frame) :
        /\ Goto(fs) /\ Len(fs) \in {1, 4}
        /\ threads' = [threads EXCEPT ![p] = [@ EXCEPT ![child_num[t]] = NULL]]
        /\ \A i \in 1..Len(fs) : fs[i].pc \in {"notify", "proc_cleanup", "pfree_proc", "pfree_thread"}
                                 /\ (fs[i].pc = "pfree_thread" => i = Len(fs) /\ fs[i].arg = t)
  <2>1. /\ threads' = [threads EXCEPT ![p] = [@ EXCEPT ![child_num[t]] = NULL]]
        /\ Goto((IF LastGone(left)
                 THEN <<FrN("notify", p, 0), FrA("proc_cleanup", p), FrA("pfree_proc", p)>>
                 ELSE <<>>) \o <<FrA("pfree_thread", t)>>)
    BY <1>2 DEF ThreadCleanup
  <2>2. /\ FrN("notify", p, 0) \in Frame /\ FrA("proc_cleanup", p) \in Frame
        /\ FrA("pfree_proc", p) \in Frame /\ FrA("pfree_thread", t) \in Frame
    BY <1>2 DEF FrN, FrA, Frame, Label, OnThread, OnProc, OnEither
  <2>3. CASE LastGone(left)
    <3>0. /\ <<FrN("notify", p, 0), FrA("proc_cleanup", p), FrA("pfree_proc", p)>> \in Seq(Frame)
          /\ <<FrA("pfree_thread", t)>> \in Seq(Frame)
      BY <2>2
    <3>1. PICK f \in Seq(Frame) : f = <<FrN("notify", p, 0), FrA("proc_cleanup", p), FrA("pfree_proc", p)>>
      BY <3>0
    <3>2. PICK g \in Seq(Frame) : g = <<FrA("pfree_thread", t)>>
      BY <3>0
    <3>a. f \o g \in Seq(Frame)
      OBVIOUS
    <3>3. PICK q \in Seq(Frame) : q = f \o g
      BY <3>a
    <3>4. Goto(q)
      BY <2>1, <2>3, <3>1, <3>2, <3>3
    <3>5. Len(q) = 4 /\ q[1] = f[1] /\ q[2] = f[2] /\ q[3] = f[3] /\ q[4] = g[1]
      BY <3>1, <3>2, <3>3
    <3>6. q[1].pc = "notify" /\ q[2].pc = "proc_cleanup" /\ q[3].pc = "pfree_proc"
          /\ q[4].pc = "pfree_thread" /\ q[4].arg = t
      BY <3>1, <3>2, <3>5 DEF FrN, FrA
    <3>7. \A i \in 1..Len(q) : q[i].pc \in {"notify", "proc_cleanup", "pfree_proc", "pfree_thread"}
                                 /\ (q[i].pc = "pfree_thread" => i = Len(q) /\ q[i].arg = t)
      <4>1. \A i \in 1..Len(q) : i = 1 \/ i = 2 \/ i = 3 \/ i = 4
        BY <3>5
      <4> QED
        BY <3>5, <3>6, <4>1
    <3> QED
      BY <2>1, <3>4, <3>5, <3>7
  <2>4. CASE ~LastGone(left)
    <3>0. <<FrA("pfree_thread", t)>> \in Seq(Frame)
      BY <2>2
    <3>1. PICK q \in Seq(Frame) : q = <<FrA("pfree_thread", t)>>
      BY <3>0
    <3>2. <<>> \o <<FrA("pfree_thread", t)>> = <<FrA("pfree_thread", t)>>
      OBVIOUS
    <3>3. Goto(q)
      BY <2>1, <2>4, <3>1, <3>2
    <3>4. Len(q) = 1 /\ q[1].pc = "pfree_thread" /\ q[1].arg = t
      BY <3>1 DEF FrA
    <3>5. \A i \in 1..Len(q) : i = Len(q) /\ q[i].pc = "pfree_thread" /\ q[i].arg = t
      BY <3>4
    <3> QED
      BY <2>1, <3>3, <3>4, <3>5
  <2> QED
    BY <2>3, <2>4
<1>4. /\ Replaced(k, fs) /\ k \in Nat /\ k + 1 = Len(stk[cur])
      /\ Len(stk[cur]) \in 1..Len(stk[cur]) /\ FD(stk[cur], Len(stk[cur])) = Top /\ Top.pc = "cleanup"
      /\ \A d \in 1..Len(stk[cur]) : d > k => d = Len(stk[cur]) /\ FD(stk[cur], d) = Top
  BY <1>1, <1>3, GotoIs
<1>5. Ready' = Ready /\ Blocked' = Blocked /\ Dying' = Dying /\ Listed' = Listed
  BY <1>1, SameListed
<1>6. state[cur] # "DYING" /\ (state[cur] = "RUNNING" \/ cur = BootT)
  BY <1>1, CoreParts, NotOver DEF Over, Inside
<1>7. cur \notin Dying /\ cur \notin Blocked
  BY <1>1, CoreParts, NoInside DEF Inside
<1>8. Fits(k, fs)
  <2>1. \A i \in 1..Len(fs) : FrameOK(cur, fs[i]) /\ fs[i].pc \notin {"idle_made", "null_return", "exit"} \cup Deep
    BY <1>3 DEF FrameOK, Deep
  <2>2. ~Gone(k, {"execute"}) /\ ~Gone(k, {"exit"}) /\ ~Gone(k, {"idle"})
    BY <1>1, GoneIs
  <2> QED
    BY <2>1, <2>2 DEF Fits
<1>9. Lasting
  BY <1>1 DEF Lasting, Lasts, Created
<1>10. LimboInv'
  BY <1>1, <1>6 DEF LimboInv
<1>11. \A u \in Thread : Alive(u)' <=> Alive(u)
  BY <1>1 DEF Alive
<1>12. ClaimInv'
  <2>1. \A u \in Thread : \A d \in 1..Len(stk[u]) :
              Alive(u) /\ (u = cur => d <= k) /\ FD(stk[u], d).pc \in Claim => FD(stk[u], d).arg # t
    BY <1>1, TopClaim DEF Claim
  <2>2. \A u \in Thread : \A d \in 1..Len(stk[u]) :
              Alive(u) /\ (u = cur => d <= k) /\ FD(stk[u], d).pc \in Claim =>
                 /\ FD(stk[u], d).arg # t
                 /\ Alive(u)' => /\ FD(stk[u], d).arg \in tpages' \ Listed'
                                 /\ FD(stk[u], d).arg # cur'
                                 /\ state'[FD(stk[u], d).arg] = state[FD(stk[u], d).arg]
    BY <1>1, <1>5, <2>1, CoreParts DEF ClaimInv, ClaimOK
  <2>3. \A i \in 1..Len(fs) : fs[i].pc \in Claim => i = Len(fs) /\ fs[i].arg = t /\ fs[i].pc = "pfree_thread"
    BY <1>3 DEF Claim
  <2>4. \A i \in 1..Len(fs) : fs[i].pc \in Claim => ClaimOK(fs[i])'
    BY <1>1, <1>2, <1>5, <2>3 DEF ClaimOK
  <2>5. \A i, j \in 1..Len(fs) : fs[i].pc \in Claim /\ fs[j].pc \in Claim => i = j
    BY <2>3
  <2>6. \A u \in Thread : \A d \in 1..Len(stk[u]) :
              Alive(u) /\ (u = cur => d <= k) /\ FD(stk[u], d).pc \in Claim =>
                 /\ \A i \in 1..Len(fs) : fs[i].pc \in Claim => FD(stk[u], d).arg # fs[i].arg
                 /\ Alive(u)' => /\ FD(stk[u], d).arg \in tpages' \ Listed'
                                 /\ FD(stk[u], d).arg # cur'
                                 /\ state'[FD(stk[u], d).arg] = state[FD(stk[u], d).arg]
    BY <2>2, <2>3
  <2>7. \A u \in Thread : Alive(u)' => Alive(u)
    BY <1>11
  <2>8. ClaimInv /\ Replaced(k, fs)
    BY <1>4, CoreParts
  <2> QED
    BY <2>4, <2>5, <2>6, <2>7, <2>8, ClaimStep
<1>13. StateInv'
  <2>1. \A u \in tpages : Pending(u) => Pending(u)'
    <3> SUFFICES ASSUME NEW u \in tpages, Pending(u) PROVE Pending(u)'
      OBVIOUS
    <3>1. \A d \in 1..Len(stk[cur]) : d > k => FD(stk[cur], d).pc \notin Inside \cup {"tc_insert"}
      BY <1>4 DEF Inside
    <3> QED
      BY <1>1, <1>4, <1>11, <3>1, PendingStep
  <2> QED
    BY <1>1, <1>5, <2>1, CoreParts DEF StateInv
<1>14. Tables'
  <2>1. \A q \in CmdProc : \A i \in Slot : threads'[q][i] \in {threads[q][i], NULL}
    <3> SUFFICES ASSUME NEW q \in CmdProc, NEW i \in Slot PROVE threads'[q][i] \in {threads[q][i], NULL}
      OBVIOUS
    <3>1. q \in Proc /\ threads \in [Proc -> [Slot -> Thread \cup {NULL}]]
      BY DEF Proc, TypeOK
    <3>2. threads'[q] = IF q = p THEN [threads[p] EXCEPT ![child_num[t]] = NULL] ELSE threads[q]
      BY <1>2, <1>3, <3>1
    <3>3. threads[q] \in [Slot -> Thread \cup {NULL}]
      BY <3>1
    <3> QED
      BY <3>2, <3>3
  <2> QED
    BY <1>1, <2>1, CoreParts DEF Tables, Created
<1>15. BootInv'
  <2>1. \A i \in 1..Len(fs) : fs[i].pc \notin {"tc_insert", "palloc_proc", "boot_sti"}
    BY <1>3
  <2> QED
    BY <1>1, <1>4, <2>1, LateBoot DEF BootPcs
<1>16. cur \notin Dying' /\ cur \notin Blocked'
  BY <1>5, <1>7
<1>17. \A i \in 1..Len(fs) : fs[i].pc \notin Inside
  BY <1>3 DEF Inside
<1>18. "cleanup" \notin Inside \cup {"irq_return", "unblock"} /\ Linked(heap')
  BY <1>1, CoreParts DEF Inside
<1> QED
  BY <1>1, <1>3, <1>8, <1>9, <1>10, <1>12, <1>13, <1>14, <1>15, <1>16, <1>17, <1>18, OutsideCore

(* What a killed thread is, if the kill is not one of the incidents.        *)
LEMMA KillTarget ==
    ASSUME TypeOK, Core, SwitchInv, Without(ListFaults)', KillRest, NEW t, t = Top.arg
    PROVE  /\ t \in CmdThread /\ t \in Thread /\ t \in tpages /\ t # cur /\ t # BootT /\ t # IdleT
           /\ state[t] \in {"READY", "BLOCKED"}
           /\ t \in Held(heap, IF state[t] = "READY" THEN "ready" ELSE "blocked")
           /\ \A u \in Thread : \A d \in 1..Len(stk[u]) :
                 FD(stk[u], d).pc = "tc_insert" => u # t /\ FD(stk[u], d).arg # t
<1>1. At("kill_rest") /\ Without(ListFaults) /\ ~HalfMade(t) /\ state[t] # "DYING"
  BY DEF KillRest, Without, ListFaults
<1>2. t \in CmdThread /\ t # cur /\ Created(t) /\ t \in Thread
  BY <1>1, TopOK DEF FrameOK, Thread
<1>3. t # BootT /\ t # IdleT
  BY <1>2, ThreadsDiffer
<1>4. t \in tpages
  BY <1>1, <1>2 DEF Created
<1>5. state[t] \in {"READY", "BLOCKED"}
  BY <1>1, <1>2, OthersNotRunning, CoreParts DEF TypeOK, State, StateInv
<1>6. ASSUME NEW u \in Thread, NEW d \in 1..Len(stk[u]), FD(stk[u], d).pc = "tc_insert"
      PROVE  u # t /\ FD(stk[u], d).arg # t
  <2>1. Len(stk[u]) \in Nat
    BY DEF TypeOK
  <2>2. Len(stk[u]) + 1 - d \in 1..Len(stk[u])
    BY <2>1
  <2> QED
    BY <1>1, <1>6, <2>2 DEF HalfMade, FD
<1>7. ~Pending(t)
  <2>1. \A d \in 1..Len(stk[cur]) : FD(stk[cur], d).pc \notin Inside
    BY <1>1, CoreParts, NoInside DEF Inside, TypeOK
  <2> QED
    BY <1>6, <2>1 DEF Pending
<1>8. t \in Held(heap, IF state[t] = "READY" THEN "ready" ELSE "blocked")
  BY <1>2, <1>3, <1>4, <1>5, <1>7, CoreParts DEF StateInv, Ready, Blocked
<1> QED
  BY <1>2, <1>3, <1>4, <1>5, <1>6, <1>8

(* The rest of thread_kill takes its target off the ready or the blocked  *)
(* list and has it in hand alone, to be notified and freed.               *)
LEMMA KillRestCore == ASSUME TypeOK, TypeOK', Core, SwitchInv, Without(ListFaults)', KillRest PROVE Core'
<1> PICK t, k, l : /\ t = Top.arg /\ k = Len(stk[cur]) - 1
                   /\ l = IF state[t] = "READY" THEN "ready" ELSE "blocked"
  OBVIOUS
<1>1. /\ At("kill_rest") /\ cur' = cur /\ tpages' = tpages /\ parent' = parent /\ threads' = threads
      /\ cur \in Thread
  BY DEF KillRest, tables, memory, cpu, TypeOK
<1>2. /\ t \in Thread /\ t \in CmdThread /\ t \in tpages /\ t # cur /\ t # BootT /\ t # IdleT
      /\ state[t] \in {"READY", "BLOCKED"} /\ t \in Held(heap, l) /\ l \in {"ready", "blocked"}
  BY KillTarget
<1>3. \A u \in Thread : \A d \in 1..Len(stk[u]) :
         FD(stk[u], d).pc = "tc_insert" => u # t /\ FD(stk[u], d).arg # t
  BY KillTarget
<1>4. PICK g : g = L!list_delete(heap, l, TNode(t))
  OBVIOUS
<1>5. /\ Linked(g) /\ L!Deleted(heap, l, TNode(t)) = TNode(t) /\ TNode(t) # NULL
      /\ Held(g, "dying") = Dying
      /\ Held(g, "ready") = IF l = "ready" THEN Ready \ {t} ELSE Ready
      /\ Held(g, "blocked") = IF l = "blocked" THEN Blocked \ {t} ELSE Blocked
  BY <1>2, <1>4, CoreParts, DeleteQueues, NodeNotNull
<1>6. /\ heap' = g /\ state' = [state EXCEPT ![t] = "DYING"]
      /\ Goto(<<FrN("notify", t, -1), FrA("cleanup", t)>> \o <<Fr("sti")>>)
  <2>1. l = CASE state[t] = "READY" -> "ready" [] OTHER -> "blocked"
    BY <1>2
  <2> QED
    BY <1>2, <1>4, <1>5, <2>1 DEF KillRest, KilledLeaves
<1>7. state'[t] = "DYING" /\ \A u \in Thread \ {t} : state'[u] = state[u]
  BY <1>2, <1>6 DEF TypeOK
<1>8. PICK fs \in Seq(Frame) :
        /\ Goto(fs) /\ Len(fs) = 3
        /\ \A i \in 1..Len(fs) : fs[i].pc \in {"notify", "cleanup", "sti"}
                                 /\ (fs[i].pc = "cleanup" => i = 2 /\ fs[i].arg = t)
  <2>a. FrN("notify", t, -1) \in Frame
    <3>1. -1 \in Int
      OBVIOUS
    <3>2. PICK n \in Int : n = -1
      BY <3>1
    <3>3. FrN("notify", t, n) \in Frame
      BY <1>2 DEF FrN, Frame, Label, OnThread, OnProc, OnEither
    <3> QED
      BY <3>2, <3>3
  <2>b. FrA("cleanup", t) \in Frame
    BY <1>2 DEF FrA, Frame, Label, OnThread, OnProc, OnEither
  <2>c. Fr("sti") \in Frame
    BY PlainFrames
  <2>1. FrN("notify", t, -1) \in Frame /\ FrA("cleanup", t) \in Frame /\ Fr("sti") \in Frame
    BY <2>a, <2>b, <2>c
  <2>2. <<FrN("notify", t, -1), FrA("cleanup", t)>> \in Seq(Frame) /\ <<Fr("sti")>> \in Seq(Frame)
    BY <2>1
  <2>3. PICK f \in Seq(Frame) : f = <<FrN("notify", t, -1), FrA("cleanup", t)>>
    BY <2>2
  <2>4. PICK h \in Seq(Frame) : h = <<Fr("sti")>>
    BY <2>2
  <2>5. f \o h \in Seq(Frame)
    OBVIOUS
  <2>6. PICK q \in Seq(Frame) : q = f \o h
    BY <2>5
  <2>7. Goto(q)
    BY <1>6, <2>3, <2>4, <2>6
  <2>8. Len(q) = 3 /\ q[1] = f[1] /\ q[2] = f[2] /\ q[3] = h[1]
    BY <2>3, <2>4, <2>6
  <2>9. q[1].pc = "notify" /\ q[2].pc = "cleanup" /\ q[2].arg = t /\ q[3].pc = "sti"
    BY <2>3, <2>4, <2>8 DEF FrN, FrA, Fr
  <2>10. \A i \in 1..Len(q) : q[i].pc \in {"notify", "cleanup", "sti"}
                                 /\ (q[i].pc = "cleanup" => i = 2 /\ q[i].arg = t)
    <3>1. \A i \in 1..Len(q) : i = 1 \/ i = 2 \/ i = 3
      BY <2>8
    <3> QED
      BY <2>9, <3>1
  <2> QED
    BY <2>7, <2>8, <2>10
<1>9. /\ Replaced(k, fs) /\ k \in Nat /\ k + 1 = Len(stk[cur])
      /\ Len(stk[cur]) \in 1..Len(stk[cur]) /\ FD(stk[cur], Len(stk[cur])) = Top /\ Top.pc = "kill_rest"
      /\ \A d \in 1..Len(stk[cur]) : d > k => d = Len(stk[cur]) /\ FD(stk[cur], d) = Top
  BY <1>1, <1>8, GotoIs
<1>10. state[cur] # "DYING" /\ (state[cur] = "RUNNING" \/ cur = BootT)
  BY <1>1, CoreParts, NotOver DEF Over, Inside
<1>11. cur \notin Dying /\ cur \notin Blocked
  BY <1>1, CoreParts, NoInside DEF Inside
<1>12. /\ Linked(heap') /\ Dying' = Dying /\ t \notin Listed' /\ Listed' \subseteq Listed /\ t \in Listed
       /\ \A u \in Thread \ {t} : (u \in Ready' <=> u \in Ready) /\ (u \in Blocked' <=> u \in Blocked)
  <2>1. /\ Ready' = IF l = "ready" THEN Ready \ {t} ELSE Ready
        /\ Blocked' = IF l = "blocked" THEN Blocked \ {t} ELSE Blocked
        /\ Dying' = Dying
    BY <1>5, <1>6 DEF Ready, Blocked, Dying
  <2>2. \A q \in Queue : t \in Held(heap, q) => q = l
    BY <1>2, CoreParts, HeldOnce DEF Queue
  <2>3. /\ t \in Ready => l = "ready"
        /\ t \in Blocked => l = "blocked"
        /\ t \notin Dying
    BY <1>2, <2>2 DEF Queue, Ready, Blocked, Dying
  <2>4. t \in Ready \/ t \in Blocked
    BY <1>2 DEF Ready, Blocked
  <2> QED
    BY <1>5, <1>6, <2>1, <2>3, <2>4 DEF Listed
<1>13. Fits(k, fs)
  <2>1. \A i \in 1..Len(fs) : FrameOK(cur, fs[i]) /\ fs[i].pc \notin {"idle_made", "null_return", "exit"} \cup Deep
    BY <1>8 DEF FrameOK, Deep
  <2>2. ~Gone(k, {"execute"}) /\ ~Gone(k, {"exit"}) /\ ~Gone(k, {"idle"})
    BY <1>1, GoneIs
  <2> QED
    BY <2>1, <2>2 DEF Fits
<1>14. Lasting
  BY <1>1, <1>2, <1>7 DEF Lasting, Lasts, Created, Thread
<1>15. LimboInv'
  BY <1>1, <1>2, <1>7, <1>10 DEF LimboInv
<1>16. \A u \in Thread : /\ Alive(u)' => Alive(u)
                         /\ u # t /\ Alive(u) => Alive(u)'
  BY <1>1, <1>2, <1>7 DEF Alive
<1>17. ClaimInv'
  <2>1. \A u \in Thread : \A d \in 1..Len(stk[u]) :
              Alive(u) /\ (u = cur => d <= k) /\ FD(stk[u], d).pc \in Claim => ClaimOK(FD(stk[u], d))
    BY CoreParts DEF ClaimInv
  <2>2. \A i \in 1..Len(fs) : fs[i].pc \in Claim => i = 2 /\ fs[i].arg = t /\ fs[i].pc = "cleanup"
    BY <1>8 DEF Claim
  <2>3. \A u \in Thread : \A d \in 1..Len(stk[u]) :
              Alive(u) /\ (u = cur => d <= k) /\ FD(stk[u], d).pc \in Claim =>
                 /\ \A i \in 1..Len(fs) : fs[i].pc \in Claim => FD(stk[u], d).arg # fs[i].arg
                 /\ Alive(u)' => /\ FD(stk[u], d).arg \in tpages' \ Listed'
                                 /\ FD(stk[u], d).arg # cur'
                                 /\ state'[FD(stk[u], d).arg] = state[FD(stk[u], d).arg]
    <3>1. tpages \subseteq Thread
      BY DEF TypeOK
    <3> QED
      BY <1>1, <1>7, <1>12, <2>1, <2>2, <3>1 DEF ClaimOK
  <2>4. \A i \in 1..Len(fs) : fs[i].pc \in Claim => ClaimOK(fs[i])'
    BY <1>1, <1>2, <1>7, <1>12, <2>2 DEF ClaimOK
  <2>5. \A i, j \in 1..Len(fs) : fs[i].pc \in Claim /\ fs[j].pc \in Claim => i = j
    BY <2>2
  <2>6. \A u \in Thread : Alive(u)' => Alive(u)
    BY <1>16
  <2>7. ClaimInv /\ Replaced(k, fs)
    BY <1>9, CoreParts
  <2> QED
    BY <2>3, <2>4, <2>5, <2>6, <2>7, ClaimStep
<1>18. StateInv'
  <2>1. \A u \in tpages : Pending(u) => Pending(u)'
    <3> SUFFICES ASSUME NEW u \in tpages, Pending(u) PROVE Pending(u)'
      OBVIOUS
    <3>1. \A d \in 1..Len(stk[cur]) : d > k => FD(stk[cur], d).pc \notin Inside \cup {"tc_insert"}
      BY <1>9 DEF Inside
    <3>2. \A v \in Thread : \A d \in 1..Len(stk[v]) : FD(stk[v], d).pc = "tc_insert" /\ Alive(v) => Alive(v)'
      BY <1>3, <1>16
    <3> QED
      BY <1>1, <1>9, <3>1, <3>2, PendingStep
  <2>2. t \notin Ready' /\ t \notin Blocked' /\ t \notin Dying' /\ t \notin Listed'
    BY <1>12 DEF Listed
  <2> QED
    BY <1>1, <1>2, <1>7, <1>12, <2>1, <2>2, CoreParts, StateStep
<1>19. Tables'
  BY <1>1, <1>14, CoreParts DEF Tables, Lasting, Lasts, Thread
<1>20. BootInv'
  <2>1. \A i \in 1..Len(fs) : fs[i].pc \notin {"tc_insert", "palloc_proc", "boot_sti"}
    BY <1>8
  <2> QED
    BY <1>1, <1>9, <2>1, LateBoot DEF BootPcs
<1>21. cur \notin Dying' /\ cur \notin Blocked'
  BY <1>2, <1>1, <1>11, <1>12
<1>22. \A i \in 1..Len(fs) : fs[i].pc \notin Inside
  BY <1>8 DEF Inside
<1>23. "kill_rest" \notin Inside \cup {"irq_return", "unblock"}
  BY DEF Inside
<1>24. \A u \in Thread \ {cur} : state'[u] \in {"READY", "BLOCKED"} => state[u] \in {"READY", "BLOCKED"}
  BY <1>7
<1> QED
  BY <1>1, <1>8, <1>9, <1>12, <1>13, <1>14, <1>15, <1>17, <1>18, <1>19, <1>20, <1>21, <1>22, <1>23, <1>24, OutsideCore

-----------------------------------------------------------------------------
(* schedule and thread_unblock.                                           *)

(* finish_schedule takes at most one thread off the dying list.             *)
LEMMA FinishScheduleCore == ASSUME TypeOK, TypeOK', Core, FinishSchedule PROVE Core'
<1> PICK k : k = Len(stk[cur]) - 1
  OBVIOUS
<1>1. /\ At("finish") /\ cur' = cur /\ tpages' = tpages /\ parent' = parent /\ threads' = threads
      /\ cur \in Thread /\ state' = [state EXCEPT ![cur] = "RUNNING"] /\ state'[cur] = "RUNNING"
      /\ \A u \in Thread \ {cur} : state'[u] = state[u]
  BY DEF FinishSchedule, memory, TypeOK
<1>2. state[cur] # "DYING"
  BY <1>1, CoreParts, NotOver DEF Over, Inside
<1>3. cur \notin Dying /\ cur \notin Blocked
  BY <1>1, CoreParts, NoInside DEF Inside
<1>4. PICK fs \in Seq(Frame), d \in Thread :
        /\ Goto(fs) /\ Linked(heap') /\ Ready' = Ready /\ Blocked' = Blocked /\ Dying' \subseteq Dying
        /\ \A i \in 1..Len(fs) : fs[i].pc \in {"cleanup", "sti"}
        /\ \A i \in 1..Len(fs) : fs[i].pc = "cleanup" =>
              i = 1 /\ fs[i].arg = d /\ d \in Dying /\ d \notin Dying'
  <2>1. CASE ~SomeDying(heap)
    <3>1. Goto(<<>>) /\ heap' = heap /\ <<>> \in Seq(Frame) /\ Len(<<>>) = 0
      BY <2>1 DEF FinishSchedule
    <3>2. Ready' = Ready /\ Blocked' = Blocked /\ Dying' = Dying /\ Linked(heap')
      BY <3>1, SameListed, CoreParts
    <3>3. PICK fs \in Seq(Frame) : fs = <<>>
      BY <3>1
    <3>4. Goto(fs) /\ \A i \in 1..Len(fs) : FALSE
      BY <3>1, <3>3
    <3>5. Dying' \subseteq Dying
      BY <3>2
    <3> QED
      BY <1>1, <3>2, <3>4, <3>5
  <2>2. CASE SomeDying(heap)
    <3>1. PICK d \in Thread : /\ L!Popped(heap, "dying") = TNode(d) /\ heap' = L!list_pop(heap, "dying")
                              /\ Goto(<<FrA("cleanup", d), Fr("sti")>>)
      BY <2>2 DEF FinishSchedule
    <3>2. /\ Linked(heap') /\ d \in Held(heap, "dying") /\ Held(heap', "dying") = Held(heap, "dying") \ {d}
          /\ \A l \in Queue \ {"dying"} : Held(heap', l) = Held(heap, l)
      <4>1. Linked(heap) /\ Held(heap, "dying") # {}
        BY <2>2, PopHeld, CoreParts DEF SomeDying, Queue
      <4>2. PICK t \in Held(heap, "dying") :
              /\ L!Popped(heap, "dying") = TNode(t)
              /\ Linked(heap') /\ Held(heap', "dying") = Held(heap, "dying") \ {t}
              /\ \A l \in Queue \ {"dying"} : Held(heap', l) = Held(heap, l)
        BY <3>1, <4>1, PopHeld DEF Queue
      <4>3. t \in Thread
        BY DEF Held
      <4>4. t = d
        BY <3>1, <4>2, <4>3, Places
      <4> QED
        BY <4>2, <4>4
    <3>3. /\ Ready' = Ready /\ Blocked' = Blocked /\ Dying' \subseteq Dying /\ d \in Dying /\ d \notin Dying'
      BY <3>2 DEF Ready, Blocked, Dying, Queue
    <3>a. FrA("cleanup", d) \in Frame
      BY DEF FrA, Frame, Label, OnThread, OnProc, OnEither
    <3>4. FrA("cleanup", d) \in Frame /\ Fr("sti") \in Frame
      BY <3>a, PlainFrames
    <3>5. <<FrA("cleanup", d), Fr("sti")>> \in Seq(Frame)
      BY <3>4
    <3>6. PICK fs \in Seq(Frame) : fs = <<FrA("cleanup", d), Fr("sti")>>
      BY <3>5
    <3>7. Len(fs) = 2 /\ fs[1].pc = "cleanup" /\ fs[1].arg = d /\ fs[2].pc = "sti"
      BY <3>6 DEF FrA, Fr
    <3>8. \A i \in 1..Len(fs) : i = 1 \/ i = 2
      BY <3>7
    <3>9. Goto(fs)
      BY <3>1, <3>6
    <3> QED
      BY <3>2, <3>3, <3>7, <3>8, <3>9
  <2> QED
    BY <2>1, <2>2
<1>5. /\ Replaced(k, fs) /\ k \in Nat /\ k + 1 = Len(stk[cur])
      /\ Len(stk[cur]) \in 1..Len(stk[cur]) /\ FD(stk[cur], Len(stk[cur])) = Top /\ Top.pc = "finish"
      /\ \A e \in 1..Len(stk[cur]) : e > k => e = Len(stk[cur]) /\ FD(stk[cur], e) = Top
  BY <1>1, <1>4, GotoIs
<1>6. Listed' \subseteq Listed
  BY <1>4 DEF Listed
<1>7. Fits(k, fs)
  <2>1. \A i \in 1..Len(fs) : FrameOK(cur, fs[i]) /\ fs[i].pc \notin {"idle_made", "null_return", "exit"} \cup Deep
    BY <1>4 DEF FrameOK, Deep
  <2>2. ~Gone(k, {"execute"}) /\ ~Gone(k, {"exit"}) /\ ~Gone(k, {"idle"})
    BY <1>1, GoneIs
  <2> QED
    BY <2>1, <2>2 DEF Fits
<1>8. Lasting
  <2>1. cur \in tpages
    BY CoreParts DEF StateInv
  <2> QED
    BY <1>1, <1>2, <2>1 DEF Lasting, Lasts, Created, Thread
<1>9. LimboInv'
  BY <1>1 DEF LimboInv
<1>10. \A u \in Thread : Alive(u)' <=> Alive(u)
  BY <1>1 DEF Alive
<1>11. ClaimInv'
  <2>1. \A u \in Thread : \A e \in 1..Len(stk[u]) :
              Alive(u) /\ (u = cur => e <= k) /\ FD(stk[u], e).pc \in Claim => ClaimOK(FD(stk[u], e))
    BY CoreParts DEF ClaimInv
  <2>2. \A i \in 1..Len(fs) : fs[i].pc \in Claim =>
              i = 1 /\ fs[i].arg = d /\ fs[i].pc = "cleanup" /\ d \in Dying /\ d \notin Dying'
    BY <1>4 DEF Claim
  <2>3. \A u \in Thread : \A e \in 1..Len(stk[u]) :
              Alive(u) /\ (u = cur => e <= k) /\ FD(stk[u], e).pc \in Claim =>
                 /\ \A i \in 1..Len(fs) : fs[i].pc \in Claim => FD(stk[u], e).arg # fs[i].arg
                 /\ Alive(u)' => /\ FD(stk[u], e).arg \in tpages' \ Listed'
                                 /\ FD(stk[u], e).arg # cur'
                                 /\ state'[FD(stk[u], e).arg] = state[FD(stk[u], e).arg]
    <3>1. tpages \subseteq Thread
      BY DEF TypeOK
    <3> QED
      BY <1>1, <1>6, <2>1, <2>2, <3>1 DEF ClaimOK, Listed
  <2>4. \A i \in 1..Len(fs) : fs[i].pc \in Claim => ClaimOK(fs[i])'
    <3>1. d \in Dying /\ d \notin Dying' => d \in tpages' /\ d \notin Listed' /\ d # cur' /\ state'[d] = "DYING"
      <4> SUFFICES ASSUME d \in Dying, d \notin Dying'
                   PROVE  d \in tpages' /\ d \notin Listed' /\ d # cur' /\ state'[d] = "DYING"
        OBVIOUS
      <4>1. d # cur /\ state[d] = "DYING" /\ d \in tpages
        BY <1>3, CoreParts DEF StateInv, Listed
      <4>2. d \notin Ready /\ d \notin Blocked
        BY <4>1, CoreParts DEF StateInv
      <4> QED
        BY <1>1, <1>4, <4>1, <4>2 DEF Listed
    <3> QED
      BY <2>2, <3>1 DEF ClaimOK
  <2>5. \A i, j \in 1..Len(fs) : fs[i].pc \in Claim /\ fs[j].pc \in Claim => i = j
    BY <2>2
  <2>6. \A u \in Thread : Alive(u)' => Alive(u)
    BY <1>10
  <2>7. ClaimInv /\ Replaced(k, fs)
    BY <1>5, CoreParts
  <2> QED
    BY <2>3, <2>4, <2>5, <2>6, <2>7, ClaimStep
<1>12. StateInv'
  <2>1. \A u \in tpages : Pending(u) => Pending(u)'
    <3> SUFFICES ASSUME NEW u \in tpages, Pending(u) PROVE Pending(u)'
      OBVIOUS
    <3>1. \A e \in 1..Len(stk[cur]) : e > k => FD(stk[cur], e).pc \notin Inside \cup {"tc_insert"}
      BY <1>5 DEF Inside
    <3> QED
      BY <1>1, <1>5, <1>10, <3>1, PendingStep
  <2>2. cur \notin Blocked' /\ cur \notin Dying' /\ cur \in tpages
    BY <1>3, <1>4, CoreParts DEF StateInv
  <2> QED
    BY <1>1, <1>4, <2>1, <2>2, CoreParts, StateStep
<1>13. Tables'
  BY <1>1, <1>8, CoreParts DEF Tables, Lasting, Lasts, Thread
<1>14. BootInv'
  <2>1. \A i \in 1..Len(fs) : fs[i].pc \notin {"tc_insert", "palloc_proc", "boot_sti"}
    BY <1>4
  <2> QED
    BY <1>1, <1>5, <2>1, LateBoot DEF BootPcs
<1>15. cur \notin Dying' /\ cur \notin Blocked'
  BY <1>3, <1>4
<1>16. \A i \in 1..Len(fs) : fs[i].pc \notin Inside
  BY <1>4 DEF Inside
<1>17. "finish" \notin Inside \cup {"irq_return", "unblock"}
  BY DEF Inside
<1>18. \A u \in Thread \ {cur} : state'[u] \in {"READY", "BLOCKED"} => state[u] \in {"READY", "BLOCKED"}
  BY <1>1
<1> QED
  BY <1>1, <1>4, <1>7, <1>8, <1>9, <1>11, <1>12, <1>13, <1>14, <1>15, <1>16, <1>17, <1>18, OutsideCore

(* The steps that may leave a thread inside schedule.                       *)
LEMMA InsideCore ==
    ASSUME TypeOK, TypeOK', Core, NEW k, NEW fs, Replaced(k, fs), Fits(k, fs), Lasting,
           parent' = parent, cur' = cur, tpages' \subseteq tpages,
           \A t \in Thread \ {cur} : state'[t] \in {"READY", "BLOCKED"} => state[t] \in {"READY", "BLOCKED"},
           Linked(heap'), LimboInv', ClaimInv', InsideInv', CurListed', StateInv', Tables', BootInv'
    PROVE  Core'
<1>1. StackInv'
  BY CoreParts, StackStep
<1>2. Parked'
  <2>1. tpages \subseteq Thread
    BY DEF TypeOK
  <2> QED
    BY <2>1, CoreParts, ParkedStep
<1> QED
  BY <1>1, <1>2 DEF Core, MoveInv

(* What holds while a thread is between its choice of the next thread and   *)
(* the switch to it.                                                        *)
LEMMA InsideTop ==
    ASSUME TypeOK, Core, NEW pc \in Inside, At(pc)
    PROVE  /\ InsideOK(Top, Len(stk[cur])) /\ Top.pc = pc /\ cur \in Thread
           /\ \A u \in Thread : \A d \in 1..Len(stk[u]) :
                 FD(stk[u], d).pc \in Inside => u = cur /\ d = Len(stk[cur]) /\ FD(stk[u], d) = Top
           /\ Top.arg \in tpages /\ Top.arg \in Thread /\ Unclaimed(Top.arg)
           /\ state[Top.arg] = "READY" \/ (Top.arg = cur /\ state[cur] = "RUNNING")
           /\ cur \in tpages /\ IdleT \in tpages /\ ~Booting
           /\ cur \in Dying => pc \in {"self_dying", "switch"}
<1>1. /\ cur \in Thread /\ Len(stk[cur]) \in Nat \ {0} /\ FD(stk[cur], Len(stk[cur])) = Top /\ Top.pc = pc
  BY TopFrame
<1>2. Len(stk[cur]) \in 1..Len(stk[cur])
  BY <1>1
<1>3. InsideInv /\ CurListed /\ StateInv /\ BootInv
  BY CoreParts
<1>4. InsideOK(Top, Len(stk[cur]))
  BY <1>1, <1>2, <1>3 DEF InsideInv
<1>5. \A u \in Thread : \A d \in 1..Len(stk[u]) :
         FD(stk[u], d).pc \in Inside => u = cur /\ d = Len(stk[cur]) /\ FD(stk[u], d) = Top
  BY <1>3, InsideAt
<1>6. pc # "unblock" /\ pc \notin BootPcs /\ pc \notin {"palloc", "palloc_thread"}
  BY DEF Inside, BootPcs
<1>7. /\ Top.arg \in tpages /\ Unclaimed(Top.arg)
      /\ state[Top.arg] = "READY" \/ (Top.arg = cur /\ state[cur] = "RUNNING")
  BY <1>1, <1>4, <1>6 DEF InsideOK
<1>8. cur \in tpages /\ IdleT \in tpages /\ ~Booting
  BY <1>3, <1>6, IdleUp, NotBooting DEF StateInv
<1>9. cur \in Dying => pc \in {"self_dying", "switch"}
  <2>1. {"self_dying", "switch"} \subseteq Inside
    BY DEF Inside
  <2> QED
    BY <1>1, <1>3, <1>5, <2>1 DEF CurListed, CurHas
<1>10. Top.arg \in Thread
  BY <1>7 DEF TypeOK
<1> QED
  BY <1>1, <1>4, <1>5, <1>7, <1>8, <1>9, <1>10

(* One statement of schedule after the other, up to the switch.             *)
LEMMA InsideNextCore ==
    ASSUME TypeOK, TypeOK', Core, NEW pc \in Inside, At(pc), NEW f \in Frame, Goto(<<f>>),
           f.pc \in Inside \ {"demote"}, f.arg = Top.arg,
           cur' = cur, tpages' = tpages, parent' = parent, threads' = threads, Linked(heap'),
           \A u \in Thread \ {cur} :
              /\ state'[u] = state[u]
              /\ (u \in Ready' <=> u \in Ready) /\ (u \in Blocked' <=> u \in Blocked)
              /\ u \in Dying' <=> u \in Dying,
           state'[cur] = state[cur] \/ (state[cur] = "RUNNING" /\ state'[cur] = "READY"),
           state'[cur] # "RUNNING",
           cur \in Ready' => state'[cur] = "READY",
           cur \in Blocked' => state'[cur] = "BLOCKED",
           cur \in Dying' => state'[cur] = "DYING" /\ f.pc \in {"self_dying", "switch"},
           state'[cur] = "BLOCKED" /\ cur # BootT => cur \in Blocked',
           f.pc \in {"self_dying", "switch"} /\ state'[cur] = "READY" => cur \in Ready'
    PROVE  Core'
<1>0. <<f>> \in Seq(Frame)
  OBVIOUS
<1> PICK fs, k, a : fs \in Seq(Frame) /\ fs = <<f>> /\ k = Len(stk[cur]) - 1 /\ a = Top.arg
  BY <1>0
<1>1. Len(fs) = 1 /\ Goto(fs) /\ \A i \in 1..Len(fs) : i = 1 /\ fs[i] = f
  OBVIOUS
<1>2. /\ Replaced(k, fs) /\ cur \in Thread /\ k \in Nat /\ k + 1 = Len(stk[cur])
      /\ Len(stk[cur]) \in 1..Len(stk[cur]) /\ FD(stk[cur], Len(stk[cur])) = Top /\ Top.pc = pc
      /\ \A d \in 1..Len(stk[cur]) : d > k => d = Len(stk[cur]) /\ FD(stk[cur], d) = Top
  BY <1>1, GotoIs
<1>3. /\ InsideOK(Top, Len(stk[cur]))
      /\ \A u \in Thread : \A d \in 1..Len(stk[u]) :
            FD(stk[u], d).pc \in Inside => u = cur /\ d = Len(stk[cur])
      /\ a \in tpages /\ a \in Thread /\ Unclaimed(a)
      /\ state[a] = "READY" \/ (a = cur /\ state[cur] = "RUNNING")
      /\ cur \in tpages /\ IdleT \in tpages /\ ~Booting
  BY InsideTop
<1>4. Listed' \subseteq Listed \cup {cur}
  <2>1. Ready' \subseteq Thread /\ Blocked' \subseteq Thread /\ Dying' \subseteq Thread
    BY DEF Ready, Blocked, Dying, Held
  <2> QED
    BY <2>1 DEF Listed
<1>5. pc \notin BootPcs /\ pc \notin {"execute", "exit", "idle", "tc_insert"}
  BY DEF Inside, BootPcs
<1>6. f.pc \notin Deep \cup Claim \cup {"idle_made", "null_return", "exit", "unblock", "tc_insert",
                                        "palloc_proc", "boot_sti"}
      /\ FrameOK(cur, f)
  BY DEF Inside, Deep, Claim, FrameOK
<1>7. Fits(k, fs)
  <2>1. ~Gone(k, {"execute"}) /\ ~Gone(k, {"exit"}) /\ ~Gone(k, {"idle"})
    BY <1>5, GoneIs
  <2> QED
    BY <1>1, <1>6, <2>1 DEF Fits
<1>8. Lasting
  BY <1>2, <1>3 DEF Lasting, Lasts, Created, Thread
<1>9. LimboInv'
  <2>1. PICK j \in 1..Len(fs) : j = 1
    BY <1>1
  <2>2. fs[j].pc \in Inside \cup {"schedule"} /\ \A i \in 1..(j - 1) : FALSE
    BY <1>1, <2>1
  <2>3. \A i \in 1..Len(fs) : fs[i].pc \notin Claim
    BY <1>1, <1>6
  <2>4. state'[cur] = "DYING" => \A d \in 1..k : FD(stk[cur], d).pc \notin Claim
    <3>1. \A d \in 1..k : d \in 1..Len(stk[cur])
      BY <1>2
    <3> QED
      BY <3>1, CoreParts DEF LimboInv
  <2> QED
    BY <1>2, <2>2, <2>3, <2>4, LimboEnter
<1>10. \A u \in Thread : Alive(u)' <=> Alive(u)
  BY DEF Alive
<1>11. ClaimInv'
  <2>1. \A u \in Thread : \A d \in 1..Len(stk[u]) :
              Alive(u) /\ (u = cur => d <= k) /\ FD(stk[u], d).pc \in Claim /\ Alive(u)' =>
                 /\ FD(stk[u], d).arg \in tpages' \ Listed' /\ FD(stk[u], d).arg # cur'
                 /\ state'[FD(stk[u], d).arg] = state[FD(stk[u], d).arg]
    <3>1. tpages \subseteq Thread
      BY DEF TypeOK
    <3> QED
      BY <1>4, <3>1, CoreParts DEF ClaimInv, ClaimOK
  <2>2. \A i \in 1..Len(fs) : fs[i].pc \notin Claim
    BY <1>1, <1>6
  <2> QED
    BY <1>2, <1>10, <2>1, <2>2, CoreParts, ClaimKeep
<1>12. /\ Len(stk'[cur]) = k + 1 /\ Len(stk'[cur]) \in 1..Len(stk'[cur]) /\ FD(stk'[cur], Len(stk'[cur])) = f
       /\ Top' = f
  <2>1. PICK i \in 1..Len(fs) : i = 1
    BY <1>1
  <2>2. k + Len(fs) + 1 - i = k + 1 /\ Len(stk'[cur]) = k + 1
    BY <1>1, <1>2, <2>1 DEF Replaced, CurReplaced
  <2>a. CurReplaced(k, fs)
    BY <1>2 DEF Replaced
  <2>3. FD(stk'[cur], k + Len(fs) + 1 - i) = fs[i]
    BY ONLY <2>1, <2>a, FrameNew
  <2>4. FD(stk'[cur], k + 1) = f
    BY <1>1, <2>2, <2>3
  <2>5. Len(stk'[cur]) \in Nat \ {0}
    BY <1>2, <2>2
  <2> QED
    BY <2>2, <2>4, <2>5, TopNext
<1>13. InsideInv'
  <2>1. ASSUME NEW u \in Thread, NEW d \in 1..Len(stk'[u]), NEW g, g = FD(stk'[u], d), g.pc \in Inside
        PROVE  u = cur /\ InsideOK(g, d)'
    <3>1. u = cur /\ d > k /\ g = f
      <4>1. CASE d \in 1..Len(stk[u]) /\ FD(stk'[u], d) = FD(stk[u], d) /\ (u = cur => d <= k)
        BY <1>2, <1>3, <2>1, <4>1
      <4>2. CASE u = cur /\ d > k /\ \E i \in 1..Len(fs) : FD(stk'[u], d) = fs[i]
        BY <1>1, <2>1, <4>2
      <4>3. Replaced(k, fs)
        BY <1>2
      <4> QED
        BY <4>1, <4>2, <4>3, FrameCases
    <3>2. d = Len(stk'[cur])
      BY <1>2, <1>12, <3>1
    <3>3. Unclaimed(a)'
      <4>1. \A i \in 1..Len(fs) : fs[i].pc \in Claim => fs[i].arg # a
        BY <1>1, <1>6
      <4> QED
        BY <1>2, <1>3, <1>10, <4>1, UnclaimedStep
    <3>4. state'[a] = "READY"
      BY <1>3
    <3> QED
      BY <1>3, <1>6, <1>12, <3>1, <3>2, <3>3, <3>4 DEF InsideOK
  <2> QED
    BY <2>1 DEF InsideInv
<1>14. CurListed'
  BY <1>12 DEF CurListed, CurHas
<1>15. StateInv'
  <2>1. \A u \in tpages : Pending(u) => Pending(u)'
    <3> SUFFICES ASSUME NEW u \in tpages, Pending(u) PROVE Pending(u)'
      OBVIOUS
    <3>1. CASE u = a
      BY <1>12, <3>1 DEF Pending
    <3>2. CASE u # a
      <4>1. \A d \in 1..Len(stk[cur]) : d > k => FD(stk[cur], d).arg # u
        BY <1>2, <3>2
      <4> QED
        BY <1>2, <1>10, <4>1, PendingStep
    <3> QED
      BY <3>1, <3>2
  <2>2. /\ state'[cur] # "TERMINATED" /\ (cur = IdleT => state'[cur] # "DYING")
        /\ cur \in Thread
    BY <1>2, CoreParts DEF StateInv
  <2> QED
    BY <1>3, <2>1, <2>2, CoreParts, StateStep
<1>16. Tables'
  BY <1>8, CoreParts DEF Tables, Lasting, Lasts, Thread
<1>17. BootInv'
  <2>1. \A i \in 1..Len(fs) : fs[i].pc \notin {"tc_insert", "palloc_proc", "boot_sti"}
    BY <1>1, <1>6
  <2> QED
    BY <1>2, <1>5, <2>1, LateBoot
<1> QED
  BY <1>2, <1>7, <1>8, <1>9, <1>11, <1>13, <1>14, <1>15, <1>16, <1>17, InsideCore

(* A segment of schedule is a frame that has its next thread in hand.     *)
LEMMA InsideFrame ==
    ASSUME NEW t \in Thread, NEW pc \in Inside
    PROVE  FrA(pc, t) \in Frame /\ FrA(pc, t).pc = pc /\ FrA(pc, t).arg = t
BY DEF Inside, FrA, Frame, Label, OnThread, OnProc, OnEither

(* schedule marking the thread that runs READY again, before it links it. *)
LEMMA DemoteCore == ASSUME TypeOK, TypeOK', Core, Demote PROVE Core'
<1> PICK f : f = FrA("enqueue", Top.arg)
  OBVIOUS
<1>1. /\ At("demote") /\ cur' = cur /\ tpages' = tpages /\ parent' = parent /\ threads' = threads
      /\ heap' = heap /\ Goto(<<f>>) /\ cur \in Thread
      /\ state' = [state EXCEPT ![cur] = Demoted(@)]
  BY DEF Demote, tables, memory, cpu, TypeOK
<1>2. "demote" \in Inside /\ "enqueue" \in Inside
  BY DEF Inside
<1>3. /\ Top.arg \in Thread /\ cur \in tpages /\ cur \notin Dying
  BY <1>1, <1>2, InsideTop
<1>4. f \in Frame /\ f.pc = "enqueue" /\ f.arg = Top.arg
  BY <1>2, <1>3, InsideFrame
<1>5. /\ Linked(heap') /\ Ready' = Ready /\ Blocked' = Blocked /\ Dying' = Dying
  BY <1>1, SameListed, CoreParts
<1>6. /\ state'[cur] = IF state[cur] = "RUNNING" THEN "READY" ELSE state[cur]
      /\ \A u \in Thread \ {cur} : state'[u] = state[u]
  BY <1>1 DEF Demoted, TypeOK
<1>7. /\ cur \in Ready => state[cur] \in {"READY", "RUNNING"}
      /\ cur \in Blocked => state[cur] = "BLOCKED"
      /\ state[cur] = "BLOCKED" /\ cur # BootT => cur \in Blocked
  BY <1>3, CoreParts DEF StateInv
<1> QED
  BY <1>1, <1>2, <1>3, <1>4, <1>5, <1>6, <1>7, InsideNextCore

(* schedule choosing the current thread although it is dying leaves it in *)
(* hand.                                                                  *)
LEMMA SelfDyingCore == ASSUME TypeOK, TypeOK', Core, SelfDying PROVE Core'
<1> PICK f : f = FrA("switch", Top.arg)
  OBVIOUS
<1>1. /\ At("self_dying") /\ cur' = cur /\ tpages' = tpages /\ parent' = parent /\ threads' = threads
      /\ heap' = heap /\ cur \in Thread /\ state' = state
      /\ Goto((IF cur = Top.arg /\ state[cur] = "DYING" THEN <<Fr("finish")>> ELSE <<>>) \o <<f>>)
  BY DEF SelfDying, tables, memory, cpu, TypeOK
<1>2. "self_dying" \in Inside /\ "switch" \in Inside
  BY DEF Inside
<1>3. /\ Top.arg \in Thread /\ cur \in tpages /\ InsideOK(Top, Len(stk[cur])) /\ Top.pc = "self_dying"
      /\ state[Top.arg] = "READY" \/ (Top.arg = cur /\ state[cur] = "RUNNING")
  BY <1>1, <1>2, InsideTop
<1>4. f \in Frame /\ f.pc = "switch" /\ f.arg = Top.arg
  BY <1>2, <1>3, InsideFrame
<1>5. /\ Linked(heap') /\ Ready' = Ready /\ Blocked' = Blocked /\ Dying' = Dying
  BY <1>1, SameListed, CoreParts
<1>6. Goto(<<f>>)
  <2>1. ~(cur = Top.arg /\ state[cur] = "DYING")
    BY <1>3
  <2>2. <<>> \o <<f>> = <<f>>
    OBVIOUS
  <2> QED
    BY <1>1, <2>1, <2>2
<1>7. /\ cur \in Ready => state[cur] \in {"READY", "RUNNING"}
      /\ cur \in Blocked => state[cur] = "BLOCKED"
      /\ cur \in Dying => state[cur] = "DYING"
      /\ state[cur] = "BLOCKED" /\ cur # BootT => cur \in Blocked
  BY <1>3, CoreParts DEF StateInv
<1>8. state[cur] # "RUNNING" /\ (state[cur] = "READY" => cur \in Ready)
  BY <1>3 DEF InsideOK
<1> QED
  BY <1>1, <1>2, <1>4, <1>5, <1>6, <1>7, <1>8, InsideNextCore

(* The current thread is linked where its state says, once.                 *)
LEMMA EnqueueCore == ASSUME TypeOK, TypeOK', Core, Without(ListFaults)', Enqueue PROVE Core'
<1> PICK f : f = FrA("self_dying", Top.arg)
  OBVIOUS
<1>1. /\ At("enqueue") /\ cur' = cur /\ tpages' = tpages /\ parent' = parent /\ threads' = threads
      /\ heap' = Filed(heap, cur) /\ cur \in Thread /\ state' = state /\ Goto(<<f>>)
  BY DEF Enqueue, tables, memory, cpu, TypeOK
<1>2. "enqueue" \in Inside /\ "self_dying" \in Inside
  BY DEF Inside
<1>3. /\ Top.arg \in Thread /\ cur \in tpages /\ InsideOK(Top, Len(stk[cur])) /\ Top.pc = "enqueue"
      /\ cur \notin Dying
  BY <1>1, <1>2, InsideTop
<1>4. f \in Frame /\ f.pc = "self_dying" /\ f.arg = Top.arg
  BY <1>2, <1>3, InsideFrame
<1>5. /\ cur \in Ready => state[cur] \in {"READY", "RUNNING"}
      /\ cur \in Blocked => state[cur] = "BLOCKED"
      /\ state[cur] = "BLOCKED" /\ cur # BootT => cur \in Blocked
  BY <1>3, CoreParts DEF StateInv
<1>6. state[cur] # "RUNNING"
  BY <1>3 DEF InsideOK
<1>7. state[cur] = "READY" => cur \notin Ready
  <2>1. ~(state[cur] = "READY" /\ L!Reaches(heap, "ready", TNode(cur)))
    BY DEF Enqueue, Meet, Without, ListFaults, SchedulerFaults
  <2>2. cur \in Held(heap, "ready") <=> L!Reaches(heap, "ready", TNode(cur))
    BY <1>1, HeldReaches DEF Queue
  <2> QED
    BY <2>1, <2>2 DEF Ready
<1>8. /\ Linked(heap')
      /\ Ready' = IF state[cur] = "READY" THEN Ready \cup {cur} ELSE Ready
      /\ Dying' = IF state[cur] = "DYING" THEN Dying \cup {cur} ELSE Dying
      /\ Blocked' = Blocked
  <2>1. Linked(heap)
    BY CoreParts
  <2>2. CASE state[cur] = "DYING"
    <3>1. heap' = L!list_insert(heap, "dying", TNode(cur))
      BY <1>1, <2>2 DEF Filed
    <3>2. \A l \in Queue : cur \notin Held(heap, l)
      BY <1>3, <1>5, <2>2 DEF Queue, Ready, Blocked, Dying
    <3>3. /\ Linked(heap') /\ Held(heap', "dying") = Held(heap, "dying") \cup {cur}
          /\ \A l \in Queue \ {"dying"} : Held(heap', l) = Held(heap, l)
      BY <1>1, <2>1, <3>1, <3>2, InsertHeld DEF Queue
    <3> QED
      BY <2>2, <3>3 DEF Queue, Ready, Blocked, Dying
  <2>3. CASE state[cur] = "READY"
    <3>1. heap' = L!list_insert_end(heap, L!TailNode("ready"), TNode(cur))
      BY <1>1, <2>3 DEF Filed
    <3>2. \A l \in Queue : cur \notin Held(heap, l)
      BY <1>3, <1>5, <1>7, <2>3 DEF Queue, Ready, Blocked, Dying
    <3>3. /\ Linked(heap') /\ Held(heap', "ready") = Held(heap, "ready") \cup {cur}
          /\ \A l \in Queue \ {"ready"} : Held(heap', l) = Held(heap, l)
      BY <1>1, <2>1, <3>1, <3>2, InsertHeld DEF Queue
    <3> QED
      BY <2>3, <3>3 DEF Queue, Ready, Blocked, Dying
  <2>4. CASE state[cur] \notin {"DYING", "READY"}
    <3>1. heap' = heap
      BY <1>1, <2>4 DEF Filed
    <3> QED
      BY <2>1, <2>4, <3>1, SameListed
  <2> QED
    BY <2>2, <2>3, <2>4
<1> QED
  BY <1>1, <1>2, <1>3, <1>4, <1>5, <1>6, <1>8, InsideNextCore

(* schedule returns to the thread that called it.                           *)
LEMMA NoSwitchCore == ASSUME TypeOK, TypeOK', Core, NoSwitch PROVE Core'
<1>0. <<>> \in Seq(Frame)
  OBVIOUS
<1> PICK fs, k : fs \in Seq(Frame) /\ fs = <<>> /\ k = Len(stk[cur]) - 1
  BY <1>0
<1>1. /\ At("switch") /\ cur' = cur /\ tpages' = tpages /\ parent' = parent /\ threads' = threads
      /\ heap' = heap /\ cur \in Thread /\ Goto(fs) /\ Len(fs) = 0 /\ state'[cur] = "RUNNING"
      /\ \A u \in Thread \ {cur} : state'[u] = state[u]
  BY DEF NoSwitch, tables, memory, TypeOK
<1>2. /\ Replaced(k, fs) /\ k \in Nat /\ k + 1 = Len(stk[cur])
      /\ Len(stk[cur]) \in 1..Len(stk[cur]) /\ FD(stk[cur], Len(stk[cur])) = Top /\ Top.pc = "switch"
      /\ \A d \in 1..Len(stk[cur]) : d > k => d = Len(stk[cur]) /\ FD(stk[cur], d) = Top
  BY <1>1, GotoIs
<1>3. /\ InsideOK(Top, Len(stk[cur])) /\ cur \in tpages /\ Top.arg \in Thread
      /\ \A u \in Thread : \A d \in 1..Len(stk[u]) :
            FD(stk[u], d).pc \in Inside => u = cur /\ d = Len(stk[cur])
      /\ state[Top.arg] = "READY" \/ (Top.arg = cur /\ state[cur] = "RUNNING")
  BY <1>1, InsideTop DEF Inside
<1>4. Top.arg = cur /\ state[cur] = "READY" /\ cur \in Ready
  <2>1. state[cur] # "RUNNING" /\ (state[cur] = "READY" => cur \in Ready)
    BY <1>2, <1>3 DEF InsideOK
  <2>2. cur = Top.arg \/ state[Top.arg] # "READY"
    BY DEF NoSwitch
  <2> QED
    BY <1>3, <2>1, <2>2
<1>5. cur \notin Dying /\ cur \notin Blocked
  BY <1>4, CoreParts DEF StateInv
<1>6. Linked(heap') /\ Ready' = Ready /\ Blocked' = Blocked /\ Dying' = Dying /\ Listed' = Listed
  BY <1>1, SameListed, CoreParts
<1>7. Fits(k, fs)
  BY <1>1, GoneIs DEF Fits
<1>8. Lasting
  BY <1>1, <1>3, <1>4 DEF Lasting, Lasts, Created, Thread
<1>9. LimboInv'
  BY <1>1 DEF LimboInv
<1>10. \A u \in Thread : Alive(u)' <=> Alive(u)
  BY <1>1 DEF Alive
<1>11. ClaimInv'
  <2>1. \A u \in Thread : \A d \in 1..Len(stk[u]) :
              Alive(u) /\ (u = cur => d <= k) /\ FD(stk[u], d).pc \in Claim /\ Alive(u)' =>
                 /\ FD(stk[u], d).arg \in tpages' \ Listed' /\ FD(stk[u], d).arg # cur'
                 /\ state'[FD(stk[u], d).arg] = state[FD(stk[u], d).arg]
    <3>1. tpages \subseteq Thread
      BY DEF TypeOK
    <3> QED
      BY <1>1, <1>6, <3>1, CoreParts DEF ClaimInv, ClaimOK
  <2>2. \A i \in 1..Len(fs) : FALSE
    BY <1>1
  <2> QED
    BY <1>2, <1>10, <2>1, <2>2, CoreParts, ClaimKeep
<1>12. InsideInv' /\ CurListed'
  <2>1. \A u \in Thread : \A d \in 1..Len(stk[u]) : FD(stk[u], d).pc \in Inside => u = cur /\ d > k
    BY <1>2, <1>3
  <2>2. \A i \in 1..Len(fs) : fs[i].pc \notin Inside
    BY <1>1
  <2>3. \A u \in Thread : \A d \in 1..Len(stk'[u]) : FD(stk'[u], d).pc \notin Inside
    BY <1>2, <2>1, <2>2, InsideNone
  <2> QED
    BY <1>1, <1>5, <1>6, <2>3 DEF InsideInv, CurListed
<1>13. StateInv'
  <2>1. \A u \in tpages \ {cur} : Pending(u) => Pending(u)'
    <3> SUFFICES ASSUME NEW u \in tpages \ {cur}, Pending(u) PROVE Pending(u)'
      OBVIOUS
    <3>1. \A d \in 1..Len(stk[cur]) : d > k => FD(stk[cur], d).arg # u
      BY <1>2, <1>4
    <3> QED
      BY <1>1, <1>2, <1>10, <3>1, PendingStep
  <2> QED
    BY <1>1, <1>3, <1>5, <1>6, <2>1, CoreParts, StateStep
<1>14. Tables'
  BY <1>1, <1>8, CoreParts DEF Tables, Lasting, Lasts, Thread
<1>15. BootInv'
  <2>1. \A i \in 1..Len(fs) : FALSE
    BY <1>1
  <2> QED
    BY <1>1, <1>2, <2>1, LateBoot DEF BootPcs
<1> QED
  BY <1>1, <1>2, <1>6, <1>7, <1>8, <1>9, <1>11, <1>12, <1>13, <1>14, <1>15, InsideCore

(* What schedule takes off the ready list.                                  *)
LEMMA ScheduleQueues ==
    ASSUME TypeOK, Core, Schedule
    PROVE  /\ Linked(heap') /\ Blocked' = Blocked /\ Dying' = Dying
           /\ \/ /\ Ready = {} /\ Ready' = Ready
                 /\ Goto(<<FrA("unblock", IdleT), FrA("demote", IdleT)>>)
              \/ \E t \in Ready : /\ Ready' \in {Ready, Ready \ {t}}
                                  /\ Goto(<<FrA("demote", t)>>)
<1>1. Linked(heap)
  BY CoreParts
<1>2. CASE L!list_size(heap, "ready") = 1
  <2>1. PICK t \in Held(heap, "ready") : heap.next[L!HeadNode("ready")] = TNode(t)
    BY <1>1, <1>2, SizeHeld DEF Queue
  <2>2. t \in Thread /\ t \in Ready
    BY DEF Held, Ready
  <2>3. heap' = heap
    BY <1>2 DEF Schedule
  <2>4. Goto(<<FrA("demote", t)>>)
    <3>1. TNode(t) # NULL
      BY <2>2, NodeNotNull
    <3>2. PICK u \in Thread : TNode(t) = TNode(u) /\ Goto(<<FrA("demote", u)>>)
      BY <1>2, <2>1, <3>1 DEF Schedule
    <3> QED
      BY <2>2, <3>2, Places
  <2> QED
    BY <1>1, <2>2, <2>3, <2>4, SameListed
<1>3. CASE L!list_size(heap, "ready") # 1
  <2>1. heap' = L!list_pop(heap, "ready")
    BY <1>3 DEF Schedule
  <2>2. CASE Ready = {}
    <3>1. heap' = heap /\ L!Popped(heap, "ready") = NULL
      BY <1>1, <2>1, <2>2, PopHeld DEF Ready, Queue
    <3>2. Goto(<<FrA("unblock", IdleT), FrA("demote", IdleT)>>)
      <4>1. \A t \in Thread : TNode(t) # NULL
        BY NodeNotNull
      <4> QED
        BY <1>3, <3>1, <4>1 DEF Schedule
    <3> QED
      BY <1>1, <2>2, <3>1, <3>2, SameListed
  <2>3. CASE Ready # {}
    <3>1. PICK t \in Held(heap, "ready") :
            /\ L!Popped(heap, "ready") = TNode(t) /\ Linked(heap')
            /\ Held(heap', "ready") = Held(heap, "ready") \ {t}
            /\ \A l \in Queue \ {"ready"} : Held(heap', l) = Held(heap, l)
      BY <1>1, <2>1, <2>3, PopHeld DEF Ready, Queue
    <3>2. t \in Thread /\ t \in Ready
      BY DEF Held, Ready
    <3>3. Goto(<<FrA("demote", t)>>)
      <4>1. TNode(t) # NULL
        BY <3>2, NodeNotNull
      <4>2. PICK u \in Thread : TNode(t) = TNode(u) /\ Goto(<<FrA("demote", u)>>)
        BY <1>3, <3>1, <4>1 DEF Schedule
      <4> QED
        BY <3>2, <4>2, Places
    <3>4. Ready' = Ready \ {t} /\ Blocked' = Blocked /\ Dying' = Dying
      BY <3>1 DEF Ready, Blocked, Dying, Queue
    <3> QED
      BY <3>1, <3>2, <3>3, <3>4
  <2> QED
    BY <2>2, <2>3
<1> QED
  BY <1>2, <1>3

(* The choice of the next thread: fs is what schedule goes on with.         *)
LEMMA ScheduleFrames ==
    ASSUME TypeOK, Core, Schedule, IdleT \in tpages
    PROVE  \E fs \in Seq(Frame), t \in tpages :
              /\ Goto(fs) /\ Len(fs) \in {1, 2} /\ fs[Len(fs)] = FrA("demote", t)
              /\ \A u \in Thread \ {t} : u \in Ready' <=> u \in Ready
              /\ Ready' \subseteq Ready
              /\ Len(fs) = 1 => t \in Ready
              /\ Len(fs) = 2 => fs[1] = FrA("unblock", IdleT) /\ t = IdleT /\ Ready = {}
<1>1. CASE Ready = {} /\ Ready' = Ready /\ Goto(<<FrA("unblock", IdleT), FrA("demote", IdleT)>>)
  <2>1. FrA("unblock", IdleT) \in Frame /\ FrA("demote", IdleT) \in Frame
    BY DEF FrA, Frame, Label, OnThread, OnProc, OnEither, Thread
  <2>2. <<FrA("unblock", IdleT), FrA("demote", IdleT)>> \in Seq(Frame)
    BY <2>1
  <2>3. PICK fs \in Seq(Frame) : fs = <<FrA("unblock", IdleT), FrA("demote", IdleT)>>
    BY <2>2
  <2>4. Len(fs) = 2 /\ fs[1] = FrA("unblock", IdleT) /\ fs[Len(fs)] = FrA("demote", IdleT) /\ Goto(fs)
    BY <1>1, <2>3
  <2> WITNESS fs \in Seq(Frame), IdleT \in tpages
  <2> QED
    BY <1>1, <2>4
<1>2. ASSUME NEW t \in Ready, Ready' \in {Ready, Ready \ {t}}, Goto(<<FrA("demote", t)>>)
      PROVE  \E fs \in Seq(Frame), u \in tpages :
              /\ Goto(fs) /\ Len(fs) \in {1, 2} /\ fs[Len(fs)] = FrA("demote", u)
              /\ \A v \in Thread \ {u} : v \in Ready' <=> v \in Ready
              /\ Ready' \subseteq Ready
              /\ Len(fs) = 1 => u \in Ready
              /\ Len(fs) = 2 => fs[1] = FrA("unblock", IdleT) /\ u = IdleT /\ Ready = {}
  <2>1. t \in Thread /\ t \in tpages
    BY CoreParts DEF Ready, Held, StateInv, Listed
  <2>2. FrA("demote", t) \in Frame
    BY <2>1 DEF FrA, Frame, Label, OnThread, OnProc, OnEither
  <2>3. <<FrA("demote", t)>> \in Seq(Frame)
    BY <2>2
  <2>4. PICK fs \in Seq(Frame) : fs = <<FrA("demote", t)>>
    BY <2>3
  <2>5. Len(fs) = 1 /\ fs[Len(fs)] = FrA("demote", t) /\ Goto(fs)
    BY <1>2, <2>4
  <2>6. t \in tpages
    BY <2>1
  <2> WITNESS fs \in Seq(Frame), t \in tpages
  <2> QED
    BY <1>2, <2>1, <2>5
<1> QED
  BY <1>1, <1>2, ScheduleQueues

(* The idle thread is there when no other is ready.                         *)
LEMMA IdleWaits ==
    ASSUME TypeOK, Core, SwitchInv, Without(ListFaults), At("schedule"), Ready = {}
    PROVE  /\ IdleT = cur \/ state[IdleT] = "BLOCKED"
           /\ Unclaimed(IdleT)
<1>1. IdleT \in tpages /\ IdleT # BootT /\ IdleT \in Thread
  BY CoreParts, IdleUp, ThreadsDiffer DEF Thread
<1>2. \A u \in Thread : \A d \in 1..Len(stk[u]) :
          ~(FD(stk[u], d).pc = "tc_insert" /\ FD(stk[u], d).arg = IdleT)
  BY CoreParts, IdleLinked
<1>3. \A u \in Thread : \A d \in 1..Len(stk[u]) : FD(stk[u], d).pc \notin Inside
  BY CoreParts, NoInside DEF Inside
<1>4. ~Pending(IdleT)
  BY <1>2, <1>3 DEF Pending, TypeOK
<1>5. state[IdleT] # "DYING" /\ state[IdleT] # "TERMINATED" /\ state[IdleT] \in State
  BY <1>1, CoreParts DEF StateInv, TypeOK
<1>6. IdleT # cur => state[IdleT] # "RUNNING"
  BY <1>1, OthersNotRunning
<1>7. IdleT # cur => state[IdleT] # "READY"
  BY <1>1, <1>4, CoreParts DEF StateInv
<1>8. Unclaimed(IdleT)
  <2>1. ClaimInv
    BY CoreParts
  <2>2. \A u \in Thread : Alive(u) => \A d \in 1..Len(stk[u]) :
           FD(stk[u], d).pc \in Claim /\ FD(stk[u], d).arg = IdleT => state[IdleT] = "DYING"
    BY <1>2, <2>1 DEF ClaimInv, ClaimOK
  <2> QED
    BY <1>5, <2>2 DEF Unclaimed
<1> QED
  BY <1>5, <1>6, <1>7, <1>8 DEF State

(* schedule takes the first ready thread off the list and has it in hand  *)
(* alone, or finds none and has the idle thread unblocked.                *)
LEMMA ScheduleCore ==
    ASSUME TypeOK, TypeOK', Core, SwitchInv, Without(ListFaults)', Schedule PROVE Core'
<1> PICK k : k = Len(stk[cur]) - 1
  OBVIOUS
<1>1. /\ At("schedule") /\ cur' = cur /\ tpages' = tpages /\ parent' = parent /\ threads' = threads
      /\ cur \in Thread /\ state' = state /\ iflag' = FALSE
  BY DEF Schedule, tables, memory, TypeOK
<1>2. Without(ListFaults) /\ ~Booting
  BY DEF Schedule, Meet, Without, ListFaults, SchedulerFaults
<1>3. IdleT \in tpages /\ cur \in tpages
  BY <1>1, IdleUp, CoreParts DEF StateInv
<1>4. PICK fs \in Seq(Frame), t \in tpages :
              /\ Goto(fs) /\ Len(fs) \in {1, 2} /\ fs[Len(fs)] = FrA("demote", t)
              /\ \A u \in Thread \ {t} : u \in Ready' <=> u \in Ready
              /\ Ready' \subseteq Ready
              /\ Len(fs) = 1 => t \in Ready
              /\ Len(fs) = 2 => fs[1] = FrA("unblock", IdleT) /\ t = IdleT /\ Ready = {}
  BY <1>3, ScheduleFrames
<1>5. /\ Replaced(k, fs) /\ k \in Nat /\ k + 1 = Len(stk[cur])
      /\ Len(stk[cur]) \in 1..Len(stk[cur]) /\ FD(stk[cur], Len(stk[cur])) = Top /\ Top.pc = "schedule"
      /\ \A d \in 1..Len(stk[cur]) : d > k => d = Len(stk[cur]) /\ FD(stk[cur], d) = Top
  BY <1>1, <1>4, GotoIs
<1>6. /\ \A u \in Thread : \A d \in 1..Len(stk[u]) : FD(stk[u], d).pc \notin Inside
      /\ cur \notin Dying
  BY <1>1, CoreParts, NoInside DEF Inside
<1>7. Linked(heap') /\ Blocked' = Blocked /\ Dying' = Dying /\ Listed' \subseteq Listed
  BY <1>4, ScheduleQueues DEF Listed
<1>8. t \in Thread /\ Unclaimed(t) /\ (state[t] = "READY" \/ (t = cur /\ state[cur] = "RUNNING") \/ Len(fs) = 2)
  <2>1. t \in Thread
    BY DEF TypeOK
  <2>2. CASE t \in Ready
    <3>1. t \in Listed
      BY <2>2 DEF Listed
    <3> QED
      BY <2>1, <2>2, <3>1, CoreParts DEF StateInv, ClaimInv, ClaimOK, Unclaimed
  <2>3. CASE Len(fs) = 2
    BY <1>1, <1>2, <1>4, <2>1, <2>3, IdleWaits
  <2> QED
    BY <1>4, <2>2, <2>3
<1>9. /\ \A i \in 1..Len(fs) : fs[i].pc \in {"unblock", "demote"}
      /\ \A i \in 1..Len(fs) : fs[i].pc = "demote" => i = Len(fs) /\ fs[i] = FrA("demote", t)
  <2>1. \A i \in 1..Len(fs) : i = Len(fs) \/ (i = 1 /\ Len(fs) = 2)
    BY <1>4
  <2>2. FrA("demote", t).pc = "demote" /\ FrA("unblock", IdleT).pc = "unblock"
    BY DEF FrA
  <2> QED
    BY <1>4, <2>1, <2>2
<1>10. Fits(k, fs)
  <2>1. \A i \in 1..Len(fs) : FrameOK(cur, fs[i]) /\ fs[i].pc \notin {"idle_made", "null_return", "exit"} \cup Deep
    BY <1>9 DEF FrameOK, Deep
  <2>2. ~Gone(k, {"execute"}) /\ ~Gone(k, {"exit"}) /\ ~Gone(k, {"idle"})
    BY <1>1, GoneIs
  <2> QED
    BY <2>1, <2>2 DEF Fits
<1>11. Lasting
  BY <1>1 DEF Lasting, Lasts, Created
<1>12. LimboInv'
  <2>1. PICK j \in 1..Len(fs) : j = Len(fs)
    BY <1>4
  <2>2. fs[j].pc \in Inside \cup {"schedule"} /\ \A i \in 1..(j - 1) : fs[i].pc \in Over
    <3>1. fs[j].pc \in Inside
      BY <1>4, <2>1 DEF FrA, Inside
    <3>2. \A i \in 1..(j - 1) : i \in 1..Len(fs)
      BY <1>4, <2>1
    <3> QED
      BY <1>9, <3>1, <3>2 DEF Over, Inside
  <2>3. \A i \in 1..Len(fs) : fs[i].pc \notin Claim
    BY <1>9 DEF Claim
  <2>4. state'[cur] = "DYING" => \A d \in 1..k : FD(stk[cur], d).pc \notin Claim
    <3>1. \A d \in 1..k : d \in 1..Len(stk[cur])
      BY <1>5
    <3> QED
      BY <1>1, <3>1, CoreParts DEF LimboInv
  <2> QED
    BY <1>1, <1>5, <2>2, <2>3, <2>4, LimboEnter
<1>13. \A u \in Thread : Alive(u)' <=> Alive(u)
  BY <1>1 DEF Alive
<1>14. ClaimInv'
  <2>1. \A u \in Thread : \A d \in 1..Len(stk[u]) :
              Alive(u) /\ (u = cur => d <= k) /\ FD(stk[u], d).pc \in Claim /\ Alive(u)' =>
                 /\ FD(stk[u], d).arg \in tpages' \ Listed' /\ FD(stk[u], d).arg # cur'
                 /\ state'[FD(stk[u], d).arg] = state[FD(stk[u], d).arg]
    BY <1>1, <1>7, CoreParts DEF ClaimInv, ClaimOK
  <2>2. \A i \in 1..Len(fs) : fs[i].pc \notin Claim
    BY <1>9 DEF Claim
  <2> QED
    BY <1>5, <1>13, <2>1, <2>2, CoreParts, ClaimKeep
<1>15. /\ Len(stk'[cur]) = k + Len(fs) /\ k + 1 \in 1..Len(stk'[cur]) /\ FD(stk'[cur], k + 1) = FrA("demote", t)
       /\ Len(stk'[cur]) \in Nat \ {0} /\ Top' = fs[1]
  <2>1. Len(stk'[cur]) = k + Len(fs)
    BY <1>5 DEF Replaced, CurReplaced
  <2>2. PICK n \in {1, 2} : n = Len(fs)
    BY <1>4
  <2>3. PICK i \in 1..Len(fs) : i = n
    BY <2>2
  <2>4. k + Len(fs) + 1 - i = k + 1
    BY <1>5, <2>2, <2>3
  <2>5. FD(stk'[cur], k + Len(fs) + 1 - i) = fs[i]
    BY <1>5, FrameNew DEF Replaced
  <2>6. PICK h \in 1..Len(fs) : h = 1
    BY <2>2
  <2>7. FD(stk'[cur], k + Len(fs) + 1 - h) = fs[h]
    BY <1>5, FrameNew DEF Replaced
  <2>8. k + Len(fs) + 1 - h = k + Len(fs)
    BY <1>5, <2>2, <2>6
  <2>9. Len(stk'[cur]) \in Nat \ {0} /\ k + 1 \in 1..Len(stk'[cur])
    BY <1>5, <2>1, <2>2
  <2>10. Top' = FD(stk'[cur], Len(stk'[cur]))
    BY <1>1, <2>9, TopNext
  <2> QED
    BY <1>4, <2>1, <2>2, <2>3, <2>4, <2>5, <2>6, <2>7, <2>8, <2>9, <2>10
<1>16. InsideInv'
  <2>1. ASSUME NEW u \in Thread, NEW d \in 1..Len(stk'[u]), NEW g, g = FD(stk'[u], d), g.pc \in Inside
        PROVE  u = cur /\ InsideOK(g, d)'
    <3>1. u = cur /\ g = FrA("demote", t) /\ d = k + 1
      <4>1. CASE d \in 1..Len(stk[u]) /\ FD(stk'[u], d) = FD(stk[u], d) /\ (u = cur => d <= k)
        BY <1>6, <2>1, <4>1
      <4>2. CASE u = cur /\ d > k /\ \E i \in 1..Len(fs) : FD(stk'[u], d) = fs[i] /\ i = k + Len(fs) + 1 - d
        <5>1. PICK i \in 1..Len(fs) : FD(stk'[u], d) = fs[i] /\ i = k + Len(fs) + 1 - d
          BY <4>2
        <5>2. fs[i].pc = "demote"
          BY <1>9, <2>1, <5>1 DEF Inside
        <5>3. i = Len(fs) /\ fs[i] = FrA("demote", t)
          BY <1>9, <5>2
        <5>4. d = k + 1
          <6>1. Len(stk'[u]) = k + Len(fs) /\ d \in 1..Len(stk'[u])
            BY <1>15, <4>2
          <6>2. PICK n \in {1, 2} : n = Len(fs)
            BY <1>4
          <6> QED
            BY <1>5, <5>1, <5>3, <6>1, <6>2
        <5> QED
          BY <2>1, <4>2, <5>1, <5>3, <5>4
      <4>3. Replaced(k, fs)
        BY <1>5
      <4>5. u \in Thread /\ d \in 1..Len(stk'[u])
        BY <2>1
      <4>4. \/ /\ d \in 1..Len(stk[u]) /\ FD(stk'[u], d) = FD(stk[u], d)
               /\ u = cur => d <= k
            \/ /\ u = cur /\ d > k
               /\ \E i \in 1..Len(fs) : FD(stk'[u], d) = fs[i] /\ i = k + Len(fs) + 1 - d
        BY ONLY <4>3, <4>5, FrameCases
      <4> QED
        BY <4>1, <4>2, <4>4
    <3>2. Unclaimed(t)'
      <4>1. \A i \in 1..Len(fs) : fs[i].pc \in Claim => fs[i].arg # t
        BY <1>9 DEF Claim
      <4> QED
        BY <1>5, <1>8, <1>13, <4>1, UnclaimedStep
    <3>3. g.arg = t /\ g.pc = "demote"
      BY <3>1 DEF FrA
    <3>4. CASE Len(fs) = 1
      <4>1. d = Len(stk'[cur]) /\ Top' = g
        BY <1>4, <1>15, <3>1, <3>4
      <4>2. Top'.pc # "unblock" /\ (state'[t] = "READY" \/ (t = cur' /\ state'[cur] = "RUNNING"))
        BY <1>1, <1>8, <3>3, <3>4, <4>1
      <4> QED
        BY <1>1, <3>1, <3>2, <3>3, <4>1, <4>2 DEF InsideOK
    <3>5. CASE Len(fs) = 2
      <4>1. d = Len(stk'[cur]) - 1 /\ Top'.pc = "unblock" /\ Top'.arg = IdleT /\ t = IdleT
        BY <1>4, <1>5, <1>15, <3>1, <3>5 DEF FrA
      <4>2. Ready' = {} /\ (IdleT = cur' \/ state'[IdleT] = "BLOCKED")
        BY <1>1, <1>2, <1>4, <3>5, IdleWaits
      <4> QED
        BY <1>1, <3>1, <3>2, <3>3, <4>1, <4>2 DEF InsideOK
    <3> QED
      BY <1>4, <3>4, <3>5
  <2> QED
    BY <1>1, <2>1 DEF InsideInv
<1>17. CurListed'
  <2>1. FD(stk'[cur], k + 1).pc \in Inside
    BY <1>15 DEF FrA, Inside
  <2> QED
    BY <1>1, <1>6, <1>7, <1>15, <2>1 DEF CurListed, CurHas
<1>18. StateInv'
  <2>1. \A u \in tpages : Pending(u) => Pending(u)'
    <3> SUFFICES ASSUME NEW u \in tpages, Pending(u) PROVE Pending(u)'
      OBVIOUS
    <3>1. \A d \in 1..Len(stk[cur]) : d > k => FD(stk[cur], d).pc \notin Inside \cup {"tc_insert"}
      BY <1>5 DEF Inside
    <3> QED
      BY <1>1, <1>5, <1>13, <3>1, PendingStep
  <2>2. Pending(t)'
    <3>1. FD(stk'[cur], k + 1).pc \in Inside /\ FD(stk'[cur], k + 1).arg = t
      BY <1>15 DEF FrA, Inside
    <3> QED
      BY <1>1, <1>15, <3>1 DEF Pending
  <2>3. /\ t \in Ready' => state'[t] = "READY" \/ (state'[t] = "RUNNING" /\ t = cur)
        /\ t \in Blocked' => state'[t] = "BLOCKED"
        /\ t \in Dying' => state'[t] = "DYING"
        /\ state'[t] # "TERMINATED" /\ (t = IdleT => state'[t] # "DYING")
        /\ t \in tpages \ {BootT} => (state'[t] = "BLOCKED" => t \in Blocked')
    BY <1>1, <1>4, <1>7, <1>8, CoreParts DEF StateInv
  <2> QED
    BY <1>1, <1>4, <1>7, <1>8, <2>1, <2>2, <2>3, CoreParts, StateStep
<1>19. Tables'
  BY <1>1, <1>11, CoreParts DEF Tables, Lasting, Lasts, Thread
<1>20. BootInv'
  <2>1. \A i \in 1..Len(fs) : fs[i].pc # "tc_insert" /\ fs[i].pc \notin {"palloc_proc", "boot_sti"}
    BY <1>9
  <2>2. \A u \in Thread : \A d \in 1..Len(stk[u]) :
          ~(FD(stk[u], d).pc = "tc_insert" /\ FD(stk[u], d).arg = IdleT)
    BY <1>1, CoreParts, IdleLinked
  <2> QED
    BY <1>1, <1>2, <1>3, <1>5, <2>1, <2>2, CoreParts, BootStep
<1> QED
  BY <1>1, <1>5, <1>7, <1>10, <1>11, <1>12, <1>14, <1>16, <1>17, <1>18, <1>19, <1>20, InsideCore

(* What thread_unblock does to the lists.                                   *)
LEMMA UnblockQueues ==
    ASSUME TypeOK, Core, ThreadUnblock, NEW t, t = Top.arg
    PROVE  /\ Linked(heap') /\ Dying' = Dying
           /\ \/ state' = state /\ Ready' = Ready /\ Blocked' = Blocked
              \/ /\ t \in Blocked /\ state' = [state EXCEPT ![t] = "READY"]
                 /\ Ready' = Ready \cup {t} /\ Blocked' = Blocked \ {t}
           /\ t \in Blocked => state'[t] = "READY"
<1>1. t \in Thread /\ Linked(heap)
  BY TopThread, CoreParts DEF ThreadUnblock, OnThread
<1>2. t \in Blocked => state[t] = "BLOCKED"
  BY CoreParts DEF StateInv
<1>3. CASE t \notin Blocked
  <2>1. L!Deleted(heap, "blocked", TNode(t)) = NULL
    BY <1>1, <1>3, DeleteQueues DEF Blocked
  <2>2. heap' = heap /\ state' = state
    BY <2>1 DEF ThreadUnblock
  <2> QED
    BY <1>1, <1>3, <2>2, SameListed
<1>4. CASE t \in Blocked
  <2>1. PICK g : g = L!list_delete(heap, "blocked", TNode(t))
    OBVIOUS
  <2>2. /\ Linked(g) /\ L!Deleted(heap, "blocked", TNode(t)) = TNode(t) /\ TNode(t) # NULL
        /\ Held(g, "dying") = Dying /\ Held(g, "ready") = Ready /\ Held(g, "blocked") = Blocked \ {t}
    BY <1>1, <1>4, <2>1, DeleteQueues, NodeNotNull DEF Blocked
  <2>3. heap' = L!list_insert(g, "ready", TNode(t)) /\ state' = [state EXCEPT ![t] = "READY"]
    BY <1>2, <1>4, <2>1, <2>2 DEF ThreadUnblock
  <2>4. t \notin Ready /\ t \notin Dying
    BY <1>2, <1>4, CoreParts DEF StateInv
  <2>5. \A l \in Queue : t \notin Held(g, l)
    BY <2>2, <2>4 DEF Queue
  <2>6. /\ Linked(heap') /\ Held(heap', "ready") = Held(g, "ready") \cup {t}
        /\ \A l \in Queue \ {"ready"} : Held(heap', l) = Held(g, l)
    BY <1>1, <2>2, <2>3, <2>5, InsertHeld DEF Queue
  <2>7. Ready' = Ready \cup {t} /\ Blocked' = Blocked \ {t} /\ Dying' = Dying
    BY <2>2, <2>6 DEF Queue, Ready, Blocked, Dying
  <2>8. state'[t] = "READY"
    BY <1>1, <2>3 DEF TypeOK
  <2> QED
    BY <1>4, <2>3, <2>6, <2>7, <2>8
<1> QED
  BY <1>3, <1>4

(* Arithmetic on depths.                                                  *)
LEMMA Positive == ASSUME NEW n \in Nat, 1 <= n PROVE n \in Nat \ {0}
OBVIOUS

(* thread_unblock moves its target from the blocked to the ready list,    *)
(* for a waiter as for the idle thread.                                   *)
LEMMA ThreadUnblockCore == ASSUME TypeOK, TypeOK', Core, ThreadUnblock PROVE Core'
<1>0. <<>> \in Seq(Frame)
  OBVIOUS
<1> PICK fs, k, t : fs \in Seq(Frame) /\ fs = <<>> /\ k = Len(stk[cur]) - 1 /\ t = Top.arg
  BY <1>0
<1>1. /\ At("unblock") /\ cur' = cur /\ tpages' = tpages /\ parent' = parent /\ threads' = threads
      /\ cur \in Thread /\ Goto(fs) /\ Len(fs) = 0 /\ t \in Thread
  BY TopThread DEF ThreadUnblock, tables, memory, TypeOK, OnThread
<1>2. /\ Replaced(k, fs) /\ k \in Nat /\ k + 1 = Len(stk[cur])
      /\ Len(stk[cur]) \in 1..Len(stk[cur]) /\ FD(stk[cur], Len(stk[cur])) = Top /\ Top.pc = "unblock"
      /\ \A d \in 1..Len(stk[cur]) : d > k => d = Len(stk[cur]) /\ FD(stk[cur], d) = Top
  <2>1. TypeOK /\ fs \in Seq(Frame) /\ k = Len(stk[cur]) - 1
    OBVIOUS
  <2> QED
    BY ONLY <1>1, <2>1, GotoIs
<1>3. /\ Linked(heap') /\ Dying' = Dying
      /\ \/ state' = state /\ Ready' = Ready /\ Blocked' = Blocked
         \/ /\ t \in Blocked /\ state' = [state EXCEPT ![t] = "READY"]
            /\ Ready' = Ready \cup {t} /\ Blocked' = Blocked \ {t}
      /\ t \in Blocked => state'[t] = "READY"
  BY UnblockQueues
<1>4. /\ t \in Blocked => state[t] = "BLOCKED" /\ t \in Listed /\ t \in tpages
      /\ t \notin Blocked => state'[t] = state[t]
  BY <1>3, CoreParts DEF StateInv, Listed
<1>5. \A u \in Thread \ {t} : state'[u] = state[u]
  BY <1>3 DEF TypeOK
<1>6. Listed' = Listed
  BY <1>3 DEF Listed
<1>7. Fits(k, fs)
  BY <1>1, GoneIs DEF Fits
<1>8. Lasting
  <2>1. \A u \in Thread : state[u] = "DYING" => state'[u] = "DYING"
    BY <1>4, <1>5
  <2> QED
    BY <1>1, <2>1 DEF Lasting, Lasts, Created, Thread
<1>9. LimboInv'
  <2>1. /\ state'[cur] = "DYING" => state[cur] = "DYING"
        /\ state'[cur] \in {"READY", "BLOCKED"} => state[cur] \in {"READY", "BLOCKED"}
    BY <1>1, <1>3, <1>4, <1>5
  <2>2. ~Gone(k, Inside \cup {"schedule", "finish"})
    BY <1>1, GoneIs DEF Inside
  <2>3. k >= Len(stk[cur]) - 1 /\ \A i \in 1..Len(fs) : FALSE
    BY <1>1, <1>2
  <2> QED
    BY <1>1, <1>2, <2>1, <2>2, <2>3, CoreParts, LimboStay
<1>10. \A u \in Thread : Alive(u)' <=> Alive(u)
  BY <1>1, <1>3, <1>4, <1>5 DEF Alive
<1>11. ClaimInv'
  <2>1. \A u \in Thread : \A d \in 1..Len(stk[u]) :
              Alive(u) /\ (u = cur => d <= k) /\ FD(stk[u], d).pc \in Claim /\ Alive(u)' =>
                 /\ FD(stk[u], d).arg \in tpages' \ Listed' /\ FD(stk[u], d).arg # cur'
                 /\ state'[FD(stk[u], d).arg] = state[FD(stk[u], d).arg]
    <3>1. tpages \subseteq Thread
      BY DEF TypeOK
    <3> QED
      BY <1>1, <1>3, <1>4, <1>5, <1>6, <3>1, CoreParts DEF ClaimInv, ClaimOK
  <2>2. \A i \in 1..Len(fs) : FALSE
    BY <1>1
  <2> QED
    BY <1>2, <1>10, <2>1, <2>2, CoreParts, ClaimKeep
<1>12. Len(stk'[cur]) = k
  BY <1>1, <1>2 DEF Replaced, CurReplaced
<1>13. InsideInv'
  <2>1. ASSUME NEW u \in Thread, NEW d \in 1..Len(stk'[u]), NEW f, f = FD(stk'[u], d), f.pc \in Inside
        PROVE  u = cur /\ InsideOK(f, d)'
    <3>1. d \in 1..Len(stk[u]) /\ FD(stk[u], d) = f
      BY <1>1, <1>2, <2>1, FrameCases
    <3>2. u = cur /\ InsideOK(f, d) /\ d = k
      BY <1>1, <1>2, <2>1, <3>1, CoreParts, InsideAt
    <3>3. /\ f.pc = "demote" /\ f.arg = IdleT /\ t = IdleT /\ IdleT \in tpages /\ Unclaimed(f.arg)
          /\ IdleT = cur \/ state[IdleT] = "BLOCKED"
      BY <1>2, <3>2 DEF InsideOK
    <3>4. Unclaimed(f.arg)'
      <4>1. \A i \in 1..Len(fs) : fs[i].pc \in Claim => fs[i].arg # f.arg
        BY <1>1
      <4> QED
        BY <1>2, <1>10, <3>3, <4>1, UnclaimedStep
    <3>5. Top' = f
      <4>1. Len(stk'[cur]) \in Nat \ {0} /\ FD(stk'[cur], Len(stk'[cur])) = f
        <5>1. k \in 1..Len(stk'[u]) /\ FD(stk'[u], k) = f /\ u = cur
          BY <2>1, <3>2
        <5>2. k \in Nat /\ 1 <= k
          BY <1>2, <1>12, <5>1
        <5>3. Len(stk'[cur]) = k /\ FD(stk'[cur], k) = f
          BY <1>12, <5>1
        <5>4. k \in Nat \ {0}
          BY <5>2, Positive
        <5> QED
          BY <5>3, <5>4
      <4> QED
        BY <1>1, <4>1, TopNext
    <3>6. state'[IdleT] = "READY" \/ (IdleT = cur /\ state'[cur] = "RUNNING")
      <4>1. IdleT \in tpages \ {BootT} /\ IdleT \in Thread
        BY <3>3, ThreadsDiffer DEF Thread
      <4>2. state[IdleT] = "BLOCKED" => IdleT \in Blocked
        BY <4>1, CoreParts DEF StateInv
      <4>3. state[IdleT] \in {"READY", "RUNNING", "BLOCKED"}
        BY <4>1, CoreParts DEF StateInv, TypeOK, State
      <4> QED
        BY <1>3, <1>4, <3>3, <4>2, <4>3
    <3>7. Top'.pc # "unblock"
      BY <3>3, <3>5
    <3> QED
      BY <1>1, <1>12, <3>2, <3>3, <3>4, <3>5, <3>6, <3>7 DEF InsideOK
  <2> QED
    BY <1>1, <2>1 DEF InsideInv
<1>14. CurListed'
  <2>1. ~Gone(k, Inside) /\ ~Gone(k, {"self_dying", "switch"})
    BY <1>1, GoneIs DEF Inside
  <2>2. ~At("schedule")
    BY <1>2 DEF At
  <2>3. CurHas(Inside) => CurHas(Inside)'
    BY <1>1, <1>2, <2>1, CurHasStep
  <2>4. CurHas({"self_dying", "switch"}) => CurHas({"self_dying", "switch"})'
    BY <1>1, <1>2, <2>1, CurHasStep
  <2>5. Blocked' \subseteq Blocked
    BY <1>3
  <2> QED
    BY <1>1, <1>3, <2>2, <2>3, <2>4, <2>5, CoreParts DEF CurListed
<1>15. StateInv'
  <2>1. \A u \in tpages : Pending(u) => Pending(u)'
    <3> SUFFICES ASSUME NEW u \in tpages, Pending(u) PROVE Pending(u)'
      OBVIOUS
    <3>1. \A d \in 1..Len(stk[cur]) : d > k => FD(stk[cur], d).pc \notin Inside \cup {"tc_insert"}
      BY <1>2 DEF Inside
    <3> QED
      BY <1>1, <1>2, <1>10, <3>1, PendingStep
  <2>2. CASE t \notin Blocked
    BY <1>1, <1>3, <1>4, <1>5, <2>1, <2>2, CoreParts DEF StateInv, Listed
  <2>3. CASE t \in Blocked
    <3>1. Ready' = Ready \cup {t} /\ Blocked' = Blocked \ {t} /\ state'[t] = "READY" /\ t \notin Dying
      BY <1>3, <1>4, <2>3, CoreParts DEF StateInv
    <3> QED
      BY <1>1, <1>3, <1>4, <1>5, <2>1, <3>1, <2>3, CoreParts, StateStep
  <2> QED
    BY <2>2, <2>3
<1>16. Tables'
  BY <1>1, <1>8, CoreParts DEF Tables, Lasting, Lasts, Thread
<1>17. BootInv'
  <2>1. \A i \in 1..Len(fs) : FALSE
    BY <1>1
  <2> QED
    BY <1>1, <1>2, <2>1, LateBoot DEF BootPcs
<1>18. \A u \in Thread \ {cur} : state'[u] \in {"READY", "BLOCKED"} => state[u] \in {"READY", "BLOCKED"}
  BY <1>4, <1>5
<1> QED
  BY <1>1, <1>2, <1>3, <1>7, <1>8, <1>9, <1>11, <1>13, <1>14, <1>15, <1>16, <1>17, <1>18, InsideCore

(* The CPU goes over to the stack of the next thread.                       *)
LEMMA SwitchCore == ASSUME TypeOK, TypeOK', Core, Switch PROVE Core'
<1>0. <<Fr("finish")>> \in Seq(Frame)
  BY PlainFrames
<1> PICK fs, k, a : fs \in Seq(Frame) /\ fs = <<Fr("finish")>> /\ k = Len(stk[cur]) - 1 /\ a = Top.arg
  BY <1>0
<1>1. /\ At("switch") /\ cur' = a /\ a # cur /\ state[a] = "READY" /\ tpages' = tpages
      /\ parent' = parent /\ threads' = threads /\ state' = state /\ heap' = heap
      /\ cur \in Thread /\ Goto(fs) /\ Len(fs) = 1 /\ fs[1].pc = "finish"
      /\ \A i \in 1..Len(fs) : i = 1 /\ fs[i].pc = "finish"
  BY DEF Switch, tables, memory, TypeOK, Fr
<1>2. /\ Replaced(k, fs) /\ k \in Nat /\ k + 1 = Len(stk[cur])
      /\ Len(stk[cur]) \in 1..Len(stk[cur]) /\ FD(stk[cur], Len(stk[cur])) = Top /\ Top.pc = "switch"
      /\ \A d \in 1..Len(stk[cur]) : d > k => d = Len(stk[cur]) /\ FD(stk[cur], d) = Top
  BY <1>1, GotoIs
<1>3. /\ InsideOK(Top, Len(stk[cur])) /\ cur \in tpages /\ a \in Thread /\ a \in tpages /\ Unclaimed(a)
      /\ \A u \in Thread : \A d \in 1..Len(stk[u]) :
            FD(stk[u], d).pc \in Inside => u = cur /\ d = Len(stk[cur])
      /\ IdleT \in tpages /\ ~Booting
  BY <1>1, InsideTop DEF Inside
<1>4. state[cur] # "RUNNING" /\ (state[cur] = "READY" => cur \in Ready)
  BY <1>2, <1>3 DEF InsideOK
<1>5. Linked(heap') /\ Ready' = Ready /\ Blocked' = Blocked /\ Dying' = Dying /\ Listed' = Listed
  BY <1>1, SameListed, CoreParts
<1>6. Fits(k, fs)
  <2>1. \A i \in 1..Len(fs) : FrameOK(cur, fs[i]) /\ fs[i].pc \notin {"idle_made", "null_return", "exit"} \cup Deep
    BY <1>1 DEF FrameOK, Deep
  <2>2. ~Gone(k, {"execute"}) /\ ~Gone(k, {"exit"}) /\ ~Gone(k, {"idle"})
    BY <1>1, GoneIs
  <2> QED
    BY <2>1, <2>2 DEF Fits
<1>7. Lasting
  BY <1>1 DEF Lasting, Lasts, Created
<1>8. StackInv'
  BY <1>1, <1>2, <1>6, <1>7, CoreParts, StackStep
<1>9. stk'[cur] # <<>> /\ Head(stk'[cur]).pc = "finish"
  <2>1. stk' = [stk EXCEPT ![cur] = fs \o Tail(stk[cur])] /\ stk \in [Thread -> Seq(Frame)]
    BY <1>1 DEF Goto, TypeOK
  <2>2. PICK r \in Seq(Frame) : r = Tail(stk[cur])
    BY <1>1, TailKeeps
  <2>3. stk'[cur] = fs \o r
    BY <1>1, <2>1, <2>2
  <2>4. PICK q : q = fs \o r
    OBVIOUS
  <2>5. Len(q) > 0 /\ q[1] = fs[1] /\ q \in Seq(Frame)
    BY <1>1, <2>4
  <2> QED
    BY <1>1, <2>3, <2>4, <2>5
<1>10. Parked'
  <2>1. tpages \subseteq Thread
    BY DEF TypeOK
  <2>2. ASSUME NEW t \in tpages \ {a}, state[t] \in {"READY", "BLOCKED"}
        PROVE  stk'[t] # <<>> /\ Head(stk'[t]).pc = "finish"
    <3>1. CASE t = cur
      BY <1>9, <3>1
    <3>2. CASE t # cur
      BY <1>2, <2>1, <2>2, <3>2, CoreParts DEF Parked, Replaced
    <3> QED
      BY <3>1, <3>2
  <2> QED
    BY <1>1, <2>2 DEF Parked
<1>11. LimboInv'
  <2>1. stk'[a] = stk[a] /\ stk[a] # <<>> /\ Head(stk[a]).pc = "finish"
    BY <1>1, <1>2, <1>3, CoreParts DEF Parked, Replaced
  <2>2. PICK s \in Seq(Frame) : s = stk[a]
    BY <1>3 DEF TypeOK
  <2>3. Len(s) \in Nat \ {0} /\ FD(s, Len(s)) = Head(s)
    <3>1. Len(s) \in Nat /\ s # <<>> /\ Len(s) # 0
      BY <2>1, <2>2
    <3>2. Len(s) + 1 - Len(s) = 1
      BY <3>1
    <3> QED
      BY <3>1, <3>2 DEF FD
  <2>4. PICK d \in 1..Len(s) : d = Len(s)
    BY <2>3
  <2>5. FD(s, d).pc = "finish" /\ \A e \in (d + 1)..Len(s) : FALSE
    BY <2>1, <2>2, <2>3, <2>4
  <2> QED
    BY <1>1, <2>1, <2>2, <2>5 DEF LimboInv, Limbo
<1>12. \A u \in Thread : Alive(u)' => Alive(u)
  BY <1>1, <1>3 DEF Alive
<1>13. ClaimInv'
  <2>1. \A u \in Thread : \A d \in 1..Len(stk[u]) :
              Alive(u) /\ (u = cur => d <= k) /\ FD(stk[u], d).pc \in Claim /\ Alive(u)' =>
                 /\ FD(stk[u], d).arg \in tpages' \ Listed' /\ FD(stk[u], d).arg # cur'
                 /\ state'[FD(stk[u], d).arg] = state[FD(stk[u], d).arg]
    BY <1>1, <1>3, <1>5, CoreParts DEF ClaimInv, ClaimOK, Unclaimed
  <2>2. \A i \in 1..Len(fs) : fs[i].pc \notin Claim
    BY <1>1 DEF Claim
  <2> QED
    BY <1>2, <1>12, <2>1, <2>2, CoreParts, ClaimKeep
<1>14. InsideInv'
  <2>1. \A u \in Thread : \A d \in 1..Len(stk[u]) : FD(stk[u], d).pc \in Inside => u = cur /\ d > k
    BY <1>2, <1>3
  <2>2. \A i \in 1..Len(fs) : fs[i].pc \notin Inside
    BY <1>1 DEF Inside
  <2>3. \A u \in Thread : \A d \in 1..Len(stk'[u]) : FD(stk'[u], d).pc \notin Inside
    BY <1>2, <2>1, <2>2, InsideNone
  <2> QED
    BY <2>3 DEF InsideInv
<1>15. CurListed'
  <2>1. a \notin Blocked /\ a \notin Dying
    BY <1>1, CoreParts DEF StateInv
  <2> QED
    BY <1>1, <1>5, <2>1 DEF CurListed
<1>16. StateInv'
  <2>1. \A t \in tpages \ {a} : Pending(t) => Pending(t)'
    <3> SUFFICES ASSUME NEW t \in tpages \ {a}, Pending(t) PROVE Pending(t)'
      OBVIOUS
    <3>1. ~ \E d \in 1..Len(stk[cur]) : FD(stk[cur], d).pc \in Inside /\ FD(stk[cur], d).arg = t
      BY <1>1, <1>2, <1>3
    <3>a. PICK u \in Thread : Alive(u) /\ \E d \in 1..Len(stk[u]) :
            FD(stk[u], d).pc = "tc_insert" /\ FD(stk[u], d).arg = t
      BY <3>1 DEF Pending
    <3>2. PICK d \in 1..Len(stk[u]) :
            Alive(u) /\ FD(stk[u], d).pc = "tc_insert" /\ FD(stk[u], d).arg = t
      BY <3>a
    <3>3. u = cur => d <= k
      BY <1>2, <3>2
    <3>4. d \in 1..Len(stk'[u]) /\ FD(stk'[u], d) = FD(stk[u], d)
      BY <1>2, <3>3, FrameStays
    <3>5. Alive(u)'
      <4>1. CASE u = cur
        <5>1. state[cur] # "DYING"
          BY <3>2, <4>1, CoreParts DEF LimboInv, Claim
        <5>2. state[cur] \in {"READY", "BLOCKED"}
          BY <1>1, <1>4, <5>1, CoreParts DEF StateInv, TypeOK, State
        <5> QED
          BY <1>1, <1>3, <4>1, <5>2 DEF Alive
      <4>2. CASE u # cur
        BY <1>1, <3>2, <4>2 DEF Alive
      <4> QED
        BY <4>1, <4>2
    <3> QED
      BY <3>2, <3>4, <3>5 DEF Pending
  <2>2. \A t \in Ready : state[t] = "READY"
    BY <1>4, CoreParts DEF StateInv
  <2>3. \A t \in tpages \ {BootT} : state[t] = "READY" /\ t # a /\ ~Pending(t)' => t \in Ready
    BY <1>4, <2>1, CoreParts DEF StateInv
  <2> QED
    BY <1>1, <1>3, <1>5, <2>2, <2>3, CoreParts DEF StateInv
<1>17. Tables'
  BY <1>1, CoreParts DEF Tables, Created
<1>18. BootInv'
  <2>1. \A u \in Thread : \A d \in 1..Len(stk[u]) :
          ~(FD(stk[u], d).pc = "tc_insert" /\ FD(stk[u], d).arg = IdleT)
    BY <1>1, CoreParts, IdleLinked
  <2>2. ASSUME NEW u \in Thread, NEW d \in 1..Len(stk'[u]), NEW f, f = FD(stk'[u], d)
        PROVE  /\ ~(f.pc = "tc_insert" /\ f.arg = IdleT)
               /\ u = BootT => f.pc \notin {"palloc_proc", "boot_sti"}
    <3>1. CASE d \in 1..Len(stk[u]) /\ FD(stk'[u], d) = FD(stk[u], d)
      BY <1>3, <2>1, <2>2, <3>1, BootingIs
    <3>2. CASE \E i \in 1..Len(fs) : FD(stk'[u], d) = fs[i]
      BY <1>1, <2>2, <3>2
    <3>3. Replaced(k, fs)
      BY <1>2
    <3>4. \/ d \in 1..Len(stk[u]) /\ FD(stk'[u], d) = FD(stk[u], d)
          \/ \E i \in 1..Len(fs) : FD(stk'[u], d) = fs[i]
      BY <3>3, FrameCases
    <3> QED
      BY <3>1, <3>2, <3>4
  <2>3. ~Booting'
    <3>1. BootT \in Thread
      BY DEF Thread
    <3>2. stk'[BootT] \in Seq(Frame)
      BY <3>1 DEF TypeOK
    <3>3. ASSUME Booting' PROVE FALSE
      <4>1. \E i \in 1..Len(stk'[BootT]) : stk'[BootT][i].pc \in {"palloc_proc", "boot_sti"}
        BY <3>3 DEF Booting
      <4>2. PICK d \in 1..Len(stk'[BootT]) : FD(stk'[BootT], d).pc \in {"palloc_proc", "boot_sti"}
        BY <3>2, <4>1, Depths
      <4> QED
        BY <2>2, <3>1, <4>2
    <3> QED
      BY <3>3
  <2> QED
    BY <1>1, <1>3, <2>2, <2>3 DEF BootInv
<1> QED
  BY <1>5, <1>8, <1>10, <1>11, <1>13, <1>14, <1>15, <1>16, <1>17, <1>18 DEF Core, MoveInv

-----------------------------------------------------------------------------
(* The timer.                                                             *)

(* What the timer interrupt puts on the stack of the thread it stops.       *)
LEMMA TimerFrames ==
    ASSUME TypeOK, TimerInterrupt
    PROVE  \E fs \in Seq(Frame) :
              /\ Replaced(Len(stk[cur]), fs)
              /\ \/ Len(fs) = 1 /\ fs[1] = Fr("irq_return")
                 \/ /\ Len(fs) = 2 /\ fs[1] = Fr("schedule") /\ fs[2] = Fr("irq_return")
                    /\ Top.pc \in Inside => "reentered" \in incidents'
<1>1. PICK r \in Seq(Frame) : r = stk[cur]
  BY DEF TypeOK
<1>2. Fr("irq_return") \in Frame /\ Fr("schedule") \in Frame
  BY DEF Fr, Frame, Label, OnThread, OnProc, OnEither
<1>3. PICK k \in Nat : k = Len(r)
  OBVIOUS
<1>r. k <= Len(stk[cur]) /\ k = Len(r) /\ \A d \in 1..k : FD(r, d) = FD(stk[cur], d)
  BY <1>1, <1>3
<1>4. CASE thread_ticks' % MAX_THREAD_TICKS = 0
  <2>0. <<Fr("schedule")>> \in Seq(Frame) /\ <<Fr("irq_return")>> \in Seq(Frame)
    BY <1>2
  <2>1. PICK a \in Seq(Frame), b \in Seq(Frame) : a = <<Fr("schedule")>> /\ b = <<Fr("irq_return")>>
    BY <2>0
  <2>a. a \o b \in Seq(Frame)
    OBVIOUS
  <2>b. PICK fs \in Seq(Frame) : fs = a \o b
    BY <2>a
  <2>c. Len(a) = 1 /\ Len(b) = 1 /\ Len(fs) = 2 /\ fs[1] = a[1] /\ fs[2] = b[1]
    BY <2>1, <2>b
  <2>2. Len(fs) = 2 /\ fs[1] = Fr("schedule") /\ fs[2] = Fr("irq_return")
    BY <2>1, <2>c
  <2>3. <<Fr("schedule")>> \o <<Fr("irq_return")>> = fs
    BY <2>1, <2>b
  <2>4. stk' = [stk EXCEPT ![cur] = fs \o r]
    BY <1>1, <1>4, <2>3 DEF TimerInterrupt
  <2>5. Replaced(k, fs)
    BY <1>r, <2>4, PushReplaces
  <2>6. Top.pc \in Inside => "reentered" \in incidents'
    BY <1>4 DEF TimerInterrupt, Inside
  <2> QED
    BY <1>1, <1>3, <2>2, <2>5, <2>6
<1>5. CASE thread_ticks' % MAX_THREAD_TICKS # 0
  <2>1. <<Fr("irq_return")>> \in Seq(Frame)
    BY <1>2
  <2>2. PICK fs \in Seq(Frame) : fs = <<Fr("irq_return")>>
    BY <2>1
  <2>3. <<>> \o <<Fr("irq_return")>> = fs
    BY <1>2, <2>2
  <2>4. stk' = [stk EXCEPT ![cur] = fs \o r]
    BY <1>1, <1>5, <2>3 DEF TimerInterrupt
  <2>5. Replaced(k, fs)
    BY <1>r, <2>4, PushReplaces
  <2> QED
    BY <1>1, <1>3, <2>2, <2>5
<1> QED
  BY <1>4, <1>5

(* The timer stopping the current thread in the middle of anything leaves *)
(* what it has in hand in its hand.                                       *)
LEMMA TimerCore ==
    ASSUME TypeOK, TypeOK', Core, Without(ListFaults)', TimerInterrupt PROVE Core'
<1>1. PICK fs \in Seq(Frame) :
              /\ Replaced(Len(stk[cur]), fs)
              /\ \/ Len(fs) = 1 /\ fs[1] = Fr("irq_return")
                 \/ /\ Len(fs) = 2 /\ fs[1] = Fr("schedule") /\ fs[2] = Fr("irq_return")
                    /\ Top.pc \in Inside => "reentered" \in incidents'
  BY TimerFrames
<1> PICK k \in Nat : k = Len(stk[cur])
  BY <1>1 DEF Replaced, CurReplaced
<1>2. /\ Replaced(k, fs) /\ cur \in Thread
      /\ Len(fs) \in {1, 2} /\ \A i \in 1..Len(fs) : fs[i].pc \in {"schedule", "irq_return"}
      /\ Len(stk'[cur]) = k + Len(fs)
  <2>1. Fr("schedule").pc = "schedule" /\ Fr("irq_return").pc = "irq_return"
    BY DEF Fr
  <2> QED
    BY <1>1, <2>1 DEF Replaced, CurReplaced
<1>3. /\ cur' = cur /\ tpages' = tpages /\ parent' = parent /\ threads' = threads /\ state' = state
      /\ heap' = heap /\ iflag /\ ~iflag'
  BY DEF TimerInterrupt, tables, memory
<1>4. Ready' = Ready /\ Blocked' = Blocked /\ Dying' = Dying /\ Listed' = Listed
  BY <1>3 DEF Ready, Blocked, Dying, Listed, Held
<1>5. Lasting
  BY <1>3 DEF Lasting, Lasts, Created
<1>6. \A u : Alive(u)' <=> Alive(u)
  BY <1>3 DEF Alive
<1>7. StackInv /\ Parked /\ LimboInv /\ ClaimInv /\ InsideInv /\ CurListed /\ StateInv /\ Tables /\ BootInv
      /\ Linked(heap)
  BY CoreParts
<1>8. \A pcs : ~Gone(k, pcs)
  BY DEF Gone
<1>9. Fits(k, fs)
  <2>1. \A i \in 1..Len(fs) : FrameOK(cur, fs[i]) /\ fs[i].pc \notin {"idle_made", "null_return", "exit"} \cup Deep
    BY <1>2 DEF FrameOK, Deep
  <2> QED
    BY <1>8, <2>1 DEF Fits
<1>10. LimboInv'
  <2>1. \A i \in 1..Len(fs) : fs[i].pc \in Over
    BY <1>2 DEF Over
  <2> QED
    BY <1>2, <1>3, <1>7, <1>8, <2>1, LimboStay
<1>11. \A i \in 1..Len(fs) : fs[i].pc \notin Claim \cup Inside \cup {"tc_insert", "palloc_proc", "boot_sti"}
                             /\ fs[i].pc \in BootPcs
  BY <1>2 DEF Claim, Inside, BootPcs
<1>12. ClaimInv'
  <2>1. \A u \in Thread : \A d \in 1..Len(stk[u]) :
              Alive(u) /\ (u = cur => d <= k) /\ FD(stk[u], d).pc \in Claim /\ Alive(u)' =>
                 /\ FD(stk[u], d).arg \in tpages' \ Listed' /\ FD(stk[u], d).arg # cur'
                 /\ state'[FD(stk[u], d).arg] = state[FD(stk[u], d).arg]
    BY <1>3, <1>4, <1>7 DEF ClaimInv, ClaimOK
  <2> QED
    BY <1>2, <1>6, <1>7, <1>11, <2>1, ClaimKeep
<1>13. InsideInv'
  <2>1. ASSUME NEW u \in Thread, NEW d \in 1..Len(stk'[u]), NEW g, g = FD(stk'[u], d), g.pc \in Inside
        PROVE  u = cur /\ InsideOK(g, d)'
    <3>1. d \in 1..Len(stk[u]) /\ FD(stk[u], d) = g
      <4>1. CASE u = cur /\ \E i \in 1..Len(fs) : FD(stk'[u], d) = fs[i]
        BY <1>11, <2>1, <4>1
      <4>2. Replaced(k, fs)
        BY <1>2
      <4> QED
        BY <2>1, <4>1, <4>2, FrameCases
    <3>2. u = cur /\ InsideOK(g, d)
      BY <1>7, <2>1, <3>1 DEF InsideInv
    <3>3. d = k /\ k > 0
      BY <1>3, <3>1, <3>2 DEF InsideOK
    <3>4. Top = g
      <4>1. PICK s \in Seq(Frame) : s = stk[cur]
        BY DEF TypeOK
      <4>2. s # <<>> /\ Len(s) + 1 - Len(s) = 1
        BY <3>3, <4>1
      <4> QED
        BY <3>1, <3>2, <3>3, <4>1, <4>2 DEF Top, FD
    <3>5. Len(fs) = 1 /\ fs[1].pc = "irq_return"
      <4>1. "reentered" \notin incidents'
        BY DEF Without, ListFaults, SchedulerFaults
      <4>2. Len(fs) = 1 /\ fs[1] = Fr("irq_return")
        BY <1>1, <2>1, <3>4, <4>1
      <4> QED
        BY <4>2 DEF Fr
    <3>6. Top'.pc = "irq_return" /\ d = Len(stk'[cur]) - 1
      <4>1. Len(stk'[cur]) = k + 1 /\ Len(stk'[cur]) \in Nat \ {0}
        BY <1>2, <3>5
      <4>2. PICK i \in 1..Len(fs) : i = 1
        BY <3>5
      <4>3. CurReplaced(k, fs)
        BY <1>2 DEF Replaced
      <4>4. FD(stk'[cur], k + Len(fs) + 1 - i) = fs[i]
        BY <4>3, FrameNew
      <4>5. k + Len(fs) + 1 - i = k + 1
        BY <3>5, <4>2
      <4> QED
        BY <1>3, <3>3, <3>5, <4>1, <4>2, <4>4, <4>5, TopNext
    <3>7. Unclaimed(g.arg)'
      <4>1. \A i \in 1..Len(fs) : fs[i].pc \in Claim => fs[i].arg # g.arg
        BY <1>11
      <4>2. Unclaimed(g.arg)
        BY <3>2 DEF InsideOK
      <4> QED
        BY <1>2, <1>6, <4>1, <4>2, UnclaimedStep
    <3>8. Top.pc # "unblock"
      BY <2>1, <3>4 DEF Inside
    <3> QED
      BY <1>3, <1>4, <3>2, <3>6, <3>7, <3>8 DEF InsideOK
  <2> QED
    BY <1>3, <2>1 DEF InsideInv
<1>14. CurListed'
  <2>1. ASSUME NEW pcs, CurHas(pcs) PROVE CurHas(pcs)'
    <3>1. PICK d \in 1..Len(stk[cur]) : FD(stk[cur], d).pc \in pcs
      BY <2>1 DEF CurHas
    <3>2. d <= k /\ Replaced(k, fs)
      BY <1>2
    <3>3. d \in 1..Len(stk'[cur]) /\ FD(stk'[cur], d) = FD(stk[cur], d)
      BY <1>2, <3>2, FrameStays
    <3> QED
      BY <1>3, <3>1, <3>3 DEF CurHas
  <2> QED
    BY <1>3, <1>4, <1>7, <2>1 DEF CurListed
<1>15. StateInv'
  <2>1. \A t \in tpages : Pending(t) => Pending(t)'
    <3> SUFFICES ASSUME NEW t \in tpages, Pending(t) PROVE Pending(t)'
      OBVIOUS
    <3>1. \A d \in 1..Len(stk[cur]) : ~(d > k)
      OBVIOUS
    <3> QED
      BY <1>2, <1>3, <1>6, <3>1, PendingStep
  <2> QED
    BY <1>3, <1>4, <1>7, <2>1 DEF StateInv
<1>16. Tables'
  BY <1>3, <1>7 DEF Tables, Created
<1>17. BootInv'
  <2>1. IdleT \in tpages
    BY <1>3, <1>7 DEF BootInv, IdleToCome
  <2>2. \A u \in Thread : \A d \in 1..Len(stk[u]) :
          ~(FD(stk[u], d).pc = "tc_insert" /\ FD(stk[u], d).arg = IdleT)
    BY <1>3, <1>7 DEF BootInv
  <2>3. Booting => BootT \notin Listed'
    BY <1>4, <1>7 DEF BootInv
  <2> QED
    BY <1>2, <1>3, <1>7, <1>11, <2>1, <2>2, <2>3, BootStep
<1> QED
  BY <1>2, <1>3, <1>5, <1>7, <1>9, <1>10, <1>12, <1>13, <1>14, <1>15, <1>16, <1>17, InsideCore

-----------------------------------------------------------------------------
(* thread_create.                                                         *)

(* thread_create takes a page that no thread in use has.                    *)
LEMMA NewThreadPage ==
    ASSUME TypeOK, Core, At("palloc_thread"), NEW t \in ThreadPages(Top.arg) \ tpages
    PROVE  /\ t \in Thread \ {cur, BootT} /\ Top.arg \in Proc
           /\ t = IdleT => Top.arg = InitP
           /\ Top.arg \in CmdProc => t \in CmdThread
           /\ IdleT \notin tpages => t = IdleT /\ cur = BootT /\ ~iflag
           /\ t \notin Listed /\ t \notin Blocked /\ t \notin Dying /\ t \notin Ready
<1>1. Top.arg \in Proc
  BY TopProc DEF OnProc
<1>2. cur \in tpages /\ Listed \subseteq tpages
  BY CoreParts DEF StateInv
<1>3. t \in Thread \ {BootT} /\ (t = IdleT => Top.arg = InitP) /\ (Top.arg \in CmdProc => t \in CmdThread)
  BY ThreadsDiffer, ConstantsAssumption DEF ThreadPages, Thread
<1>4. ASSUME IdleT \notin tpages PROVE t = IdleT /\ cur = BootT /\ ~iflag
  <2>1. Top.arg = InitP /\ cur = BootT /\ ~iflag
    BY <1>4, CoreParts DEF BootInv, IdleToCome, At
  <2> QED
    BY <2>1, ConstantsAssumption DEF ThreadPages
<1> QED
  BY <1>1, <1>2, <1>3, <1>4 DEF Listed

(* The frames of its stack, in the order they will be run.                  *)
LEMMA FirstFrames ==
    /\ Len(FirstStack) = 4 /\ Head(FirstStack).pc = "finish" /\ FirstStack # <<>>
    /\ FD(FirstStack, 1).pc = "null_return" /\ FD(FirstStack, 2).pc = "execute"
    /\ FD(FirstStack, 3).pc = "first_eoi" /\ FD(FirstStack, 4).pc = "finish"
    /\ \A d \in 1..4 : FD(FirstStack, d).pc \in {"finish", "first_eoi", "execute", "null_return"}
<1>1. PICK s : s = FirstStack
  OBVIOUS
<1>2. /\ Len(s) = 4 /\ s # <<>> /\ Head(s).pc = "finish" /\ s[1].pc = "finish" /\ s[2].pc = "first_eoi"
      /\ s[3].pc = "execute" /\ s[4].pc = "null_return"
  BY <1>1 DEF FirstStack, Fr
<1>3. FD(s, 1) = s[4] /\ FD(s, 2) = s[3] /\ FD(s, 3) = s[2] /\ FD(s, 4) = s[1]
  BY <1>2 DEF FD
<1>4. \A d \in 1..4 : d = 1 \/ d = 2 \/ d = 3 \/ d = 4
  OBVIOUS
<1> QED
  BY <1>1, <1>2, <1>3, <1>4

(* The stack that thread_create prepares is right.                        *)
LEMMA FirstOK ==
    ASSUME NEW t \in Thread \ {BootT}, stk'[t] = FirstStack
    PROVE  StackOK(t)'
<1>1. PICK s : s = FirstStack
  OBVIOUS
<1>2. /\ Len(s) = 4 /\ FD(s, 1).pc = "null_return" /\ FD(s, 2).pc = "execute"
      /\ FD(s, 3).pc = "first_eoi" /\ FD(s, 4).pc = "finish"
      /\ \A d \in 1..4 : FD(s, d).pc \in {"finish", "first_eoi", "execute", "null_return"}
  BY <1>1, FirstFrames
<1>3. \A d \in 1..4 : d = 1 \/ d = 2 \/ d = 3 \/ d = 4
  OBVIOUS
<1>4. \A d, e \in 1..4 : d < e /\ FD(s, e).pc \in Deep => FD(s, d).pc \in Deep
  <2> SUFFICES ASSUME NEW d \in 1..4, NEW e \in 1..4, d < e, FD(s, e).pc \in Deep PROVE FD(s, d).pc \in Deep
    OBVIOUS
  <2>1. e = 2 /\ d = 1
    BY <1>2, <1>3 DEF Deep
  <2> QED
    BY <1>2, <2>1 DEF Deep
<1>5. \A d \in 1..4 : FrameOK(t, FD(s, d))'
  BY <1>2 DEF FrameOK, Deep
<1>6. \A d \in 1..4 : FD(s, d).pc = "null_return" => d = 1
  BY <1>2, <1>3
<1>7. \A d \in 1..4 : NextTo(t, d)'
  <2> SUFFICES ASSUME NEW d \in 1..4 PROVE NextTo(t, d)'
    OBVIOUS
  <2>1. FD(s, d).pc = "null_return" => d < Len(s) /\ FD(s, d + 1).pc = "execute"
    BY <1>2, <1>6
  <2>2. FD(s, d).pc \notin {"exit", "idle_made"}
    BY <1>2
  <2> QED
    BY <1>1, <2>1, <2>2 DEF NextTo
<1>8. Sorted(t)'
  BY <1>1, <1>2, <1>4 DEF Sorted
<1> QED
  BY <1>1, <1>2, <1>5, <1>7, <1>8 DEF StackOK

(* thread_create with a page has a thread in hand that is on no list and  *)
(* in nobody else's hand.                                                 *)
LEMMA NewThreadCore ==
    ASSUME TypeOK, TypeOK', Core, PallocThread,
           NEW t \in ThreadPages(Top.arg) \ tpages, NewThread(t, Top.arg, Top.n)
    PROVE  Core'
<1> PICK p, f, k, r : p = Top.arg /\ f = FrA("tc_insert", t) /\ k = Len(stk[cur]) - 1 /\ r = Tail(stk[cur])
  OBVIOUS
<1>1. /\ At("palloc_thread") /\ cur \in Thread
      /\ cur' = cur /\ iflag' = iflag /\ tpages' = tpages \cup {t} /\ state' = [state EXCEPT ![t] = "READY"]
      /\ parent' = [parent EXCEPT ![t] = p]
      /\ threads' = [threads EXCEPT ![p] = [@ EXCEPT ![Top.n] = t]]
      /\ heap' = L!list_init(heap, t)
      /\ stk' = [stk EXCEPT ![cur] = <<f>> \o r, ![t] = FirstStack]
  BY DEF PallocThread, NewThread, cpu, TypeOK
<1>2. /\ t \in Thread \ {cur, BootT} /\ p \in Proc
      /\ t = IdleT => p = InitP
      /\ p \in CmdProc => t \in CmdThread
      /\ IdleT \notin tpages => t = IdleT /\ cur = BootT /\ ~iflag
      /\ t \notin Listed /\ t \notin Blocked /\ t \notin Dying /\ t \notin Ready
  BY <1>1, NewThreadPage
<1>3. /\ r \in Seq(Frame) /\ Len(r) = k /\ k \in Nat /\ k + 1 = Len(stk[cur])
      /\ \A d \in 1..k : FD(r, d) = FD(stk[cur], d)
      /\ FD(stk[cur], Len(stk[cur])) = Top /\ Top.pc = "palloc_thread"
      /\ \A d \in 1..Len(stk[cur]) : d > k => d = Len(stk[cur]) /\ FD(stk[cur], d) = Top
  <2>1. /\ Tail(stk[cur]) \in Seq(Frame) /\ Len(Tail(stk[cur])) = Len(stk[cur]) - 1
        /\ \A d \in 1..Len(Tail(stk[cur])) : FD(Tail(stk[cur]), d) = FD(stk[cur], d)
        /\ Len(stk[cur]) \in Nat \ {0} /\ FD(stk[cur], Len(stk[cur])) = Top /\ Top.pc = "palloc_thread"
    BY <1>1, TailKeeps
  <2> QED
    BY <2>1
<1>4. /\ StackInv /\ Parked /\ LimboInv /\ ClaimInv /\ InsideInv /\ CurListed /\ StateInv /\ Tables /\ BootInv
      /\ Linked(heap)
  BY CoreParts
<1>5. f \in Frame /\ f.pc = "tc_insert" /\ f.arg = t
  <2>1. t \in Thread
    BY <1>2
  <2> QED
    BY <2>1 DEF FrA, Frame, Label, OnThread, OnProc, OnEither
<1>6. <<f>> \in Seq(Frame)
  BY <1>5
<1> PICK fs \in Seq(Frame) : fs = <<f>>
  BY <1>6
<1>7. Len(fs) = 1 /\ fs[1] = f /\ \A i \in 1..Len(fs) : i = 1 /\ fs[i] = f
  BY <1>5
<1>8. /\ stk'[cur] = fs \o r /\ stk'[t] = FirstStack
      /\ \A u \in Thread \ {cur, t} : stk'[u] = stk[u]
  <2>1. stk \in [Thread -> Seq(Frame)]
    BY DEF TypeOK
  <2> QED
    BY <1>1, <1>2, <2>1
<1>9. CurReplaced(k, fs)
  <2>1. k <= Len(stk[cur])
    BY <1>3
  <2> QED
    BY <1>3, <1>8, <2>1, CurPush
<1>10. Len(stk'[cur]) = k + 1
  BY <1>7, <1>9 DEF CurReplaced
<1>11. ASSUME NEW u \in Thread, NEW d \in 1..Len(stk'[u])
       PROVE  \/ u = t /\ FD(stk'[u], d).pc \in {"finish", "first_eoi", "execute", "null_return"}
              \/ u = cur /\ d = k + 1 /\ FD(stk'[u], d) = f
              \/ u # t /\ d \in 1..Len(stk[u]) /\ FD(stk'[u], d) = FD(stk[u], d) /\ (u = cur => d <= k)
  <2>1. CASE u = t
    BY <1>8, <1>11, <2>1, FirstFrames
  <2>2. CASE u # t /\ u # cur
    BY <1>8, <2>2
  <2>3. CASE u = cur
    <3>1. d \in 1..Len(stk'[cur])
      BY <2>3
    <3>2. \/ /\ d \in 1..Len(stk[cur]) /\ FD(stk'[cur], d) = FD(stk[cur], d) /\ d <= k
          \/ /\ d > k
             /\ \E i \in 1..Len(fs) : FD(stk'[cur], d) = fs[i] /\ i = k + Len(fs) + 1 - d
      <4>1. PICK j, gs : j = k /\ gs = fs
        OBVIOUS
      <4>2. CurReplaced(j, gs)
        BY <1>9, <4>1
      <4>3. \/ /\ d \in 1..Len(stk[cur]) /\ FD(stk'[cur], d) = FD(stk[cur], d) /\ d <= j
            \/ /\ d > j
               /\ \E i \in 1..Len(gs) : FD(stk'[cur], d) = gs[i] /\ i = j + Len(gs) + 1 - d
        BY ONLY <3>1, <4>2, CurCases
      <4> QED
        BY <4>1, <4>3
    <3>3. d > k => d = k + 1
      BY <1>3, <1>10, <3>1
    <3> QED
      BY <1>2, <1>7, <2>3, <3>2, <3>3
  <2> QED
    BY <2>1, <2>2, <2>3
<1>12. ASSUME NEW u \in Thread \ {t}, NEW d \in 1..Len(stk[u]), u = cur => d <= k
       PROVE  d \in 1..Len(stk'[u]) /\ FD(stk'[u], d) = FD(stk[u], d)
  <2>1. CASE u # cur
    BY <1>8, <2>1
  <2>2. CASE u = cur
    <3>1. d \in 1..k /\ d \in 1..(k + 1)
      BY <1>3, <1>12, <2>2
    <3> QED
      BY <1>9, <1>10, <2>2, <3>1 DEF CurReplaced
  <2> QED
    BY <2>1, <2>2
<1>13. k + 1 \in 1..Len(stk'[cur]) /\ FD(stk'[cur], k + 1) = f
  <2>1. k + 1 \in 1..Len(stk'[cur])
    BY <1>3, <1>10
  <2>2. PICK d \in 1..Len(stk'[cur]) : d = k + 1
    BY <2>1
  <2>3. ~(d <= k)
    BY <1>3, <2>2
  <2>4. FD(stk'[cur], d) = f
    BY <1>1, <1>2, <1>11, <2>3
  <2> QED
    BY <2>1, <2>2, <2>4
<1>14. Linked(heap') /\ Ready' = Ready /\ Blocked' = Blocked /\ Dying' = Dying /\ Listed' = Listed
  <2>1. L!HeadNode(t) \in Foreign /\ L!TailNode(t) \in Foreign
    BY <1>2, ForeignLists
  <2>2. Within(heap, heap', Foreign)
    BY <1>1, <2>1, ForeignHeap, ListInitWithin
  <2>3. Linked(heap') /\ \A l \in Queue : Held(heap', l) = Held(heap, l)
    BY <1>4, <2>2, ForeignStep
  <2> QED
    BY <2>3, SameListed
<1>15. /\ state'[t] = "READY" /\ \A u \in Thread \ {t} : state'[u] = state[u] /\ parent'[u] = parent[u]
       /\ tpages \subseteq Thread /\ cur \in tpages
  BY <1>1, <1>2, <1>4 DEF TypeOK, StateInv
<1>16. \A u \in Thread \ {t} : Lasts(u)
  BY <1>1, <1>15 DEF Lasts, Created, Thread
<1>17. \A u \in Thread : u # t => (Alive(u)' <=> Alive(u))
  BY <1>1, <1>15 DEF Alive
<1> HIDE DEF FirstStack
<1>18. StackInv'
  <2>1. StackOK(t)'
    BY <1>2, <1>8, FirstOK
  <2>2. ASSUME NEW c \in Thread, c = cur PROVE StackOK(c)'
    <3>1. Fits(k, fs)
      <4>1. FrameOK(cur, f) /\ f.pc \notin Deep \cup {"idle_made", "null_return", "exit"}
        BY <1>5 DEF FrameOK, Deep
      <4>2. ~Gone(k, {"execute"}) /\ ~Gone(k, {"exit"}) /\ ~Gone(k, {"idle"})
        BY <1>1, GoneIs
      <4> QED
        BY <1>7, <4>1, <4>2 DEF Fits
    <3>2. StackOK(c) /\ Lasts(c) /\ parent'[c] = parent[c]
      BY <1>1, <1>2, <1>4, <1>15, <1>16, <2>2 DEF StackInv
    <3> QED
      BY <1>9, <2>2, <3>1, <3>2, StackPush
  <2>3. ASSUME NEW u \in Thread \ {cur, t} PROVE StackOK(u)'
    <3>1. StackOK(u) /\ Lasts(u) /\ parent'[u] = parent[u] /\ stk'[u] = stk[u]
      BY <1>4, <1>8, <1>15, <1>16 DEF StackInv
    <3> QED
      BY <3>1, StackSame
  <2> QED
    BY <2>1, <2>2, <2>3 DEF StackInv
<1>19. Parked'
  <2> SUFFICES ASSUME NEW u \in tpages' \ {cur}, state'[u] \in {"READY", "BLOCKED"}
               PROVE  stk'[u] # <<>> /\ Head(stk'[u]).pc = "finish"
    BY <1>1 DEF Parked
  <2>1. CASE u = t
    BY <1>8, <2>1, FirstFrames
  <2>2. CASE u # t
    BY <1>1, <1>4, <1>8, <1>15, <2>2 DEF Parked
  <2> QED
    BY <2>1, <2>2
<1>20. LimboInv'
  <2>1. state[cur] # "DYING" /\ (state[cur] = "RUNNING" \/ cur = BootT)
    BY <1>1, <1>4, NotOver DEF Over, Inside
  <2> QED
    BY <1>1, <1>2, <1>15, <2>1 DEF LimboInv
<1>21. ASSUME NEW u \in Thread, Alive(u)', NEW d \in 1..Len(stk'[u]), FD(stk'[u], d).pc \in Claim
       PROVE  \/ u = cur /\ d = k + 1 /\ FD(stk'[u], d) = f
              \/ /\ u # t /\ d \in 1..Len(stk[u]) /\ FD(stk'[u], d) = FD(stk[u], d) /\ (u = cur => d <= k)
                 /\ Alive(u) /\ ClaimOK(FD(stk[u], d)) /\ FD(stk[u], d).arg # t
  <2>1. ~(u = t /\ FD(stk'[u], d).pc \in {"finish", "first_eoi", "execute", "null_return"})
    BY <1>21 DEF Claim
  <2>2. CASE u # t /\ d \in 1..Len(stk[u]) /\ FD(stk'[u], d) = FD(stk[u], d) /\ (u = cur => d <= k)
    <3>1. Alive(u)
      BY <1>17, <1>21, <2>2
    <3>2. ClaimOK(FD(stk[u], d))
      BY <1>4, <1>21, <2>2, <3>1 DEF ClaimInv
    <3> QED
      BY <2>2, <3>1, <3>2 DEF ClaimOK
  <2> QED
    BY <1>11, <2>1, <2>2
<1>22. ClaimInv'
  <2>1. ASSUME NEW u \in Thread, Alive(u)', NEW d \in 1..Len(stk'[u]), NEW g, g = FD(stk'[u], d), g.pc \in Claim
        PROVE  ClaimOK(g)'
    <3>1. CASE g = f
      BY <1>1, <1>2, <1>5, <1>14, <1>15, <3>1 DEF ClaimOK
    <3>2. CASE ClaimOK(g) /\ g.arg # t
      <4>1. g.arg \in tpages /\ g.arg \in Thread \ {t}
        BY <1>15, <3>2 DEF ClaimOK
      <4>2. state'[g.arg] = state[g.arg]
        BY <1>15, <4>1
      <4> QED
        BY <1>1, <1>14, <3>2, <4>1, <4>2 DEF ClaimOK
    <3> QED
      BY <1>21, <2>1, <3>1, <3>2
  <2>2. ASSUME NEW u \in Thread, NEW v \in Thread, Alive(u)', Alive(v)',
               NEW d \in 1..Len(stk'[u]), NEW e \in 1..Len(stk'[v]),
               FD(stk'[u], d).pc \in Claim, FD(stk'[v], e).pc \in Claim,
               FD(stk'[u], d).arg = FD(stk'[v], e).arg
        PROVE  u = v /\ d = e
    <3>1. \/ u = cur /\ d = k + 1 /\ FD(stk'[u], d) = f
          \/ /\ u # t /\ d \in 1..Len(stk[u]) /\ FD(stk'[u], d) = FD(stk[u], d) /\ (u = cur => d <= k)
             /\ Alive(u) /\ ClaimOK(FD(stk[u], d)) /\ FD(stk[u], d).arg # t
      BY <1>21, <2>2
    <3>2. \/ v = cur /\ e = k + 1 /\ FD(stk'[v], e) = f
          \/ /\ v # t /\ e \in 1..Len(stk[v]) /\ FD(stk'[v], e) = FD(stk[v], e) /\ (v = cur => e <= k)
             /\ Alive(v) /\ ClaimOK(FD(stk[v], e)) /\ FD(stk[v], e).arg # t
      BY <1>21, <2>2
    <3>3. CASE /\ u # t /\ d \in 1..Len(stk[u]) /\ FD(stk'[u], d) = FD(stk[u], d) /\ Alive(u)
               /\ v # t /\ e \in 1..Len(stk[v]) /\ FD(stk'[v], e) = FD(stk[v], e) /\ Alive(v)
      BY <1>4, <2>2, <3>3 DEF ClaimInv
    <3> QED
      BY <1>5, <2>2, <3>1, <3>2, <3>3
  <2> QED
    BY <2>1, <2>2 DEF ClaimInv
<1>23. InsideInv' /\ CurListed'
  <2>1. /\ \A u \in Thread : \A d \in 1..Len(stk[u]) : FD(stk[u], d).pc \notin Inside
        /\ cur \notin Dying /\ cur \notin Blocked
    BY <1>1, <1>4, NoInside DEF Inside
  <2>2. \A u \in Thread : \A d \in 1..Len(stk'[u]) : FD(stk'[u], d).pc \notin Inside
    BY <1>5, <1>11, <2>1 DEF Inside
  <2> QED
    BY <1>1, <1>14, <2>1, <2>2 DEF InsideInv, CurListed
<1>24. StateInv'
  <2>1. Pending(t)'
    <3>1. Alive(cur)' /\ f.pc = "tc_insert" /\ f.arg = t
      BY <1>1, <1>5 DEF Alive
    <3> QED
      BY <1>1, <1>13, <3>1 DEF Pending
  <2>2. ASSUME NEW u \in tpages, Pending(u) PROVE Pending(u)'
    <3>1. \A v \in Thread : \A d \in 1..Len(stk[v]) : FD(stk[v], d).pc \notin Inside
      BY <1>1, <1>4, NoInside DEF Inside
    <3>2. PICK v \in Thread : Alive(v) /\ \E d \in 1..Len(stk[v]) :
            FD(stk[v], d).pc = "tc_insert" /\ FD(stk[v], d).arg = u
      BY <1>1, <2>2, <3>1 DEF Pending
    <3>3. PICK d \in 1..Len(stk[v]) : FD(stk[v], d).pc = "tc_insert" /\ FD(stk[v], d).arg = u
      BY <3>2
    <3>4. v # t
      BY <1>2, <3>2 DEF Alive
    <3>5. v = cur => d <= k
      BY <1>3, <3>3
    <3>6. d \in 1..Len(stk'[v]) /\ FD(stk'[v], d) = FD(stk[v], d)
      BY <1>12, <3>4, <3>5
    <3>7. Alive(v)'
      BY <1>17, <3>2, <3>4
    <3> QED
      BY <3>3, <3>6, <3>7 DEF Pending
  <2> QED
    BY <1>1, <1>2, <1>4, <1>14, <1>15, <2>1, <2>2 DEF StateInv, Listed
<1>25. Tables'
  <2>1. parent'[IdleT] = InitP
    <3>1. parent[IdleT] = InitP /\ IdleT \in Thread
      BY <1>4 DEF Tables, Thread
    <3>2. CASE t = IdleT
      BY <1>1, <1>2, <3>1, <3>2 DEF TypeOK
    <3> QED
      BY <1>15, <3>1, <3>2
  <2>2. ASSUME NEW q \in CmdProc, NEW i \in Slot, NEW x, x = threads'[q][i], x # NULL
        PROVE  x \in CmdThread /\ Created(x)'
    <3>0. q \in Proc
      BY DEF Proc
    <3>1. CASE x = threads[q][i]
      <4>1. x \in CmdThread /\ Created(x)
        BY <1>4, <2>2, <3>1 DEF Tables
      <4>2. x \in Thread
        BY <4>1 DEF Thread
      <4>3. Created(x)'
        BY <1>1, <1>15, <4>1, <4>2 DEF Created
      <4> QED
        BY <4>1, <4>3
    <3>2. CASE q = p /\ x = t
      BY <1>1, <1>2, <3>2 DEF Created
    <3>3. x = threads[q][i] \/ (q = p /\ x = t)
      BY <1>1, <2>2, <3>0 DEF TypeOK
    <3> QED
      BY <3>1, <3>2, <3>3
  <2> QED
    BY <2>1, <2>2 DEF Tables
<1>26. BootInv'
  <2>1. IdleT \in tpages'
    BY <1>1, <1>2
  <2>2. ASSUME NEW u \in Thread, NEW d \in 1..Len(stk'[u]),
               FD(stk'[u], d).pc = "tc_insert", FD(stk'[u], d).arg = IdleT
        PROVE  u = BootT /\ cur' = BootT /\ d = Len(stk'[u]) /\ ~iflag'
    <3>1. \A v \in Thread : \A e \in 1..Len(stk[v]) :
            ~(FD(stk[v], e).pc = "tc_insert" /\ FD(stk[v], e).arg = IdleT)
      BY <1>1, <1>4, IdleLinked
    <3>2. u = cur /\ d = k + 1 /\ FD(stk'[u], d) = f
      BY <1>11, <2>2, <3>1
    <3>3. t = IdleT
      BY <1>5, <2>2, <3>2
    <3> QED
      BY <1>1, <1>2, <1>10, <3>2, <3>3
  <2>3. ASSUME Booting' PROVE Booting
    <3>1. PICK s \in Seq(Frame) : s = stk'[BootT]
      BY DEF TypeOK, Thread
    <3>2. \E i \in 1..Len(s) : s[i].pc \in {"palloc_proc", "boot_sti"}
      BY <2>3, <3>1 DEF Booting
    <3>3. PICK d \in 1..Len(s) : FD(s, d).pc \in {"palloc_proc", "boot_sti"}
      BY <3>2, Depths
    <3>4. BootT \in Thread /\ d \in 1..Len(stk'[BootT]) /\ FD(stk'[BootT], d).pc \in {"palloc_proc", "boot_sti"}
      BY <3>1, <3>3 DEF Thread
    <3>5. d \in 1..Len(stk[BootT]) /\ FD(stk[BootT], d).pc \in {"palloc_proc", "boot_sti"}
      BY <1>2, <1>5, <1>11, <3>4
    <3> QED
      BY <3>5, BootingIs
  <2>4. ASSUME Booting' PROVE cur' = BootT /\ BootT \notin Listed'
    BY <1>1, <1>4, <1>14, <2>3, <2>4 DEF BootInv
  <2>5. ASSUME Booting', NEW d \in 1..Len(stk'[BootT]) PROVE FD(stk'[BootT], d).pc \in BootPcs
    <3>1. \A e \in 1..Len(stk[BootT]) : FD(stk[BootT], e).pc \in BootPcs
      BY <1>4, <2>3, <2>5 DEF BootInv
    <3>2. BootT \in Thread /\ f.pc \in BootPcs
      BY <1>5 DEF Thread, BootPcs
    <3> QED
      BY <1>2, <1>11, <2>5, <3>1, <3>2
  <2> QED
    BY <2>1, <2>2, <2>4, <2>5 DEF BootInv
<1> QED
  BY <1>14, <1>18, <1>19, <1>20, <1>22, <1>23, <1>24, <1>25, <1>26 DEF Core, MoveInv

(* kmain's stack after the call of thread_create in init_threads.           *)
LEMMA BootFrames ==
    ASSUME TypeOK, Init, InitThreads
    PROVE  /\ \A u \in Thread \ {BootT} : Len(stk'[u]) = 0
           /\ Len(stk'[BootT]) = 7 /\ stk'[BootT] \in Seq(Frame)
           /\ FD(stk'[BootT], 7).pc = "palloc"
           /\ FD(stk'[BootT], 6).pc = "palloc_thread" /\ FD(stk'[BootT], 6).arg = InitP
           /\ FD(stk'[BootT], 5).pc = "idle_made" /\ FD(stk'[BootT], 4).pc = "link_init"
           /\ FD(stk'[BootT], 3).pc = "palloc" /\ FD(stk'[BootT], 2).pc = "palloc_proc"
           /\ FD(stk'[BootT], 1).pc = "yield_loop"
<1>1. /\ cur = BootT /\ BootT \in Thread
      /\ stk[BootT] = <<Fr("init_threads"), Fr("idle_made"), Fr("link_init"),
                        Fr("palloc"), Fr("palloc_proc"), Fr("yield_loop")>>
      /\ \A u \in Thread \ {BootT} : stk[u] = <<>>
  BY DEF Init, Thread
<1>2. PICK s \in Seq(Frame) : s = stk[BootT]
  BY <1>1 DEF TypeOK
<1>3. /\ Len(s) = 6 /\ s[2] = Fr("idle_made") /\ s[3] = Fr("link_init") /\ s[4] = Fr("palloc")
      /\ s[5] = Fr("palloc_proc") /\ s[6] = Fr("yield_loop")
  BY <1>1, <1>2
<1>4. PICK a \in Frame, b \in Frame : a = Fr("palloc") /\ b = FrN("palloc_thread", InitP, 0)
  <2>1. 0 \in Slot /\ InitP \in Proc
    BY ConstantsAssumption DEF Slot, Proc
  <2> QED
    BY <2>1, PlainFrames, ProcFrames
<1>5. <<a, b>> \in Seq(Frame)
  OBVIOUS
<1>6. PICK f \in Seq(Frame) : f = <<a, b>>
  BY <1>5
<1>a. s # <<>>
  BY <1>3
<1>b. /\ Tail(s) \in Seq(Frame) /\ Len(Tail(s)) = Len(s) - 1
      /\ \A i \in 1..Len(Tail(s)) : Tail(s)[i] = s[i + 1]
  BY <1>a, HeadTailProperties
<1>7. PICK r \in Seq(Frame) : r = Tail(s)
  BY <1>b
<1>e. Len(r) = Len(s) - 1 /\ \A i \in 1..Len(r) : r[i] = s[i + 1]
  BY <1>7, <1>b
<1>8. Len(r) = 5 /\ \A i \in 1..5 : r[i] = s[i + 1]
  BY <1>3, <1>e
<1>9. PICK q \in Seq(Frame) : q = f \o r
  <2>1. f \o r \in Seq(Frame)
    OBVIOUS
  <2> QED
    BY <2>1
<1>c. Len(f) = 2 /\ f[1] = a /\ f[2] = b
  BY <1>6
<1>g. Len(q) = Len(f) + Len(r)
       /\ \A i \in 1..(Len(f) + Len(r)) : q[i] = IF i <= Len(f) THEN f[i] ELSE r[i - Len(f)]
  BY <1>9
<1>d. Len(q) = 7 /\ \A i \in 1..7 : q[i] = IF i <= 2 THEN f[i] ELSE r[i - 2]
  BY <1>8, <1>c, <1>g
<1>10. /\ Len(q) = 7 /\ q[1] = f[1] /\ q[2] = f[2] /\ q[3] = r[1] /\ q[4] = r[2] /\ q[5] = r[3]
       /\ q[6] = r[4] /\ q[7] = r[5] /\ f[1] = a /\ f[2] = b
  BY <1>c, <1>d
<1>11. stk' = [stk EXCEPT ![BootT] = q]
  BY <1>1, <1>2, <1>4, <1>6, <1>7, <1>9 DEF InitThreads, Goto, CallThreadCreate
<1>12. stk'[BootT] = q /\ \A u \in Thread \ {BootT} : stk'[u] = <<>>
  BY <1>1, <1>11 DEF TypeOK
<1>13. /\ r[1] = s[2] /\ r[2] = s[3] /\ r[3] = s[4] /\ r[4] = s[5] /\ r[5] = s[6]
  BY <1>8
<1>14. /\ q[1].pc = "palloc" /\ q[2].pc = "palloc_thread" /\ q[2].arg = InitP
       /\ q[3].pc = "idle_made" /\ q[4].pc = "link_init" /\ q[5].pc = "palloc"
       /\ q[6].pc = "palloc_proc" /\ q[7].pc = "yield_loop"
  BY <1>3, <1>4, <1>10, <1>13 DEF Fr, FrN
<1>15. /\ FD(q, 7) = q[1] /\ FD(q, 6) = q[2] /\ FD(q, 5) = q[3] /\ FD(q, 4) = q[4]
       /\ FD(q, 3) = q[5] /\ FD(q, 2) = q[6] /\ FD(q, 1) = q[7]
  <2>1. /\ Len(q) + 1 - 7 = 1 /\ Len(q) + 1 - 6 = 2 /\ Len(q) + 1 - 5 = 3 /\ Len(q) + 1 - 4 = 4
        /\ Len(q) + 1 - 3 = 5 /\ Len(q) + 1 - 2 = 6 /\ Len(q) + 1 - 1 = 7
    BY ONLY <1>10
  <2> QED
    BY ONLY <2>1 DEF FD
<1> QED
  BY <1>10, <1>12, <1>14, <1>15

(* Before init_threads no list of threads is linked.                        *)
LEMMA InitHeap ==
    ASSUME Init
    PROVE  /\ heap \in L!Heap /\ Closed(heap, Foreign)
           /\ \A a \in QueueNode : heap.next[a] = NULL /\ heap.prev[a] = NULL
<1>1. NoHeap \in L!Heap /\ Closed(NoHeap, Foreign)
      /\ \A a \in Node : NoHeap.next[a] = NULL /\ NoHeap.prev[a] = NULL
  BY Places DEF NoHeap, L!Heap, Closed
<1>2. PICK h : h = L!list_init(NoHeap, "all")
  OBVIOUS
<1>3. Foreign \in SUBSET Node /\ L!HeadNode("all") \in Foreign /\ L!TailNode("all") \in Foreign
  <2>1. "all" \in ListId \ Queue
    BY DEF ListId, Queue
  <2> QED
    BY <2>1, Places
<1>4. Within(NoHeap, h, Foreign)
  BY <1>1, <1>2, <1>3, ListInitWithin
<1>5. h \in L!Heap /\ Closed(h, Foreign)
  BY <1>4 DEF Within
<1>6. L!HeadNode(InitP) \in Foreign /\ L!TailNode(InitP) \in Foreign
  BY ForeignLists DEF Proc
<1>7. heap = L!list_init(h, InitP)
  BY <1>2 DEF Init
<1>8. Within(h, heap, Foreign)
  BY <1>3, <1>5, <1>6, <1>7, ListInitWithin
<1> QED
  BY <1>1, <1>4, <1>8, Places DEF Within, Foreign

-----------------------------------------------------------------------------
(* The start-up.                                                          *)

(* init_threads establishes the invariant.                                *)
LEMMA InitThreadsCore == ASSUME TypeOK, TypeOK', Init, InitThreads PROVE Core'
<1>1. /\ cur' = BootT /\ iflag' = FALSE /\ tpages' = {BootT} /\ state' = [t \in Thread |-> "READY"]
      /\ parent' = [t \in Thread |-> InitP] /\ threads' = [p \in Proc |-> [i \in Slot |-> NULL]]
      /\ heap' = L!list_init(L!list_init(L!list_init(heap, "ready"), "blocked"), "dying")
      /\ BootT \in Thread /\ IdleT \in Thread /\ IdleT # BootT
  BY ThreadsDiffer DEF Init, InitThreads, tables, memory, cpu, Thread
<1>2. /\ \A u \in Thread \ {BootT} : Len(stk'[u]) = 0
      /\ Len(stk'[BootT]) = 7 /\ stk'[BootT] \in Seq(Frame)
  BY BootFrames
<1> PICK s \in Seq(Frame) : s = stk'[BootT]
  BY <1>2
<1>3. /\ Len(s) = 7
      /\ FD(s, 7).pc = "palloc" /\ FD(s, 6).pc = "palloc_thread" /\ FD(s, 6).arg = InitP
      /\ FD(s, 5).pc = "idle_made" /\ FD(s, 4).pc = "link_init"
      /\ FD(s, 3).pc = "palloc" /\ FD(s, 2).pc = "palloc_proc" /\ FD(s, 1).pc = "yield_loop"
  BY BootFrames
<1>4. \A d \in 1..7 : d = 1 \/ d = 2 \/ d = 3 \/ d = 4 \/ d = 5 \/ d = 6 \/ d = 7
  OBVIOUS
<1>5. \A d \in 1..7 : FD(s, d).pc \in {"palloc", "palloc_thread", "idle_made", "link_init", "palloc_proc", "yield_loop"}
  BY <1>3, <1>4
<1>6. \A d \in 1..7 : FD(s, d).pc \notin Claim \cup Inside \cup {"init_threads", "tc_insert"}
  BY <1>5 DEF Claim, Inside
<1>7. \A u \in Thread : \A d \in 1..Len(stk'[u]) : u = BootT /\ d \in 1..7 /\ FD(stk'[u], d) = FD(s, d)
  <2>1. \A u \in Thread \ {BootT} : 1..Len(stk'[u]) = {}
    BY <1>2
  <2> QED
    BY <1>3, <2>1
<1>8. Linked(heap') /\ Ready' = {} /\ Blocked' = {} /\ Dying' = {} /\ Listed' = {}
  <2>1. Linked(heap') /\ \A l \in Queue : Held(heap', l) = {}
    BY <1>1, InitHeap, UpLinked
  <2> QED
    BY <2>1 DEF Ready, Blocked, Dying, Listed, Queue
<1>9. StackInv'
  <2>1. \A d \in 1..7 : FrameOK(BootT, FD(s, d))'
    BY <1>1, <1>5 DEF FrameOK, Deep
  <2>2. \A d \in 1..7 : NextTo(BootT, d)'
    <3> SUFFICES ASSUME NEW d \in 1..7 PROVE NextTo(BootT, d)'
      OBVIOUS
    <3>1. FD(s, d).pc \notin {"null_return", "exit"}
      BY <1>5
    <3>2. FD(s, d).pc = "idle_made" => d = 5
      BY <1>3, <1>4
    <3>3. d = 5 => 2 \in 1..(d - 1) /\ FD(s, 2).pc = "palloc_proc"
      BY <1>3
    <3> QED
      BY <3>1, <3>2, <3>3 DEF NextTo
  <2>3. Sorted(BootT)'
    <3>1. \A d \in 1..7 : FD(s, d).pc \in Deep <=> d \in {1, 2}
      BY <1>3, <1>4 DEF Deep
    <3> QED
      BY <1>3, <3>1 DEF Sorted
  <2>4. StackOK(BootT)'
    BY <1>3, <2>1, <2>2, <2>3 DEF StackOK
  <2>5. ASSUME NEW u \in Thread \ {BootT} PROVE StackOK(u)'
    BY <1>2 DEF StackOK, Sorted
  <2> QED
    BY <2>4, <2>5 DEF StackInv
<1>10. Parked'
  BY <1>1 DEF Parked
<1>11. LimboInv'
  BY <1>1 DEF LimboInv
<1>12. ClaimInv'
  BY <1>6, <1>7 DEF ClaimInv
<1>13. InsideInv'
  BY <1>6, <1>7 DEF InsideInv
<1>14. CurListed'
  BY <1>8 DEF CurListed
<1>15. StateInv'
  BY <1>1, <1>8 DEF StateInv
<1>16. Tables'
  <2>1. CmdProc \subseteq Proc
    BY DEF Proc
  <2> QED
    BY <1>1, <2>1 DEF Tables
<1>17. IdleToCome'
  <2>1. At("palloc")'
    <3>1. Len(stk'[BootT]) \in Nat \ {0}
      BY <1>3
    <3>0. Len(s) \in Nat \ {0}
      BY <1>3
    <3>a. s # <<>>
      BY <3>0
    <3>2. Head(s) = s[1]
      BY <3>a
    <3>3. FD(s, 7) = s[1]
      BY <1>3 DEF FD
    <3> QED
      BY <1>1, <1>3, <3>2, <3>3 DEF At, Top
  <2> QED
    BY <1>1, <1>3, <2>1 DEF IdleToCome
<1>18. BootInv'
  <2>1. \A d \in 1..7 : FD(s, d).pc \in BootPcs
    BY <1>5 DEF BootPcs
  <2> QED
    BY <1>1, <1>3, <1>6, <1>7, <1>8, <1>17, <2>1 DEF BootInv
<1> QED
  BY <1>8, <1>9, <1>10, <1>11, <1>12, <1>13, <1>14, <1>15, <1>16, <1>18 DEF Core, MoveInv

(* And it is the first thing that happens.                                *)
LEMMA BootStarts ==
    ASSUME TypeOK, Init, Next
    PROVE  InitThreads
<1>1. At("init_threads") /\ ~iflag
  <2>1. PICK s \in Seq(Frame) : s = stk[cur]
    BY DEF TypeOK
  <2>a. Len(s) = 6 /\ s[1] = Fr("init_threads")
    BY <2>1 DEF Init, Thread
  <2>0. Len(s) \in Nat \ {0}
    BY <2>a
  <2>b. s # <<>>
    BY <2>0
  <2>2. Head(s) = Fr("init_threads") /\ Len(s) > 0
    BY <2>a, <2>b
  <2> QED
    BY <2>1, <2>2 DEF At, Top, Fr, Init
<1>2. \A pc : pc # "init_threads" => ~At(pc)
  BY <1>1 DEF At
<1>3. ~TimerInterrupt /\ ~ShellCommand /\ ~Run
  BY <1>1, <1>2 DEF TimerInterrupt, ShellCommand, Run, Idle, ShellCall, BodyReturn, BodyCall, BodyYield,
     BodyNoSlot, BodyCreate, BodyWait, BodyKill, BodyExit, Calling
<1>4. ~Create /\ ~Sleep
  BY <1>2 DEF Create, PallocAcquire, PallocThread, TcInsert, PallocProc, NumLiveSet, LinkProc, LiveInc,
     Sleep, ThreadBlock, ThreadUnblock, Wait, WaitRet, Notify
<1>5. ~Die
  BY <1>2 DEF Die, ThreadExit, ThreadKill, KillRest, ThreadCleanup, ProcCleanup, PfreeProc, PfreeThread,
     ProcKill, ProcKillNext
<1>6. ~Sched
  BY <1>2 DEF Sched, Schedule, Demote, Enqueue, SelfDying, NoSwitch, Switch, FinishSchedule, Sti, FirstEoi,
     ThreadExecute, IrqReturn
<1>7. Boot => InitThreads
  BY <1>2 DEF Boot, IdleMade, LinkInit, BootSti, YieldLoop
<1> QED
  BY <1>3, <1>4, <1>5, <1>6, <1>7 DEF Next, Code

-----------------------------------------------------------------------------
(* The invariant.                                                         *)

(* What has occurred has occurred.                                          *)
LEMMA IncidentsGrow ==
    ASSUME [Next]_vars
    PROVE  incidents \subseteq incidents'
<1>1. CASE Boot
  BY <1>1 DEF Boot, InitThreads, IdleMade, LinkInit, BootSti, YieldLoop, used
<1>2. CASE Create
  BY <1>2, MeetGrows DEF Create, PallocAcquire, PallocThread, TcInsert, PallocProc, NumLiveSet,
     LinkProc, LiveInc, used
<1>3. CASE Sleep
  BY <1>3, MeetGrows DEF Sleep, ThreadBlock, ThreadUnblock, Wait, WaitRet, Notify, used
<1>4. CASE Die
  BY <1>4, MeetGrows DEF Die, ThreadExit, ThreadKill, KillRest, ThreadCleanup, ProcCleanup,
     PfreeProc, PfreeThread, ProcKill, ProcKillNext, used
<1>5. CASE Sched
  BY <1>5, MeetGrows DEF Sched, Schedule, Demote, Enqueue, SelfDying, NoSwitch, Switch, FinishSchedule,
     Sti, FirstEoi, ThreadExecute, IrqReturn, used
<1>6. CASE Run \/ ShellCommand
  BY <1>6 DEF Run, Idle, ShellCall, BodyReturn, BodyCall, BodyYield, BodyNoSlot, BodyCreate, BodyWait,
     BodyKill, BodyExit, Calling, ShellCommand, used
<1>7. CASE TimerInterrupt
  BY <1>7 DEF TimerInterrupt
<1>8. CASE UNCHANGED vars
  BY <1>8 DEF vars, used
<1> QED
  BY <1>1, <1>2, <1>3, <1>4, <1>5, <1>6, <1>7, <1>8 DEF Next, Code

(* The steps that leave everything as it is.                                *)
LEMMA StutterCore == ASSUME TypeOK, Core, UNCHANGED vars PROVE Core'
<1>1. /\ cur' = cur /\ iflag' = iflag /\ tpages' = tpages /\ parent' = parent /\ threads' = threads
      /\ state' = state /\ heap' = heap /\ stk' = stk
  BY DEF vars, tables, memory, cpu
<1>2. Linked(heap') /\ Ready' = Ready /\ Blocked' = Blocked /\ Dying' = Dying /\ Listed' = Listed
  BY <1>1, CoreParts DEF Ready, Blocked, Dying, Listed, Held
<1>3. (\A u : Alive(u)' <=> Alive(u)) /\ Lasting /\ Top' = Top /\ (\A pc : At(pc)' <=> At(pc))
  BY <1>1 DEF Alive, Lasting, Lasts, Created, At, Top
<1>4. StackInv'
  <2>1. \A t \in Thread : StackOK(t) /\ Lasts(t) /\ stk'[t] = stk[t] /\ parent'[t] = parent[t]
    BY <1>1, <1>3, CoreParts DEF StackInv, Lasting
  <2> SUFFICES ASSUME NEW t \in Thread PROVE StackOK(t)'
    BY DEF StackInv
  <2> QED
    BY <2>1, StackSame
<1>5. Parked' /\ LimboInv'
  BY <1>1, CoreParts DEF Parked, LimboInv, Limbo
<1>6. \A t : Unclaimed(t)' <=> Unclaimed(t)
  BY <1>1, <1>3 DEF Unclaimed
<1>7. ClaimInv'
  BY <1>1, <1>2, <1>3, CoreParts DEF ClaimInv, ClaimOK
<1>8. InsideInv' /\ CurListed'
  BY <1>1, <1>2, <1>3, <1>6, CoreParts DEF InsideInv, InsideOK, CurListed, CurHas
<1>9. StateInv' /\ Tables'
  BY <1>1, <1>2, <1>3, CoreParts DEF StateInv, Pending, Tables, Created
<1>10. BootInv'
  BY <1>1, <1>2, <1>3, CoreParts DEF BootInv, IdleToCome, Booting
<1> QED
  BY <1>2, <1>4, <1>5, <1>7, <1>8, <1>9, <1>10 DEF Core, MoveInv

(* Every step that meets no fault keeps the core of the invariant.          *)
LEMMA NextCore ==
    ASSUME TypeOK, TypeOK', SwitchInv, Core, Without(ListFaults)', [Next]_vars
    PROVE  Core'
<1>0. Without(ListFaults)
  BY IncidentsGrow DEF Without
<1>1. CASE Boot
  <2>1. ~InitThreads
    <3> SUFFICES ASSUME At("init_threads") PROVE FALSE
      BY DEF InitThreads
    <3> QED
      BY TopOK DEF FrameOK
  <2> QED
    BY <1>1, <2>1, IdleMadeCore, LinkInitCore, BootStiCore, YieldLoopCore DEF Boot
<1>2. CASE Create
  <2>1. CASE PallocThread
    <3>1. CASE ThreadPages(Top.arg) \subseteq tpages /\ NoThread
      BY <2>1, <3>1, NoThreadCore
    <3>2. ASSUME NEW t \in ThreadPages(Top.arg) \ tpages, NewThread(t, Top.arg, Top.n) PROVE Core'
      BY <2>1, <3>2, NewThreadCore
    <3> QED
      BY <2>1, <3>1, <3>2 DEF PallocThread
  <2> QED
    BY <1>2, <2>1, PallocAcquireCore, TcInsertCore, PallocProcCore, NumLiveSetCore, LinkProcCore,
       LiveIncCore DEF Create
<1>3. CASE Sleep
  BY <1>3, ThreadBlockCore, ThreadUnblockCore, WaitCore, WaitRetCore, NotifyCore DEF Sleep
<1>4. CASE Die
  BY <1>0, <1>4, ThreadExitCore, ThreadKillCore, KillRestCore, ThreadCleanupCore, ProcCleanupCore,
     PfreeProcCore, PfreeThreadCore, ProcKillCore, ProcKillNextCore DEF Die
<1>5. CASE Sched
  BY <1>5, ScheduleCore, DemoteCore, EnqueueCore, SelfDyingCore, NoSwitchCore, SwitchCore,
     FinishScheduleCore, StiCore, FirstEoiCore, ThreadExecuteCore, IrqReturnCore DEF Sched
<1>6. CASE Run
  BY <1>6, IdleCore, ShellCallCore, BodyReturnCore, BodyYieldCore, BodyNoSlotCore, BodyCreateCore,
     BodyWaitCore, BodyKillCore, BodyExitCore DEF Run, BodyCall
<1>7. CASE ShellCommand \/ TimerInterrupt
  BY <1>7, ShellCommandCore, TimerCore
<1>8. CASE UNCHANGED vars
  BY <1>8, StutterCore
<1> QED
  BY <1>1, <1>2, <1>3, <1>4, <1>5, <1>6, <1>7, <1>8 DEF Next, Code

(* The inductive invariant of the system: the types, that only the        *)
(* current thread is RUNNING, and, as long as no incident has damaged the *)
(* lists, that init_threads is still to come or that all of Core holds.   *)
KInv == TypeOK /\ SwitchInv /\ (Without(ListFaults) => Init \/ Core)

(* The invariant holds before init_threads,                               *)
LEMMA KInvInit == Init => KInv
BY InitType, InitSwitch DEF KInv

(* and every step of the system preserves it.                             *)
LEMMA KInvNext == KInv /\ [Next]_vars => KInv'
<1> SUFFICES ASSUME KInv, [Next]_vars PROVE KInv'
  OBVIOUS
<1>1. TypeOK' /\ SwitchInv'
  BY NextType, NextSwitch DEF KInv
<1>2. ASSUME Without(ListFaults)' PROVE Init' \/ Core'
  <2>1. Init \/ Core
    BY <1>2, IncidentsGrow DEF KInv, Without
  <2>2. CASE Core
    BY <1>1, <1>2, <2>2, NextCore DEF KInv
  <2>3. CASE Init /\ Next
    BY <1>1, <2>3, BootStarts, InitThreadsCore DEF KInv
  <2>4. CASE Init /\ UNCHANGED vars
    BY <2>4 DEF Init, vars, tables, memory, cpu, used
  <2> QED
    BY <2>1, <2>2, <2>3, <2>4
<1> QED
  BY <1>1, <1>2 DEF KInv

-----------------------------------------------------------------------------
(* What follows from the invariant.                                       *)

(* Before init_threads there are no lists to speak of.                    *)
LEMMA InitDown == Init => ~Up
<1> SUFFICES ASSUME Init PROVE ~Up
  OBVIOUS
<1>1. L!HeadNode("dying") \in QueueNode
  BY Places DEF Queue
<1> QED
  BY <1>1, InitHeap DEF Up

(* After init_threads the lists and the threads are as Core says.         *)
LEMMA CoreUp ==
    ASSUME KInv, Without(ListFaults), Up
    PROVE  TypeOK /\ Core
BY InitDown DEF KInv

(* The nodes on a list are those of its threads.                          *)
LEMMA NodesHeld ==
    ASSUME NEW t \in Thread
    PROVE  /\ TNode(t) \in ReadyNodes <=> t \in Ready
           /\ TNode(t) \in BlockedNodes <=> t \in Blocked
           /\ TNode(t) \in DyingNodes <=> t \in Dying
BY DEF ReadyNodes, BlockedNodes, DyingNodes, Ready, Blocked, Dying, Held

(* A thread about to be linked is in the hand of some code.               *)
LEMMA PendingInHand ==
    ASSUME TypeOK, NEW t, Pending(t)
    PROVE  InHand(t)
<1>1. PICK u \in Thread : \E d \in 1..Len(stk[u]) :
         FD(stk[u], d).pc \in Inside \cup {"tc_insert"} /\ FD(stk[u], d).arg = t
  BY DEF Pending, TypeOK
<1>2. PICK d \in 1..Len(stk[u]) : FD(stk[u], d).pc \in Inside \cup {"tc_insert"} /\ FD(stk[u], d).arg = t
  BY <1>1
<1>3. PICK s \in Seq(Frame) : s = stk[u]
  BY DEF TypeOK
<1>4. Len(s) + 1 - d \in 1..Len(s) /\ FD(s, d) = s[Len(s) + 1 - d]
  BY <1>3 DEF FD
<1> QED
  BY <1>2, <1>3, <1>4 DEF InHand, Inside

(* Whatever the timer interrupts, the ready, the blocked and the dying    *)
(* list of thread.c can always be walked from end to end, in both         *)
(* directions.                                                            *)
THEOREM ListsStayIntact == Spec => []ListsIntact
<1>1. KInv => ListsIntact
  BY CoreUp, CoreParts, LinkedIntact DEF ListsIntact, Queue
<1> QED
  BY <1>1, KInvInit, KInvNext, PTL DEF Spec

(* Whatever the timer interrupts, a thread is on the list of its state,   *)
(* or is in the hand of the code that will put it there.                  *)
THEOREM ListsFollowStates == Spec => []ListsMatchStates
<1>1. KInv => ListsMatchStates
  <2> SUFFICES ASSUME KInv, Without(ListFaults), Up PROVE ListsMatchStates
    BY DEF ListsMatchStates
  <2>1. TypeOK /\ StateInv /\ tpages \subseteq Thread
    BY CoreUp, CoreParts DEF TypeOK
  <2>2. ASSUME NEW t \in Thread
        PROVE  /\ TNode(t) \in ReadyNodes => state[t] = "READY" \/ (state[t] = "RUNNING" /\ t = cur)
               /\ TNode(t) \in DyingNodes => state[t] = "DYING"
               /\ TNode(t) \in BlockedNodes => state[t] = "BLOCKED"
    BY <2>1, NodesHeld DEF StateInv
  <2>3. ASSUME NEW t \in tpages \ {BootT}
        PROVE  /\ state[t] = "BLOCKED" => TNode(t) \in BlockedNodes
               /\ state[t] = "READY" /\ t # cur /\ ~InHand(t) => TNode(t) \in ReadyNodes
    <3>1. t \in Thread
      BY <2>1
    <3>2. ~InHand(t) => ~Pending(t)
      BY <2>1, PendingInHand
    <3> QED
      BY <2>1, <3>1, <3>2, NodesHeld DEF StateInv
  <2> QED
    BY <2>2, <2>3 DEF ListsMatchStates
<1> QED
  BY <1>1, KInvInit, KInvNext, PTL DEF Spec

(* No list of the scheduler links a thread whose page has been freed, and *)
(* the thread that runs has its page.                                     *)
THEOREM NoFreedThreadListed == Spec => []NoFreedThread
<1>1. KInv => NoFreedThread
  <2> SUFFICES ASSUME KInv, Without(ListFaults) PROVE NoFreedThread
    BY DEF NoFreedThread
  <2>1. cur \in tpages
    <3>1. CASE Init
      BY <3>1 DEF Init
    <3>2. CASE Core
      BY <3>2, CoreParts DEF StateInv
    <3> QED
      BY <3>1, <3>2 DEF KInv
  <2>2. ASSUME Up, NEW t \in Thread, TNode(t) \in ReadyNodes \cup BlockedNodes \cup DyingNodes
        PROVE  t \in tpages
    <3>1. StateInv
      BY <2>2, CoreUp, CoreParts
    <3>2. t \in Listed
      BY <2>2, NodesHeld DEF Listed
    <3> QED
      BY <3>1, <3>2 DEF StateInv
  <2> QED
    BY <2>1, <2>2 DEF NoFreedThread
<1> QED
  BY <1>1, KInvInit, KInvNext, PTL DEF Spec

(* thread_exit never comes back: the NULL that thread_create pushes under *)
(* thread_execute is never returned to.                                   *)
THEOREM ExitNeverReturns == Spec => []ExitIsFinal
<1>1. KInv => ExitIsFinal
  <2> SUFFICES ASSUME KInv, Without(ListFaults), At("null_return") PROVE FALSE
    BY DEF ExitIsFinal
  <2>1. CASE Init
    <3>1. stk[cur] = <<Fr("init_threads"), Fr("idle_made"), Fr("link_init"),
                       Fr("palloc"), Fr("palloc_proc"), Fr("yield_loop")>>
      BY <2>1 DEF Init, Thread
    <3>2. Top = Fr("init_threads")
      BY <3>1 DEF Top
    <3> QED
      BY <3>2 DEF At, Fr
  <2>2. CASE Core
    <3>1. TypeOK /\ StackInv /\ LimboInv /\ StateInv
      BY <2>2, CoreParts DEF KInv
    <3>2. state[cur] # "DYING"
      BY <3>1, NotOver DEF Over, Inside
    <3>3. cur \in Thread /\ Len(stk[cur]) \in Nat \ {0} /\ FD(stk[cur], Len(stk[cur])).pc = "null_return"
      BY <3>1, TopFrame
    <3>4. PICK d \in 1..Len(stk[cur]) : d = Len(stk[cur])
      BY <3>3
    <3>5. NextTo(cur, d)
      BY <3>1, <3>3 DEF StackInv, StackOK
    <3> QED
      BY <3>2, <3>3, <3>4, <3>5 DEF NextTo
  <2> QED
    BY <2>1, <2>2 DEF KInv
<1> QED
  BY <1>1, KInvInit, KInvNext, PTL DEF Spec

(* Only pfree takes the page of a thread away.                              *)
LEMMA PagesStay ==
    ASSUME [Next]_vars, ~PfreeThread
    PROVE  tpages \subseteq tpages'
<1>1. CASE Boot
  BY <1>1 DEF Boot, InitThreads, IdleMade, LinkInit, BootSti, YieldLoop, memory
<1>2. CASE Create
  BY <1>2 DEF Create, PallocAcquire, PallocThread, NoThread, NewThread, TcInsert, PallocProc, NumLiveSet,
     LinkProc, LiveInc, memory
<1>3. CASE Sleep
  BY <1>3 DEF Sleep, ThreadBlock, ThreadUnblock, Wait, WaitRet, Notify, memory
<1>4. CASE Die
  BY <1>4 DEF Die, ThreadExit, ThreadKill, KillRest, ThreadCleanup, ProcCleanup,
     PfreeProc, ProcKill, ProcKillNext, memory
<1>5. CASE Sched
  BY <1>5 DEF Sched, Schedule, Demote, Enqueue, SelfDying, NoSwitch, Switch, FinishSchedule,
     Sti, FirstEoi, ThreadExecute, IrqReturn, memory
<1>6. CASE Run \/ ShellCommand
  BY <1>6 DEF Run, Idle, ShellCall, BodyReturn, BodyCall, BodyYield, BodyNoSlot, BodyCreate, BodyWait,
     BodyKill, BodyExit, Calling, ShellCommand, memory
<1>7. CASE TimerInterrupt
  BY <1>7 DEF TimerInterrupt, memory
<1>8. CASE UNCHANGED vars
  BY <1>8 DEF vars, memory
<1> QED
  BY <1>1, <1>2, <1>3, <1>4, <1>5, <1>6, <1>7, <1>8 DEF Next, Code

(* thread_cleanup frees no thread but a DYING one, and never the one that *)
(* runs.                                                                  *)
THEOREM FreesOnlyDeadThreads == Spec => FreesDeadThreads
<1> DEFINE OfTheDead ==
      Without(ListFaults)' =>
         \A t \in tpages \ tpages' : t # cur /\ state[t] = "DYING"
<1>1. KInv /\ [Next]_vars => [OfTheDead]_vars
  <2> SUFFICES ASSUME KInv, [Next]_vars, Without(ListFaults)', NEW t \in tpages \ tpages'
               PROVE  t # cur /\ state[t] = "DYING"
    OBVIOUS
  <2>1. PfreeThread
    BY PagesStay
  <2>2. At("pfree_thread") /\ t = Top.arg
    BY <2>1 DEF PfreeThread
  <2>3. Core
    <3>1. Without(ListFaults)
      BY IncidentsGrow DEF Without
    <3>2. CASE Init
      <4>1. Next
        BY <2>1 DEF Next, Code, Die
      <4>2. At("init_threads")
        BY <3>2, <4>1, BootStarts DEF KInv, InitThreads
      <4> QED
        BY <2>2, <4>2 DEF At
    <3> QED
      BY <3>1, <3>2 DEF KInv
  <2>4. ClaimOK(Top) /\ Top.pc = "pfree_thread"
    BY <2>2, <2>3, TopClaim DEF KInv, Claim
  <2> QED
    BY <2>2, <2>4 DEF ClaimOK
<1> QED
  BY <1>1, KInvInit, KInvNext, PTL DEF Spec, FreesDeadThreads

(* thread.c, at every step: each thread is on the list of its state, or in  *)
(* the hand of one piece of code alone, whatever the timer interrupts.      *)
THEOREM ThreadsAreInHand == Spec => []ThreadsInHand
<1>1. KInv => ThreadsInHand
  BY CoreUp DEF ThreadsInHand, Core, ThreadsInv
<1> QED
  BY <1>1, KInvInit, KInvNext, PTL DEF Spec
=============================================================================
