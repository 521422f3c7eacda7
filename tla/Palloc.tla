------------------------------- MODULE Palloc -------------------------------
(***************************************************************************)
(* The page allocator: palloc_mult and pfree_mult of kernel/kalloc.c, over *)
(* the spin lock of libk/synch.c and libk/atomic.c and the bitmap of       *)
(* libk/bitmap.c, called by several threads that the timer may preempt     *)
(* between any two accesses to memory.                                     *)
(*                                                                         *)
(* The bitmap is the set of the pages whose bit is 1.  A bit is changed by *)
(* a load of the 32-bit word it is in and a store of that word, which are  *)
(* two steps.  pfree_mult gives the lock back before it clears the bits,   *)
(* so its store may come after another thread has changed the word: the    *)
(* history variable stale tells whether that has happened.                 *)
(***************************************************************************)
EXTENDS Naturals, FiniteSets

CONSTANTS Thread,
          NumPages,   \* bits in the map
          ELEM_BITS,  \* bits in a word of the map
          Reserved,   \* pages at the start of the area, which hold the map
          MaxCnt      \* bound: pages in one allocation

ASSUME PallocAssumption ==
    /\ NumPages \in Nat \ {0} /\ ELEM_BITS \in Nat \ {0}
    /\ Reserved \in 1..NumPages /\ MaxCnt \in Nat

Page == 0..(NumPages - 1)
Run(idx, cnt) == {p \in Page : idx <= p /\ p < idx + cnt}
Alloc == [idx : Page, cnt : 1..MaxCnt]
Pages(a) == Run(a.idx, a.cnt)

(* The bits in the word that holds bit i.                                  *)
Word(i) == {p \in Page : p \div ELEM_BITS = i \div ELEM_BITS}

VARIABLES
    val,    \* palloc_lock.val
    map,    \* the bits of free_map that are 1
    pc,     \* where each thread is
    loc,    \* its arguments and local variables
    held,   \* history: the allocations the callers hold
    lost,   \* history: pages marked used that nobody can free any more
    stale   \* history: a store has undone a change by another thread

vars == <<val, map, pc, loc, held, lost, stale>>

(* Arguments and locals of a call: cnt; idx, or begin while the map is     *)
(* searched; the loop counters i and n (the cnt of bitmap.c); the word     *)
(* loaded; and, as history, the pages that were free when the search began.*)
Local == [op : {"palloc", "pfree"}, cnt : 0..MaxCnt, idx : 0..(NumPages + 1),
          i : 0..NumPages, n : 0..MaxCnt, reg : SUBSET Page, free : SUBSET Page]

Idle == [op |-> "palloc", cnt |-> 0, idx |-> 0, i |-> 0, n |-> 0,
         reg |-> {}, free |-> {}]

Goto(t, l) == pc' = [pc EXCEPT ![t] = l]
Return(t)  == Goto(t, "out") /\ loc' = [loc EXCEPT ![t] = Idle]

(* init_alloc.  bitmap_init_s does not clear the memory it is given: a bit *)
(* that happens to be 1 there marks a page that is never handed out.       *)
Init ==
    /\ val = 0
    /\ lost \in SUBSET (Page \ Run(0, Reserved))
    /\ map = Run(0, Reserved) \cup lost
    /\ pc = [t \in Thread |-> "out"]
    /\ loc = [t \in Thread |-> Idle]
    /\ held = {} /\ stale = FALSE

CallPalloc(t, cnt) ==
    /\ pc[t] = "out"
    /\ Goto(t, "check")
    /\ loc' = [loc EXCEPT ![t] = [Idle EXCEPT !.cnt = cnt]]
    /\ UNCHANGED <<val, map, held, lost, stale>>

(* Any thread may free what is allocated: threads are freed by others.     *)
CallPfree(t, a) ==
    /\ pc[t] = "out" /\ a \in held
    /\ held' = held \ {a}
    /\ Goto(t, "check")
    /\ loc' = [loc EXCEPT ![t] = [Idle EXCEPT !.op = "pfree", !.cnt = a.cnt, !.idx = a.idx]]
    /\ UNCHANGED <<val, map, lost, stale>>

-----------------------------------------------------------------------------
Setting(t)  == pc[t] \in {"load", "store"} /\ loc[t].op = "palloc"
Clearing(t) == pc[t] \in {"load", "store"} /\ loc[t].op = "pfree"
InSection(t) == pc[t] \in {"find", "count", "release"} \/ Setting(t)

(* NumPages + 1 is the index of no range.                                   *)
Found(t) == loc[t].idx # NumPages + 1

(* What t is about to give to its caller, and what its caller gave back and *)
(* is not yet marked free.                                                  *)
Taking(t) ==
    IF Setting(t) \/ (pc[t] = "release" /\ loc[t].op = "palloc" /\ Found(t))
    THEN Run(loc[t].idx, loc[t].cnt) ELSE {}
Giving(t) ==
    IF pc[t] # "out" /\ loc[t].op = "pfree"
    THEN {p \in Run(loc[t].idx, loc[t].cnt) : Clearing(t) => p >= loc[t].i}
    ELSE {}

(* spin_lock_acquire: the check of the value, on which both callers give   *)
(* up, then test_and_set until it returns 0 (one that returns 1 changes    *)
(* nothing).  The thread that has the lock starts its search or its count. *)
AcquireCheck(t) ==
    /\ pc[t] = "check"
    /\ IF val \in {0, 1}
       THEN Goto(t, "spin") /\ UNCHANGED <<loc, lost>>
       ELSE Return(t) /\ lost' = lost \cup Giving(t)
    /\ UNCHANGED <<val, map, held, stale>>

SomeValue(v) == TRUE      \* mutant: whatever the value was
Acquires(v) == ~(v > 0)

Spin(t) ==
    /\ pc[t] = "spin"
    /\ val' = 1
    /\ Acquires(val)
    /\ IF loc[t].op = "palloc"
       THEN Goto(t, "find") /\ loc' = [loc EXCEPT ![t].free = Page \ map]
       ELSE Goto(t, "count") /\ loc' = [loc EXCEPT ![t].i = loc[t].idx]
    /\ UNCHANGED <<map, held, lost, stale>>

(* spin_lock_release in palloc_mult and in pfree_mult; pages that cannot   *)
(* be freed stay marked.                                                   *)
ReleasedIfFound(t) ==   \* mutant: the lock is kept if nothing was found
    IF Found(t) THEN val - 1 ELSE val
Released(t) == val - 1

PallocRelease(t) ==
    /\ pc[t] = "release" /\ loc[t].op = "palloc"
    /\ val' = Released(t)
    /\ held' = IF Found(t) THEN held \cup {[idx |-> loc[t].idx, cnt |-> loc[t].cnt]} ELSE held
    /\ Return(t)
    /\ UNCHANGED <<map, lost, stale>>

PfreeRelease(t) ==
    /\ pc[t] = "release" /\ loc[t].op = "pfree"
    /\ val' = Released(t)
    /\ IF loc[t].idx + loc[t].cnt < NumPages /\ loc[t].n = loc[t].cnt
       THEN /\ Goto(t, "load")
            /\ loc' = [loc EXCEPT ![t].i = loc[t].idx]
            /\ UNCHANGED lost
       ELSE /\ lost' = lost \cup Run(loc[t].idx, loc[t].cnt)
            /\ Return(t)
    /\ UNCHANGED <<map, held, stale>>

-----------------------------------------------------------------------------
(* bitmap_find_range, one bit a step: the run that ends at bit i.           *)
NextRunNotMoved(t, i) ==   \* mutant: begin is left where it was
    [loc[t] EXCEPT !.i = i + 1, !.n = IF i \in map THEN 0 ELSE @ + 1]
NextRun(t, i) ==
    IF i \in map
    THEN [loc[t] EXCEPT !.i = i + 1, !.n = 0, !.idx = i + 1]
    ELSE [loc[t] EXCEPT !.i = i + 1, !.n = @ + 1]

SearchedButOne(i) == i + 1 >= NumPages  \* mutant: one bit too few
SearchedAll(i) == i = NumPages

FindBit(t) ==
    /\ pc[t] = "find"
    /\ LET new == NextRun(t, loc[t].i) IN
       IF new.n = loc[t].cnt
       THEN /\ Goto(t, "load")
            /\ loc' = [loc EXCEPT ![t] = [new EXCEPT !.i = new.idx, !.free = {}]]
       ELSE IF SearchedAll(new.i)
       THEN /\ Goto(t, "release")
            /\ loc' = [loc EXCEPT ![t] = [new EXCEPT !.idx = NumPages + 1]]
       ELSE loc' = [loc EXCEPT ![t] = new] /\ UNCHANGED pc
    /\ UNCHANGED <<val, map, held, lost, stale>>

(* bitmap_count_range                                                       *)
CountBit(t) ==
    /\ pc[t] = "count"
    /\ LET i == loc[t].i IN
       /\ loc' = [loc EXCEPT ![t].i = i + 1, ![t].n = IF i \in map THEN @ + 1 ELSE @]
       /\ IF i + 1 < loc[t].idx + loc[t].cnt THEN UNCHANGED pc ELSE Goto(t, "release")
    /\ UNCHANGED <<val, map, held, lost, stale>>

(* bitmap_set_range, in palloc_mult with true and in pfree_mult with false, *)
(* which is the last thing pfree_mult does.                                 *)
LoadWord(t) ==
    /\ pc[t] = "load"
    /\ loc' = [loc EXCEPT ![t].reg = map \cap Word(loc[t].i)]
    /\ Goto(t, "store")
    /\ UNCHANGED <<val, map, held, lost, stale>>

LastButOne(t) == loc[t].i + 2 >= loc[t].idx + loc[t].cnt  \* mutant: one bit too few
LastBit(t) == loc[t].i + 1 = loc[t].idx + loc[t].cnt

StoreWord(t) ==
    /\ pc[t] = "store"
    /\ LET i == loc[t].i  reg == loc[t].reg IN
       /\ map' = (map \ Word(i))
                 \cup (IF loc[t].op = "palloc" THEN reg \cup {i} ELSE reg \ {i})
       /\ stale' = (stale \/ reg # map \cap Word(i))
       /\ \/ LastBit(t) /\ loc[t].op = "pfree" /\ Return(t)
          \/ /\ LastBit(t) /\ loc[t].op = "palloc"
             /\ Goto(t, "release")
             /\ loc' = [loc EXCEPT ![t].reg = {}]
          \/ /\ ~LastBit(t)
             /\ Goto(t, "load")
             /\ loc' = [loc EXCEPT ![t].i = i + 1, ![t].reg = {}]
    /\ UNCHANGED <<val, held, lost>>

-----------------------------------------------------------------------------
Call(t) == \/ \E cnt \in 1..MaxCnt : CallPalloc(t, cnt)
           \/ \E a \in held : CallPfree(t, a)

Step(t) == \/ AcquireCheck(t) \/ Spin(t)
           \/ FindBit(t) \/ CountBit(t) \/ LoadWord(t) \/ StoreWord(t)
           \/ PallocRelease(t) \/ PfreeRelease(t)

Next == \E t \in Thread : Call(t) \/ Step(t)

Spec == Init /\ [][Next]_vars

(* Every thread inside the allocator is given the CPU again and again: it   *)
(* is running or in the ready list, and schedule takes the list in order.   *)
FairSpec == Spec /\ \A t \in Thread : WF_vars(Step(t))

-----------------------------------------------------------------------------
(* spin_lock_acquire and spin_lock_release: one thread at a time searches,  *)
(* counts or sets bits, and the lock is taken exactly while one does.       *)
MutualExclusion ==
    /\ \A t, u \in Thread : InSection(t) /\ InSection(u) => t = u
    /\ val = 1 <=> \E t \in Thread : InSection(t)

(* No page belongs to two callers, or to one caller while another still     *)
(* clears its bit: true as long as no stale word has been stored.           *)
NoOverlap ==
    ~stale =>
        /\ \A a, b \in held : a # b => Pages(a) \cap Pages(b) = {}
        /\ \A t \in Thread : \A a \in held :
             Pages(a) \cap (Taking(t) \cup Giving(t)) = {}
        /\ \A t, u \in Thread : t # u =>
             (Taking(t) \cup Giving(t)) \cap (Taking(u) \cup Giving(u)) = {}

(* The bits that are 1 are those of the map's own pages, of what is held or *)
(* being given back, of what is being taken as far as it is set, and of     *)
(* pages that cannot be freed: no other page is ever out of use.            *)
Marked(t) == {p \in Taking(t) : pc[t] = "release" \/ p < loc[t].i}

MapAccounts ==
    ~stale =>
        map = Run(0, Reserved) \cup lost
              \cup (UNION {Pages(a) : a \in held})
              \cup (UNION {Marked(t) \cup Giving(t) : t \in Thread})

(* palloc_mult fails only if no cnt consecutive pages were free, even       *)
(* though other threads free pages during the search.                       *)
NullMeansFull ==
    ~stale => \A t \in Thread :
        pc[t] = "release" /\ loc[t].op = "palloc" /\ ~Found(t) =>
            ~\E idx \in 0..(NumPages - loc[t].cnt) : Run(idx, loc[t].cnt) \subseteq loc[t].free

(* Whoever has the lock gives it back, also if the search fails or the      *)
(* pages cannot be freed.                                                   *)
LockIsReleased == (val = 1) ~> (val = 0)
=============================================================================
