---------------------------- MODULE PallocProofs ----------------------------
(***************************************************************************)
(* The spin lock of the page allocator protects its critical section, for  *)
(* any number of threads, pages and words.                                 *)
(*                                                                         *)
(* MutualExclusion is not inductive: a thread that has found its pages     *)
(* goes on to set their bits, and is then in the critical section only if  *)
(* its call is a palloc_mult.  LockInv adds that only palloc_mult searches *)
(* and gives the locals their shape, without bounds on the numbers.        *)
(***************************************************************************)
EXTENDS Palloc, TLAPS

Shape == [op : {"palloc", "pfree"}, cnt : Nat, idx : Nat, i : Nat, n : Nat,
          reg : SUBSET Page, free : SUBSET Page]
Label == {"out", "check", "spin", "find", "count", "load", "store", "release"}

LocalsOK ==
    /\ pc \in [Thread -> Label]
    /\ loc \in [Thread -> Shape]
    /\ held \in SUBSET [idx : Nat, cnt : Nat]

OnlyPallocSearches == \A t \in Thread : pc[t] = "find" => loc[t].op = "palloc"

LockInv ==
    /\ val \in {0, 1}
    /\ LocalsOK
    /\ OnlyPallocSearches
    /\ MutualExclusion

-----------------------------------------------------------------------------
(* Idle, the locals of a thread outside the allocator, has the shape of     *)
(* locals.                                                                  *)
LEMMA IdleShape == Idle \in Shape
BY DEF Idle, Shape

(* What the loops of the bitmap assign to the locals x of a call: the shape *)
(* and the kind of the call stay.                                           *)
LEMMA Assignments ==
    ASSUME NEW x \in Shape, NEW k \in Nat, NEW w \in SUBSET Page
    PROVE  LET a == [x EXCEPT !.i = x.i + 1, !.n = k]
               b == [x EXCEPT !.i = x.i + 1, !.n = k, !.idx = x.i + 1]
               c == [x EXCEPT !.i = x.i + 1, !.reg = w]
           IN  /\ a \in Shape /\ a.op = x.op
               /\ b \in Shape /\ b.op = x.op
               /\ c \in Shape /\ c.op = x.op
<1>1. x = [op |-> x.op, cnt |-> x.cnt, idx |-> x.idx, i |-> x.i, n |-> x.n,
           reg |-> x.reg, free |-> x.free]
  BY DEF Shape
<1>2. x.op \in {"palloc", "pfree"} /\ x.cnt \in Nat /\ x.idx \in Nat /\ x.i \in Nat
      /\ x.n \in Nat /\ x.reg \in SUBSET Page /\ x.free \in SUBSET Page
  BY DEF Shape
<1>3. x.i + 1 \in Nat
  BY <1>2
<1> QED BY <1>1, <1>2, <1>3 DEF Shape

(* A step of thread t keeps LockInv if it leaves the others alone and takes *)
(* the lock when it enters the critical section, gives it back when it      *)
(* leaves it, and neither otherwise.                                        *)
LEMMA OneMoves ==
    ASSUME NEW t \in Thread, LockInv, LocalsOK',
           \A u \in Thread \ {t} : pc'[u] = pc[u] /\ loc'[u].op = loc[u].op,
           pc'[t] = "find" => loc'[t].op = "palloc",
           \/ val' = val /\ (InSection(t)' <=> InSection(t))
           \/ val = 0 /\ val' = 1 /\ InSection(t)'
           \/ InSection(t) /\ val' = 0 /\ ~InSection(t)'
    PROVE  LockInv'
<1>1. \A u \in Thread \ {t} : InSection(u)' <=> InSection(u)
  BY DEF InSection, Setting
<1>2. OnlyPallocSearches'
  BY DEF LockInv, OnlyPallocSearches
<1>3. val' \in {0, 1}
  BY DEF LockInv
<1>4. MutualExclusion'
  <2>1. CASE val' = val /\ (InSection(t)' <=> InSection(t))
    <3>1. \A u \in Thread : InSection(u)' <=> InSection(u)
      BY <1>1, <2>1
    <3> QED BY <3>1, <2>1 DEF LockInv, MutualExclusion
  <2>2. CASE val = 0 /\ val' = 1 /\ InSection(t)'
    <3>1. \A u \in Thread : ~InSection(u)
      BY <2>2 DEF LockInv, MutualExclusion
    <3> QED BY <3>1, <2>2, <1>1 DEF MutualExclusion
  <2>3. CASE InSection(t) /\ val' = 0 /\ ~InSection(t)'
    <3>1. \A u \in Thread : ~InSection(u)'
      BY <2>3, <1>1 DEF LockInv, MutualExclusion
    <3> QED BY <3>1, <2>3 DEF MutualExclusion
  <2> QED BY <2>1, <2>2, <2>3
<1> QED BY <1>2, <1>3, <1>4 DEF LockInv

-----------------------------------------------------------------------------
LEMMA CallPallocKeeps ==
    ASSUME NEW t \in Thread, NEW cnt \in 1..MaxCnt, LockInv, CallPalloc(t, cnt), MaxCnt \in Nat
    PROVE  LockInv'
<1>1. [Idle EXCEPT !.cnt = cnt] \in Shape /\ [Idle EXCEPT !.cnt = cnt].op = "palloc"
  BY IdleShape DEF Idle, Shape
<1>2. /\ pc' = [pc EXCEPT ![t] = "check"] /\ pc[t] = "out"
      /\ loc' = [loc EXCEPT ![t] = [Idle EXCEPT !.cnt = cnt]]
      /\ val' = val /\ held' = held
  BY DEF CallPalloc, Goto
<1>3. LocalsOK'
  BY <1>1, <1>2 DEF LockInv, LocalsOK, Label
<1>4. ~InSection(t) /\ ~InSection(t)'
  BY <1>2 DEF InSection, Setting, LockInv, LocalsOK
<1> QED BY <1>2, <1>3, <1>4, OneMoves DEF LockInv, LocalsOK

LEMMA CallPfreeKeeps ==
    ASSUME NEW t \in Thread, NEW a \in held, LockInv, CallPfree(t, a)
    PROVE  LockInv'
<1> DEFINE new == [Idle EXCEPT !.op = "pfree", !.cnt = a.cnt, !.idx = a.idx]
<1>1. new \in Shape
  BY IdleShape DEF Idle, Shape, LockInv, LocalsOK
<1>2. /\ pc' = [pc EXCEPT ![t] = "check"] /\ pc[t] = "out"
      /\ loc' = [loc EXCEPT ![t] = new]
      /\ val' = val /\ held' = held \ {a}
  BY DEF CallPfree, Goto
<1> HIDE DEF new
<1>3. LocalsOK'
  BY <1>1, <1>2 DEF LockInv, LocalsOK, Label
<1>4. ~InSection(t) /\ ~InSection(t)'
  BY <1>2 DEF InSection, Setting, LockInv, LocalsOK
<1> QED BY <1>2, <1>3, <1>4, OneMoves DEF LockInv, LocalsOK

LEMMA AcquireCheckKeeps ==
    ASSUME NEW t \in Thread, LockInv, AcquireCheck(t)
    PROVE  LockInv'
<1>1. /\ pc[t] = "check" /\ pc' = [pc EXCEPT ![t] = "spin"]
      /\ loc' = loc /\ val' = val /\ held' = held
  BY DEF AcquireCheck, Goto, LockInv
<1>2. LocalsOK'
  BY <1>1 DEF LockInv, LocalsOK, Label
<1>3. ~InSection(t) /\ ~InSection(t)'
  BY <1>1 DEF InSection, Setting, LockInv, LocalsOK
<1> QED BY <1>1, <1>2, <1>3, OneMoves DEF LockInv, LocalsOK

LEMMA SpinKeeps ==
    ASSUME NEW t \in Thread, LockInv, Spin(t)
    PROVE  LockInv'
<1>1. val = 0 /\ val' = 1 /\ held' = held
  BY DEF Spin, Acquires, LockInv
<1>2. CASE loc[t].op = "palloc"
  <2>1. pc' = [pc EXCEPT ![t] = "find"]
        /\ loc' = [loc EXCEPT ![t] = [loc[t] EXCEPT !.free = Page \ map]]
    BY <1>2 DEF Spin, Goto
  <2>2. [loc[t] EXCEPT !.free = Page \ map] \in Shape
        /\ [loc[t] EXCEPT !.free = Page \ map].op = "palloc"
    BY <1>2 DEF LockInv, LocalsOK, Shape
  <2>3. LocalsOK'
    BY <1>1, <2>1, <2>2 DEF LockInv, LocalsOK, Label
  <2>4. InSection(t)'
    BY <2>1 DEF InSection, LockInv, LocalsOK
  <2> QED BY <1>1, <2>1, <2>2, <2>3, <2>4, OneMoves DEF LockInv, LocalsOK
<1>3. CASE loc[t].op # "palloc"
  <2>1. pc' = [pc EXCEPT ![t] = "count"]
        /\ loc' = [loc EXCEPT ![t] = [loc[t] EXCEPT !.i = loc[t].idx]]
    BY <1>3 DEF Spin, Goto
  <2>2. [loc[t] EXCEPT !.i = loc[t].idx] \in Shape
    BY DEF LockInv, LocalsOK, Shape
  <2>3. LocalsOK'
    BY <1>1, <2>1, <2>2 DEF LockInv, LocalsOK, Label
  <2>4. InSection(t)'
    BY <2>1 DEF InSection, LockInv, LocalsOK
  <2> QED BY <1>1, <2>1, <2>2, <2>3, <2>4, OneMoves DEF LockInv, LocalsOK
<1> QED BY <1>2, <1>3

LEMMA PallocReleaseKeeps ==
    ASSUME NEW t \in Thread, LockInv, PallocRelease(t)
    PROVE  LockInv'
<1>1. /\ pc[t] = "release" /\ pc' = [pc EXCEPT ![t] = "out"]
      /\ loc' = [loc EXCEPT ![t] = Idle] /\ val' = val - 1
  BY DEF PallocRelease, Return, Goto, Released
<1>2. InSection(t) /\ ~InSection(t)'
  BY <1>1 DEF InSection, Setting, LockInv, LocalsOK
<1>3. val' = 0
  BY <1>1, <1>2 DEF LockInv, MutualExclusion
<1>4. held' \in SUBSET [idx : Nat, cnt : Nat]
  <2>1. [idx |-> loc[t].idx, cnt |-> loc[t].cnt] \in [idx : Nat, cnt : Nat]
    BY DEF LockInv, LocalsOK, Shape
  <2> QED BY <2>1 DEF PallocRelease, LockInv, LocalsOK
<1>5. LocalsOK'
  BY <1>1, <1>4, IdleShape DEF LockInv, LocalsOK, Label
<1> QED BY <1>1, <1>2, <1>3, <1>5, OneMoves DEF LockInv, LocalsOK

LEMMA PfreeReleaseKeeps ==
    ASSUME NEW t \in Thread, LockInv, PfreeRelease(t)
    PROVE  LockInv'
<1>1. pc[t] = "release" /\ loc[t].op = "pfree" /\ val' = val - 1 /\ held' = held
  BY DEF PfreeRelease, Released
<1>2. InSection(t)
  BY <1>1 DEF InSection
<1>3. val' = 0
  BY <1>1, <1>2 DEF LockInv, MutualExclusion
<1>4. CASE /\ pc' = [pc EXCEPT ![t] = "load"]
           /\ loc' = [loc EXCEPT ![t] = [loc[t] EXCEPT !.i = loc[t].idx]]
  <2>1. [loc[t] EXCEPT !.i = loc[t].idx] \in Shape
        /\ [loc[t] EXCEPT !.i = loc[t].idx].op = "pfree"
    BY <1>1 DEF LockInv, LocalsOK, Shape
  <2>2. LocalsOK'
    BY <1>1, <1>4, <2>1 DEF LockInv, LocalsOK, Label
  <2>3. ~InSection(t)'
    BY <1>4, <2>1 DEF InSection, Setting, LockInv, LocalsOK
  <2> QED BY <1>2, <1>3, <1>4, <2>2, <2>3, OneMoves DEF LockInv, LocalsOK
<1>5. CASE pc' = [pc EXCEPT ![t] = "out"] /\ loc' = [loc EXCEPT ![t] = Idle]
  <2>1. LocalsOK'
    BY <1>1, <1>5, IdleShape DEF LockInv, LocalsOK, Label
  <2>2. ~InSection(t)'
    BY <1>5 DEF InSection, Setting, LockInv, LocalsOK
  <2> QED BY <1>2, <1>3, <1>5, <2>1, <2>2, OneMoves DEF LockInv, LocalsOK
<1> QED BY <1>4, <1>5 DEF PfreeRelease, Return, Goto

(* NextRun, a step of the search, keeps the shape and the kind of the call. *)
LEMMA NextRunShape ==
    ASSUME NEW t \in Thread, LockInv
    PROVE  NextRun(t, loc[t].i) \in Shape /\ NextRun(t, loc[t].i).op = loc[t].op
<1>1. loc[t] \in Shape /\ loc[t].n \in Nat /\ loc[t].n + 1 \in Nat
  BY DEF LockInv, LocalsOK, Shape
<1>2. CASE loc[t].i \in map
  BY <1>1, <1>2, Assignments DEF NextRun
<1>3. CASE loc[t].i \notin map
  BY <1>1, <1>3, Assignments DEF NextRun
<1> QED BY <1>2, <1>3

LEMMA FindBitKeeps ==
    ASSUME NEW t \in Thread, LockInv, FindBit(t), NumPages \in Nat
    PROVE  LockInv'
<1> DEFINE new == NextRun(t, loc[t].i)
<1>1. new \in Shape /\ new.op = "palloc"
  BY NextRunShape DEF FindBit, LockInv, OnlyPallocSearches
<1>2. pc[t] = "find" /\ val' = val /\ held' = held
  BY DEF FindBit
<1>3. \E l \in {"load", "release", "find"}, x \in Shape :
        x.op = "palloc" /\ pc' = [pc EXCEPT ![t] = l] /\ loc' = [loc EXCEPT ![t] = x]
  <2>1. [new EXCEPT !.i = new.idx, !.free = {}] \in Shape
        /\ [new EXCEPT !.i = new.idx, !.free = {}].op = "palloc"
    <3> HIDE DEF new
    <3> QED BY <1>1 DEF Shape
  <2>2. [new EXCEPT !.idx = NumPages + 1] \in Shape
        /\ [new EXCEPT !.idx = NumPages + 1].op = "palloc"
    <3> HIDE DEF new
    <3> QED BY <1>1 DEF Shape
  <2>3. pc = [pc EXCEPT ![t] = "find"]
    BY <1>2 DEF LockInv, LocalsOK
  <2>4. \/ /\ pc' = [pc EXCEPT ![t] = "load"]
           /\ loc' = [loc EXCEPT ![t] = [new EXCEPT !.i = new.idx, !.free = {}]]
        \/ /\ pc' = [pc EXCEPT ![t] = "release"]
           /\ loc' = [loc EXCEPT ![t] = [new EXCEPT !.idx = NumPages + 1]]
        \/ pc' = pc /\ loc' = [loc EXCEPT ![t] = new]
    BY DEF FindBit, Goto
  <2> HIDE DEF new
  <2> QED BY <1>1, <2>1, <2>2, <2>3, <2>4
<1>4. LocalsOK'
  BY <1>2, <1>3 DEF LockInv, LocalsOK, Label
<1>5. InSection(t) /\ InSection(t)'
  BY <1>2, <1>3 DEF InSection, Setting, LockInv, LocalsOK
<1> QED BY <1>2, <1>3, <1>4, <1>5, OneMoves DEF LockInv, LocalsOK

LEMMA CountBitKeeps ==
    ASSUME NEW t \in Thread, LockInv, CountBit(t)
    PROVE  LockInv'
<1> DEFINE k == IF loc[t].i \in map THEN loc[t].n + 1 ELSE loc[t].n
           new == [loc[t] EXCEPT !.i = loc[t].i + 1, !.n = k]
<1>1. new \in Shape
  <2>1. loc[t] \in Shape /\ k \in Nat
    BY DEF LockInv, LocalsOK, Shape
  <2> HIDE DEF k
  <2> QED BY <2>1, Assignments
<1>2. pc[t] = "count" /\ val' = val /\ held' = held
  BY DEF CountBit
<1>3. loc' = [loc EXCEPT ![t] = new]
  BY DEF CountBit, LockInv, LocalsOK, Shape
<1>4. pc' = [pc EXCEPT ![t] = "count"] \/ pc' = [pc EXCEPT ![t] = "release"]
  BY DEF CountBit, Goto, LockInv, LocalsOK
<1> HIDE DEF new
<1>5. LocalsOK'
  BY <1>1, <1>2, <1>3, <1>4 DEF LockInv, LocalsOK, Label
<1>6. InSection(t) /\ InSection(t)'
  BY <1>2, <1>4 DEF InSection, LockInv, LocalsOK
<1> QED BY <1>2, <1>3, <1>4, <1>5, <1>6, OneMoves DEF LockInv, LocalsOK

LEMMA LoadWordKeeps ==
    ASSUME NEW t \in Thread, LockInv, LoadWord(t)
    PROVE  LockInv'
<1> DEFINE new == [loc[t] EXCEPT !.reg = map \cap Word(loc[t].i)]
<1>1. new \in Shape /\ new.op = loc[t].op
  BY DEF LockInv, LocalsOK, Shape, Word
<1>2. /\ pc[t] = "load" /\ val' = val /\ held' = held
      /\ pc' = [pc EXCEPT ![t] = "store"] /\ loc' = [loc EXCEPT ![t] = new]
  BY DEF LoadWord, Goto
<1> HIDE DEF new
<1>3. LocalsOK'
  BY <1>1, <1>2 DEF LockInv, LocalsOK, Label
<1>4. InSection(t)' <=> InSection(t)
  BY <1>1, <1>2 DEF InSection, Setting, LockInv, LocalsOK
<1> QED BY <1>2, <1>3, <1>4, OneMoves DEF LockInv, LocalsOK

LEMMA StoreWordKeeps ==
    ASSUME NEW t \in Thread, LockInv, StoreWord(t)
    PROVE  LockInv'
<1>1. pc[t] = "store" /\ val' = val /\ held' = held
  BY DEF StoreWord
<1>2. CASE /\ loc[t].op = "pfree"
           /\ pc' = [pc EXCEPT ![t] = "out"] /\ loc' = [loc EXCEPT ![t] = Idle]
  <2>1. LocalsOK'
    BY <1>1, <1>2, IdleShape DEF LockInv, LocalsOK, Label
  <2>2. ~InSection(t) /\ ~InSection(t)'
    BY <1>1, <1>2 DEF InSection, Setting, LockInv, LocalsOK
  <2> QED BY <1>1, <1>2, <2>1, <2>2, OneMoves DEF LockInv, LocalsOK
<1>3. CASE /\ loc[t].op = "palloc" /\ pc' = [pc EXCEPT ![t] = "release"]
           /\ loc' = [loc EXCEPT ![t] = [loc[t] EXCEPT !.reg = {}]]
  <2>1. [loc[t] EXCEPT !.reg = {}] \in Shape
    BY DEF LockInv, LocalsOK, Shape
  <2>2. LocalsOK'
    BY <1>1, <1>3, <2>1 DEF LockInv, LocalsOK, Label
  <2>3. InSection(t) /\ InSection(t)'
    BY <1>1, <1>3 DEF InSection, Setting, LockInv, LocalsOK
  <2> QED BY <1>1, <1>3, <2>2, <2>3, OneMoves DEF LockInv, LocalsOK
<1>4. CASE /\ pc' = [pc EXCEPT ![t] = "load"]
           /\ loc' = [loc EXCEPT ![t] = [loc[t] EXCEPT !.i = loc[t].i + 1, !.reg = {}]]
  <2> DEFINE new == [loc[t] EXCEPT !.i = loc[t].i + 1, !.reg = {}]
  <2>1. new \in Shape /\ new.op = loc[t].op
    <3>1. loc[t] \in Shape
      BY DEF LockInv, LocalsOK
    <3> QED BY <3>1, Assignments
  <2>2. loc' = [loc EXCEPT ![t] = new]
    BY <1>4
  <2> HIDE DEF new
  <2>3. LocalsOK'
    BY <1>1, <1>4, <2>1, <2>2 DEF LockInv, LocalsOK, Label
  <2>4. InSection(t)' <=> InSection(t)
    BY <1>1, <1>4, <2>1, <2>2 DEF InSection, Setting, LockInv, LocalsOK
  <2> QED BY <1>1, <1>4, <2>2, <2>3, <2>4, OneMoves DEF LockInv, LocalsOK
<1> QED BY <1>1, <1>2, <1>3, <1>4 DEF StoreWord, Return, Goto, LockInv, LocalsOK, Shape

-----------------------------------------------------------------------------
LEMMA InitLock == Init => LockInv
<1> SUFFICES ASSUME Init PROVE LockInv
  OBVIOUS
<1>1. LocalsOK
  BY IdleShape DEF Init, LocalsOK, Label
<1>2. \A t \in Thread : pc[t] = "out"
  BY DEF Init
<1>3. \A t \in Thread : ~InSection(t)
  BY <1>2 DEF InSection, Setting
<1>4. val = 0
  BY DEF Init
<1> QED BY <1>1, <1>2, <1>3, <1>4 DEF LockInv, OnlyPallocSearches, MutualExclusion

LEMMA NextKeepsLock == LockInv /\ [Next]_vars => LockInv'
<1> SUFFICES ASSUME LockInv, [Next]_vars PROVE LockInv'
  OBVIOUS
<1>1. CASE UNCHANGED vars
  BY <1>1 DEF vars, LockInv, LocalsOK, OnlyPallocSearches, MutualExclusion, InSection, Setting
<1>2. ASSUME NEW t \in Thread, Call(t) PROVE LockInv'
  BY <1>2, PallocAssumption, CallPallocKeeps, CallPfreeKeeps DEF Call
<1>3. ASSUME NEW t \in Thread, Step(t) PROVE LockInv'
  BY <1>3, PallocAssumption, AcquireCheckKeeps, SpinKeeps, FindBitKeeps, CountBitKeeps,
     LoadWordKeeps, StoreWordKeeps, PallocReleaseKeeps, PfreeReleaseKeeps DEF Step
<1> QED BY <1>1, <1>2, <1>3 DEF Next

(* spin_lock_acquire and spin_lock_release around the body of palloc_mult   *)
(* and the test of pfree_mult: one thread at a time is between them, and    *)
(* the lock is taken exactly while one is.                                  *)
THEOREM LockProtects == Spec => []MutualExclusion
<1>1. LockInv => MutualExclusion
  BY DEF LockInv
<1> QED BY <1>1, InitLock, NextKeepsLock, PTL DEF Spec

-----------------------------------------------------------------------------
(***************************************************************************)
(* What the page allocator hands out, for any number of threads, pages and *)
(* words: no page to two callers (NoOverlap), no page out of use without a *)
(* reason (MapAccounts), and no failure while there is room                *)
(* (NullMeansFull).  All three hold as long as no stale word of the bitmap *)
(* has been stored.                                                        *)
(*                                                                         *)
(* None is inductive alone.  PageInv adds to the lock's LockInv the bounds *)
(* of the locals at every label (InBounds), what the search knows about    *)
(* the bits it has passed (Searching), and that the pages nobody can free  *)
(* belong to no caller (LostApart).  A search needs the lock only against  *)
(* other searches: pfree_mult clears bits meanwhile, which makes the map   *)
(* smaller and keeps everything Searching says.                            *)
(***************************************************************************)
CallInBounds(t) ==
    LET x == loc[t] IN
    /\ pc[t] # "out" => x.cnt >= 1
    /\ pc[t] # "out" /\ x.op = "pfree" => x.idx + x.cnt <= NumPages
    /\ pc[t] \in {"check", "spin"} /\ x.op = "palloc" => x.idx = 0 /\ x.i = 0 /\ x.n = 0
    /\ pc[t] = "find" => x.idx + x.n = x.i /\ x.n < x.cnt /\ x.i < NumPages
    /\ pc[t] = "count" => x.op = "pfree"
    /\ pc[t] \in {"load", "store"} =>
         x.idx <= x.i /\ x.i < x.idx + x.cnt /\ x.idx + x.cnt <= NumPages
    /\ pc[t] = "release" /\ x.op = "palloc" /\ Found(t) => x.idx + x.cnt <= NumPages

InBounds ==
    /\ map \subseteq Page /\ lost \subseteq Page
    /\ \A a \in held : a.cnt >= 1 /\ a.idx + a.cnt <= NumPages
    /\ \A t \in Thread : CallInBounds(t)

(* The n bits before i are 0; no bit that was 1 at the start has become 1   *)
(* since; the run could not begin earlier; and no run of cnt pages that     *)
(* were free at the start ends before i.                                    *)
SearchKnows(x) ==
    /\ Run(x.idx, x.n) \cap map = {}
    /\ x.free \cap map = {}
    /\ x.idx > 0 => x.idx - 1 \notin x.free
    /\ \A s \in Nat : s + x.cnt <= x.i => ~(Run(s, x.cnt) \subseteq x.free)

Searching == \A t \in Thread : pc[t] = "find" => SearchKnows(loc[t])

(* The map's own pages and the lost ones are nobody's.                      *)
LostApart ==
    /\ \A a \in held : Pages(a) \cap (Run(0, Reserved) \cup lost) = {}
    /\ \A t \in Thread : (Taking(t) \cup Giving(t)) \cap (Run(0, Reserved) \cup lost) = {}

PageInv ==
    /\ InBounds
    /\ ~stale => Searching /\ LostApart
    /\ NoOverlap /\ MapAccounts /\ NullMeansFull

-----------------------------------------------------------------------------
(* What a thread owns and where it is depends on its own locals only.       *)
LEMMA OthersKeep ==
    ASSUME NEW u \in Thread, pc'[u] = pc[u], loc'[u] = loc[u]
    PROVE  /\ CallInBounds(u)' <=> CallInBounds(u)
           /\ Taking(u)' = Taking(u) /\ Giving(u)' = Giving(u) /\ Marked(u)' = Marked(u)
<1>1. Setting(u)' <=> Setting(u)
  BY DEF Setting
<1>2. Clearing(u)' <=> Clearing(u)
  BY DEF Clearing
<1>3. Found(u)' <=> Found(u)
  BY DEF Found
<1>4. Taking(u)' = Taking(u)
  BY <1>1, <1>3 DEF Taking
<1>5. Giving(u)' = Giving(u)
  BY <1>2 DEF Giving
<1>6. Marked(u)' = Marked(u)
  BY <1>4 DEF Marked
<1>7. CallInBounds(u)' <=> CallInBounds(u)
  BY <1>3 DEF CallInBounds
<1> QED BY <1>4, <1>5, <1>6, <1>7

(* MapAccounts, page by page.                                               *)
Accounted(p) ==
    \/ p \in Run(0, Reserved) \/ p \in lost
    \/ \E a \in held : p \in Pages(a)
    \/ \E t \in Thread : p \in Marked(t) \/ p \in Giving(t)

LEMMA PageByPage ==
    /\ MapAccounts <=> (~stale => \A p : p \in map <=> Accounted(p))
    /\ MapAccounts' <=> (~stale' => \A p : p \in map' <=> Accounted(p)')
<1>1. MapAccounts <=> (~stale => \A p : p \in map <=> Accounted(p))
  BY DEF MapAccounts, Accounted
<1>2. MapAccounts' <=> (~stale' => \A p : p \in map' <=> Accounted(p)')
  BY DEF MapAccounts, Accounted
<1> QED BY <1>1, <1>2

Ownership == NoOverlap /\ MapAccounts /\ LostApart

(* The steps of a thread t that leave all pages where they are.             *)
LEMMA PagesStay ==
    ASSUME NEW t \in Thread, Ownership, ~stale, ~stale',
           \A u \in Thread : Taking(u)' = Taking(u) /\ Giving(u)' = Giving(u)
                             /\ Marked(u)' = Marked(u),
           map' = map, held' = held, lost' = lost
    PROVE  Ownership'
<1>1. NoOverlap'
  BY DEF Ownership, NoOverlap
<1>2. LostApart'
  BY DEF Ownership, LostApart
<1>3. MapAccounts'
  BY PageByPage DEF Ownership, Accounted
<1> QED BY <1>1, <1>2, <1>3 DEF Ownership

(* bitmap_find_range has found the pages s, all unmarked.                   *)
LEMMA PagesFound ==
    ASSUME NEW t \in Thread, Ownership, ~stale, ~stale',
           \A u \in Thread \ {t} : Taking(u)' = Taking(u) /\ Giving(u)' = Giving(u)
                                   /\ Marked(u)' = Marked(u) /\ Taking(u) = {},
           Giving(t) = {}, Marked(t) = {},
           Taking(t)' \cap map = {}, Giving(t)' = {}, Marked(t)' = {},
           map' = map, held' = held, lost' = lost
    PROVE  Ownership'
<1>1. \A p \in Taking(t)' : ~Accounted(p)
  BY PageByPage DEF Ownership
<1>2. NoOverlap'
  BY <1>1 DEF Ownership, NoOverlap, Accounted
<1>3. LostApart'
  BY <1>1 DEF Ownership, LostApart, Accounted
<1>4. MapAccounts'
  BY PageByPage DEF Ownership, Accounted
<1> QED BY <1>2, <1>3, <1>4 DEF Ownership

(* bitmap_set marks the page i.                                             *)
LEMMA PageMarked ==
    ASSUME NEW t \in Thread, NEW i, Ownership, ~stale, ~stale',
           \A u \in Thread \ {t} : Taking(u)' = Taking(u) /\ Giving(u)' = Giving(u)
                                   /\ Marked(u)' = Marked(u),
           Taking(t)' = Taking(t), Giving(t)' = Giving(t), Marked(t)' = Marked(t) \cup {i},
           map' = map \cup {i}, held' = held, lost' = lost
    PROVE  Ownership'
<1>1. NoOverlap'
  BY DEF Ownership, NoOverlap
<1>2. LostApart'
  BY DEF Ownership, LostApart
<1>3. MapAccounts'
  BY PageByPage DEF Ownership, Accounted
<1> QED BY <1>1, <1>2, <1>3 DEF Ownership

(* palloc_mult returns the allocation a.                                    *)
LEMMA PagesTaken ==
    ASSUME NEW t \in Thread, NEW a, Ownership, ~stale, ~stale',
           \A u \in Thread \ {t} : Taking(u)' = Taking(u) /\ Giving(u)' = Giving(u)
                                   /\ Marked(u)' = Marked(u),
           Pages(a) = Taking(t), Marked(t) = Taking(t), Giving(t) = {},
           Taking(t)' = {}, Giving(t)' = {}, Marked(t)' = {},
           map' = map, held' = held \cup {a}, lost' = lost
    PROVE  Ownership'
<1>1. NoOverlap'
  BY DEF Ownership, NoOverlap
<1>2. LostApart'
  BY DEF Ownership, LostApart
<1>3. MapAccounts'
  BY PageByPage DEF Ownership, Accounted
<1> QED BY <1>1, <1>2, <1>3 DEF Ownership

(* pfree_mult is called with the allocation a.                              *)
LEMMA PagesGiven ==
    ASSUME NEW t \in Thread, NEW a \in held, Ownership, ~stale, ~stale',
           \A u \in Thread \ {t} : Taking(u)' = Taking(u) /\ Giving(u)' = Giving(u)
                                   /\ Marked(u)' = Marked(u),
           Taking(t) = {}, Marked(t) = {}, Giving(t) = {},
           Taking(t)' = {}, Giving(t)' = Pages(a), Marked(t)' = {},
           map' = map, held' = held \ {a}, lost' = lost
    PROVE  Ownership'
<1>1. NoOverlap'
  BY DEF Ownership, NoOverlap
<1>2. LostApart'
  BY DEF Ownership, LostApart
<1>3. MapAccounts'
  BY PageByPage DEF Ownership, Accounted
<1> QED BY <1>1, <1>2, <1>3 DEF Ownership

(* bitmap_set clears the bit of page i, which its owner gave back.          *)
LEMMA PageCleared ==
    ASSUME NEW t \in Thread, NEW i \in Giving(t), Ownership, ~stale, ~stale',
           \A u \in Thread : Marked(u) \subseteq Taking(u),
           \A u \in Thread \ {t} : Taking(u)' = Taking(u) /\ Giving(u)' = Giving(u)
                                   /\ Marked(u)' = Marked(u),
           Taking(t) = {}, Taking(t)' = {}, Marked(t)' = {}, Giving(t)' = Giving(t) \ {i},
           map' = map \ {i}, held' = held, lost' = lost
    PROVE  Ownership'
<1>1. NoOverlap'
  BY DEF Ownership, NoOverlap
<1>2. LostApart'
  BY DEF Ownership, LostApart
<1>3. MapAccounts'
  <2>1. \A a \in held : i \notin Pages(a)
    BY DEF Ownership, NoOverlap
  <2>2. i \notin Run(0, Reserved) /\ i \notin lost
    BY DEF Ownership, LostApart
  <2>3. \A u \in Thread \ {t} : i \notin Marked(u) /\ i \notin Giving(u)
    BY DEF Ownership, NoOverlap
  <2> QED BY <2>1, <2>2, <2>3, PageByPage DEF Ownership, Accounted
<1> QED BY <1>1, <1>2, <1>3 DEF Ownership

(* pfree_mult returns without clearing anything.                            *)
LEMMA PagesLost ==
    ASSUME NEW t \in Thread, Ownership, ~stale, ~stale',
           \A u \in Thread \ {t} : Taking(u)' = Taking(u) /\ Giving(u)' = Giving(u)
                                   /\ Marked(u)' = Marked(u),
           Taking(t) = {}, Marked(t) = {},
           Taking(t)' = {}, Giving(t)' = {}, Marked(t)' = {},
           map' = map, held' = held, lost' = lost \cup Giving(t)
    PROVE  Ownership'
<1>1. NoOverlap'
  BY DEF Ownership, NoOverlap
<1>2. LostApart'
  BY DEF Ownership, NoOverlap, LostApart
<1>3. MapAccounts'
  BY PageByPage DEF Ownership, Accounted
<1> QED BY <1>1, <1>2, <1>3 DEF Ownership

-----------------------------------------------------------------------------
FailureIsFull(t) ==
    pc[t] = "release" /\ loc[t].op = "palloc" /\ ~Found(t) =>
        ~\E idx \in 0..(NumPages - loc[t].cnt) : Run(idx, loc[t].cnt) \subseteq loc[t].free

(* A step of t that leaves the others' locals alone and marks no page while *)
(* another thread searches keeps PageInv if it does so for t.               *)
LEMMA OneSteps ==
    ASSUME NEW t \in Thread, PageInv,
           \A u \in Thread \ {t} : pc'[u] = pc[u] /\ loc'[u] = loc[u],
           map' \subseteq Page, lost' \subseteq Page,
           \A a \in held' : a.cnt >= 1 /\ a.idx + a.cnt <= NumPages,
           CallInBounds(t)',
           ~stale' => /\ ~stale /\ Ownership'
                      /\ map' \subseteq map \/ \A u \in Thread \ {t} : pc[u] # "find"
                      /\ pc'[t] = "find" => SearchKnows(loc[t])'
                      /\ FailureIsFull(t)'
    PROVE  PageInv'
<1>1. InBounds'
  <2>1. \A u \in Thread : CallInBounds(u)'
    BY OthersKeep DEF PageInv, InBounds
  <2> QED BY <2>1 DEF InBounds
<1>2. ASSUME ~stale' PROVE Searching'
  <2> SUFFICES ASSUME NEW u \in Thread, pc'[u] = "find" PROVE SearchKnows(loc[u])'
    BY DEF Searching
  <2>1. CASE u = t
    BY <1>2, <2>1
  <2>2. CASE u # t
    <3>1. loc'[u] = loc[u] /\ pc[u] = "find" /\ map' \subseteq map
      BY <1>2, <2>2
    <3>2. SearchKnows(loc[u])
      BY <1>2, <3>1 DEF PageInv, Searching
    <3> QED BY <3>1, <3>2 DEF SearchKnows
  <2> QED BY <2>1, <2>2
<1>3. NullMeansFull'
  <2> SUFFICES ASSUME NEW u \in Thread, ~stale' PROVE FailureIsFull(u)'
    BY DEF NullMeansFull, FailureIsFull
  <2>1. CASE u # t
    BY <2>1 DEF PageInv, NullMeansFull, FailureIsFull, Found
  <2> QED BY <2>1
<1>4. NoOverlap' /\ MapAccounts' /\ (~stale' => LostApart')
  BY DEF Ownership, NoOverlap, MapAccounts
<1> QED BY <1>1, <1>2, <1>3, <1>4 DEF PageInv

(* Nobody else takes pages while a thread is in the critical section.       *)
LEMMA Alone ==
    ASSUME LockInv, NEW t \in Thread, InSection(t), NEW u \in Thread \ {t}
    PROVE  pc[u] # "find" /\ Taking(u) = {}
<1>1. ~InSection(u)
  BY DEF LockInv, MutualExclusion
<1> QED BY <1>1 DEF InSection, Taking

(* A thread that does not free, or does not take, owns no pages so.         *)
LEMMA NotGiving ==
    ASSUME NEW t \in Thread
    PROVE  /\ loc[t].op = "palloc" => Giving(t) = {}
           /\ loc'[t].op = "palloc" => Giving(t)' = {}
           /\ pc[t] = "out" => Giving(t) = {}
           /\ pc'[t] = "out" => Giving(t)' = {}
BY DEF Giving

LEMMA NotTaking ==
    ASSUME NEW t \in Thread
    PROVE  /\ loc[t].op = "pfree" => Taking(t) = {} /\ Marked(t) = {}
           /\ loc'[t].op = "pfree" => Taking(t)' = {} /\ Marked(t)' = {}
           /\ pc[t] \notin {"load", "store", "release"} => Taking(t) = {} /\ Marked(t) = {}
           /\ pc'[t] \notin {"load", "store", "release"} => Taking(t)' = {} /\ Marked(t)' = {}
BY DEF Taking, Marked, Setting

-----------------------------------------------------------------------------
LEMMA CallPallocPages ==
    ASSUME NEW t \in Thread, NEW cnt \in 1..MaxCnt, LockInv, PageInv, CallPalloc(t, cnt)
    PROVE  PageInv'
<1> USE PallocAssumption
<1>1. /\ pc[t] = "out" /\ pc'[t] = "check"
      /\ loc'[t] = [Idle EXCEPT !.cnt = cnt]
      /\ \A u \in Thread \ {t} : pc'[u] = pc[u] /\ loc'[u] = loc[u]
      /\ map' = map /\ held' = held /\ lost' = lost /\ stale' = stale
  BY DEF CallPalloc, Goto, LockInv, LocalsOK
<1>2. loc'[t].op = "palloc" /\ loc'[t].cnt = cnt /\ loc'[t].idx = 0 /\ loc'[t].i = 0 /\ loc'[t].n = 0
  BY <1>1 DEF Idle
<1>3. CallInBounds(t)'
  BY <1>1, <1>2 DEF CallInBounds
<1>4. ASSUME ~stale' PROVE Ownership'
  <2>1. \A u \in Thread : Taking(u)' = Taking(u) /\ Giving(u)' = Giving(u) /\ Marked(u)' = Marked(u)
    BY <1>1, <1>2, OthersKeep, NotGiving, NotTaking
  <2> QED BY <1>1, <1>4, <2>1, PagesStay DEF PageInv, Ownership
<1>5. FailureIsFull(t)'
  BY <1>1 DEF FailureIsFull
<1> QED BY <1>1, <1>3, <1>4, <1>5, OneSteps DEF PageInv, InBounds

LEMMA CallPfreePages ==
    ASSUME NEW t \in Thread, NEW a \in held, LockInv, PageInv, CallPfree(t, a)
    PROVE  PageInv'
<1>1. /\ pc[t] = "out" /\ pc'[t] = "check"
      /\ loc'[t] = [Idle EXCEPT !.op = "pfree", !.cnt = a.cnt, !.idx = a.idx]
      /\ \A u \in Thread \ {t} : pc'[u] = pc[u] /\ loc'[u] = loc[u]
      /\ map' = map /\ held' = held \ {a} /\ lost' = lost /\ stale' = stale
  BY DEF CallPfree, Goto, LockInv, LocalsOK
<1>2. loc'[t].op = "pfree" /\ loc'[t].cnt = a.cnt /\ loc'[t].idx = a.idx
  BY <1>1 DEF Idle
<1>3. CallInBounds(t)'
  BY <1>1, <1>2 DEF CallInBounds, PageInv, InBounds
<1>4. ASSUME ~stale' PROVE Ownership'
  <2>1. \A u \in Thread \ {t} : Taking(u)' = Taking(u) /\ Giving(u)' = Giving(u) /\ Marked(u)' = Marked(u)
    BY <1>1, OthersKeep
  <2>2. Giving(t)' = Pages(a)
    BY <1>1, <1>2 DEF Giving, Clearing, Pages, Run
  <2> QED BY <1>1, <1>2, <1>4, <2>1, <2>2, NotGiving, NotTaking, PagesGiven DEF PageInv, Ownership
<1>5. FailureIsFull(t)'
  BY <1>1 DEF FailureIsFull
<1> QED BY <1>1, <1>3, <1>4, <1>5, OneSteps DEF PageInv, InBounds

LEMMA AcquireCheckPages ==
    ASSUME NEW t \in Thread, LockInv, PageInv, AcquireCheck(t)
    PROVE  PageInv'
<1>1. /\ pc[t] = "check" /\ pc'[t] = "spin" /\ loc' = loc
      /\ \A u \in Thread \ {t} : pc'[u] = pc[u] /\ loc'[u] = loc[u]
      /\ map' = map /\ held' = held /\ lost' = lost /\ stale' = stale
  BY DEF AcquireCheck, Goto, LockInv, LocalsOK
<1>2. CallInBounds(t)'
  BY <1>1 DEF CallInBounds, PageInv, InBounds
<1>3. ASSUME ~stale' PROVE Ownership'
  <2>1. Giving(t)' = Giving(t)
    BY <1>1 DEF Giving, Clearing
  <2>2. \A u \in Thread : Taking(u)' = Taking(u) /\ Giving(u)' = Giving(u) /\ Marked(u)' = Marked(u)
    BY <1>1, <2>1, OthersKeep, NotTaking
  <2> QED BY <1>1, <1>3, <2>2, PagesStay DEF PageInv, Ownership
<1>4. FailureIsFull(t)'
  BY <1>1 DEF FailureIsFull
<1> QED BY <1>1, <1>2, <1>3, <1>4, OneSteps DEF PageInv, InBounds

LEMMA SpinPages ==
    ASSUME NEW t \in Thread, LockInv, PageInv, Spin(t)
    PROVE  PageInv'
<1> USE PallocAssumption
<1>1. /\ pc[t] = "spin" /\ loc[t] \in Shape
      /\ \A u \in Thread \ {t} : pc'[u] = pc[u] /\ loc'[u] = loc[u]
      /\ map' = map /\ held' = held /\ lost' = lost /\ stale' = stale
  BY DEF Spin, Goto, LockInv, LocalsOK
<1>2. \/ /\ loc[t].op = "palloc" /\ pc'[t] = "find"
         /\ loc'[t] = [loc[t] EXCEPT !.free = Page \ map]
      \/ /\ loc[t].op = "pfree" /\ pc'[t] = "count"
         /\ loc'[t] = [loc[t] EXCEPT !.i = loc[t].idx]
  BY <1>1 DEF Spin, Goto, LockInv, LocalsOK, Shape
<1>3. /\ loc'[t].op = loc[t].op /\ loc'[t].cnt = loc[t].cnt /\ loc'[t].idx = loc[t].idx
      /\ loc'[t].n = loc[t].n
      /\ pc'[t] = "find" => loc'[t].i = loc[t].i /\ loc'[t].free = Page \ map
  BY <1>1, <1>2 DEF Shape
<1>4. CallInBounds(t)'
  BY <1>1, <1>2, <1>3 DEF CallInBounds, PageInv, InBounds, Shape
<1>5. ASSUME ~stale' PROVE Ownership'
  <2>1. Giving(t)' = Giving(t)
    BY <1>1, <1>2, <1>3 DEF Giving, Clearing
  <2>2. \A u \in Thread : Taking(u)' = Taking(u) /\ Giving(u)' = Giving(u) /\ Marked(u)' = Marked(u)
    BY <1>1, <1>2, <2>1, OthersKeep, NotTaking
  <2> QED BY <1>1, <1>5, <2>2, PagesStay DEF PageInv, Ownership
<1>6. pc'[t] = "find" => SearchKnows(loc[t])'
  <2> SUFFICES ASSUME pc'[t] = "find" PROVE SearchKnows(loc[t])'
    OBVIOUS
  <2>1. loc'[t].idx = 0 /\ loc'[t].n = 0 /\ loc'[t].i = 0 /\ loc'[t].cnt >= 1
        /\ loc'[t].free = Page \ map /\ loc'[t].cnt \in Nat
    BY <1>1, <1>2, <1>3 DEF PageInv, InBounds, CallInBounds, Shape
  <2> QED BY <1>1, <2>1 DEF SearchKnows, Run, Page
<1>7. FailureIsFull(t)'
  BY <1>1, <1>2 DEF FailureIsFull
<1> QED BY <1>1, <1>4, <1>5, <1>6, <1>7, OneSteps DEF PageInv, InBounds

LEMMA PallocReleasePages ==
    ASSUME NEW t \in Thread, LockInv, PageInv, PallocRelease(t)
    PROVE  PageInv'
<1> USE PallocAssumption
<1> DEFINE a == [idx |-> loc[t].idx, cnt |-> loc[t].cnt]
<1>1. /\ pc[t] = "release" /\ pc'[t] = "out" /\ loc[t].op = "palloc" /\ loc[t] \in Shape
      /\ \A u \in Thread \ {t} : pc'[u] = pc[u] /\ loc'[u] = loc[u]
      /\ map' = map /\ lost' = lost /\ stale' = stale
      /\ held' = IF Found(t) THEN held \cup {a} ELSE held
  BY DEF PallocRelease, Return, Goto, LockInv, LocalsOK
<1>2. CallInBounds(t)'
  BY <1>1 DEF CallInBounds
<1>3. Found(t) => loc[t].cnt >= 1 /\ loc[t].idx + loc[t].cnt <= NumPages
  BY <1>1 DEF PageInv, InBounds, CallInBounds
<1>4. \A b \in held' : b.cnt >= 1 /\ b.idx + b.cnt <= NumPages
  BY <1>1, <1>3 DEF PageInv, InBounds
<1>5. ASSUME ~stale' PROVE Ownership'
  <2>1. \A u \in Thread \ {t} : Taking(u)' = Taking(u) /\ Giving(u)' = Giving(u) /\ Marked(u)' = Marked(u)
    BY <1>1, OthersKeep
  <2>2. CASE Found(t)
    <3>1. Taking(t) = Run(loc[t].idx, loc[t].cnt)
      BY <1>1, <2>2 DEF Taking
    <3>2. Pages(a) = Taking(t)
      BY <3>1 DEF Pages
    <3>3. Marked(t) = Taking(t)
      BY <1>1 DEF Marked
    <3>4. held' = held \cup {a}
      BY <1>1, <2>2
    <3> HIDE DEF a
    <3> QED BY <1>1, <1>5, <2>1, <3>2, <3>3, <3>4, NotGiving, NotTaking, PagesTaken DEF PageInv, Ownership
  <2>3. CASE ~Found(t)
    <3>1. Taking(t) = {} /\ Marked(t) = {}
      BY <1>1, <2>3 DEF Taking, Marked, Setting
    <3> QED BY <1>1, <1>5, <2>1, <2>3, <3>1, NotGiving, NotTaking, PagesStay DEF PageInv, Ownership
  <2> QED BY <2>2, <2>3
<1>6. FailureIsFull(t)'
  BY <1>1 DEF FailureIsFull
<1> QED BY <1>1, <1>2, <1>4, <1>5, <1>6, OneSteps DEF PageInv, InBounds

LEMMA PfreeReleasePages ==
    ASSUME NEW t \in Thread, LockInv, PageInv, PfreeRelease(t)
    PROVE  PageInv'
<1> USE PallocAssumption
<1>1. /\ pc[t] = "release" /\ loc[t].op = "pfree" /\ loc[t] \in Shape
      /\ \A u \in Thread \ {t} : pc'[u] = pc[u] /\ loc'[u] = loc[u]
      /\ map' = map /\ held' = held /\ stale' = stale
  BY DEF PfreeRelease, Return, Goto, LockInv, LocalsOK
<1>2. loc[t].cnt >= 1 /\ loc[t].idx + loc[t].cnt <= NumPages
      /\ loc[t].cnt \in Nat /\ loc[t].idx \in Nat
  BY <1>1 DEF PageInv, InBounds, CallInBounds, Shape
<1>3. Giving(t) = Run(loc[t].idx, loc[t].cnt)
  BY <1>1 DEF Giving, Clearing, Run
<1>4. \A u \in Thread \ {t} : Taking(u)' = Taking(u) /\ Giving(u)' = Giving(u) /\ Marked(u)' = Marked(u)
  BY <1>1, OthersKeep
<1>5. CASE pc'[t] = "load" /\ loc'[t] = [loc[t] EXCEPT !.i = loc[t].idx] /\ lost' = lost
  <2>1. loc'[t].op = "pfree" /\ loc'[t].cnt = loc[t].cnt /\ loc'[t].idx = loc[t].idx
        /\ loc'[t].i = loc[t].idx
    BY <1>1, <1>5 DEF Shape
  <2>2. CallInBounds(t)'
    BY <1>2, <1>5, <2>1 DEF CallInBounds
  <2>3. Giving(t)' = Giving(t)
    BY <1>3, <1>5, <2>1 DEF Giving, Run
  <2>4. ~stale' => Ownership'
    BY <1>1, <1>4, <1>5, <2>1, <2>3, NotTaking, PagesStay DEF PageInv, Ownership
  <2>5. FailureIsFull(t)'
    BY <1>5 DEF FailureIsFull
  <2> QED BY <1>1, <1>5, <2>2, <2>4, <2>5, OneSteps DEF PageInv, InBounds
<1>6. CASE pc'[t] = "out" /\ lost' = lost \cup Run(loc[t].idx, loc[t].cnt)
  <2>1. CallInBounds(t)'
    BY <1>6 DEF CallInBounds
  <2>2. ~stale' => Ownership'
    BY <1>1, <1>3, <1>4, <1>6, NotTaking, NotGiving, PagesLost DEF PageInv, Ownership
  <2>3. FailureIsFull(t)'
    BY <1>6 DEF FailureIsFull
  <2>4. lost' \subseteq Page
    BY <1>6 DEF PageInv, InBounds, Run
  <2> QED BY <1>1, <1>6, <2>1, <2>2, <2>3, <2>4, OneSteps DEF PageInv, InBounds
<1> QED BY <1>1, <1>5, <1>6 DEF PfreeRelease, Return, Goto, LockInv, LocalsOK

(* One bit of bitmap_find_range.  A run of cnt free pages that ends at bit  *)
(* i would hold bit i, or the marked bit before the run the search is in.   *)
LEMMA NextRunKnows ==
    ASSUME NEW x \in Shape, NEW y \in Shape, SearchKnows(x), NumPages \in Nat,
           x.idx + x.n = x.i, x.n < x.cnt, x.i < NumPages,
           y.cnt = x.cnt, y.free = x.free, y.i = x.i + 1,
           \/ x.i \in map /\ y.idx = x.i + 1 /\ y.n = 0
           \/ x.i \notin map /\ y.idx = x.idx /\ y.n = x.n + 1
    PROVE  /\ y.n # x.cnt => SearchKnows(y)
           /\ Run(y.idx, y.n) \cap map = {}
<1>1. x.idx \in Nat /\ x.n \in Nat /\ x.i \in Nat /\ x.cnt \in Nat /\ x.free \subseteq Page
  BY DEF Shape
<1>2. y.idx \in Nat /\ y.n \in Nat /\ y.i \in Nat
  BY <1>1
<1>3. Run(y.idx, y.n) \cap map = {}
  <2>1. \A p \in Run(y.idx, y.n) : p \in Run(x.idx, x.n) \/ (p = x.i /\ x.i \notin map)
    BY <1>1, <1>2 DEF Run, Page
  <2> QED BY <2>1 DEF SearchKnows
<1>4. y.free \cap map = {}
  BY DEF SearchKnows
<1>5. y.idx > 0 => y.idx - 1 \notin y.free
  BY <1>1 DEF SearchKnows
<1>6. ASSUME y.n # x.cnt, NEW s \in Nat, s + y.cnt <= y.i
      PROVE  ~(Run(s, y.cnt) \subseteq y.free)
  <2>1. CASE s + y.cnt <= x.i
    BY <2>1 DEF SearchKnows
  <2>2. CASE s + y.cnt = x.i + 1 /\ x.i \in map
    <3>1. x.i \in Run(s, y.cnt)
      BY <1>1, <2>2 DEF Run, Page
    <3> QED BY <2>2, <3>1, <1>4
  <2>3. CASE s + y.cnt = x.i + 1 /\ x.i \notin map
    <3>1. s < x.idx
      BY <1>1, <1>6, <2>3
    <3>2. x.idx - 1 \in Run(s, y.cnt)
      BY <1>1, <2>3, <3>1 DEF Run, Page
    <3>3. x.idx - 1 \notin x.free
      BY <1>1, <3>1 DEF SearchKnows
    <3> QED BY <3>2, <3>3
  <2> QED BY <1>1, <1>2, <1>6, <2>1, <2>2, <2>3
<1> QED BY <1>3, <1>4, <1>5, <1>6 DEF SearchKnows

LEMMA FindBitPages ==
    ASSUME NEW t \in Thread, LockInv, PageInv, FindBit(t)
    PROVE  PageInv'
<1> USE PallocAssumption
<1> DEFINE x == loc[t]
           y == NextRun(t, x.i)
<1>1. /\ pc[t] = "find" /\ x.op = "palloc" /\ x \in Shape
      /\ \A u \in Thread \ {t} : pc'[u] = pc[u] /\ loc'[u] = loc[u]
      /\ map' = map /\ held' = held /\ lost' = lost /\ stale' = stale
  BY DEF FindBit, Goto, LockInv, LocalsOK, OnlyPallocSearches
<1>2. x.idx + x.n = x.i /\ x.n < x.cnt /\ x.i < NumPages
      /\ x.idx \in Nat /\ x.n \in Nat /\ x.i \in Nat /\ x.cnt \in Nat
  BY <1>1 DEF PageInv, InBounds, CallInBounds, Shape
<1>3. y \in Shape /\ y.op = "palloc"
  BY <1>1, NextRunShape
<1>4. /\ y.cnt = x.cnt /\ y.free = x.free /\ y.i = x.i + 1
      /\ \/ x.i \in map /\ y.idx = x.i + 1 /\ y.n = 0
         \/ x.i \notin map /\ y.idx = x.idx /\ y.n = x.n + 1
  BY <1>1 DEF NextRun, Shape
<1>5. \/ y.n = x.cnt /\ pc'[t] = "load" /\ loc'[t] = [y EXCEPT !.i = y.idx, !.free = {}]
      \/ y.n # x.cnt /\ y.i = NumPages /\ pc'[t] = "release" /\ loc'[t] = [y EXCEPT !.idx = NumPages + 1]
      \/ y.n # x.cnt /\ y.i # NumPages /\ pc'[t] = "find" /\ loc'[t] = y
  BY <1>1 DEF FindBit, Goto, SearchedAll, LockInv, LocalsOK
<1>6. InSection(t)
  BY <1>1 DEF InSection
<1>7. /\ Taking(t) = {} /\ Marked(t) = {} /\ Giving(t) = {}
      /\ \A u \in Thread \ {t} : Taking(u)' = Taking(u) /\ Giving(u)' = Giving(u)
                                 /\ Marked(u)' = Marked(u) /\ Taking(u) = {}
  BY <1>1, <1>6, NotGiving, NotTaking, OthersKeep, Alone
<1>8. ~stale => SearchKnows(x)
  BY <1>1 DEF PageInv, Searching
<1> HIDE DEF x, y
<1>9. ~stale => (y.n # x.cnt => SearchKnows(y)) /\ Run(y.idx, y.n) \cap map = {}
  BY <1>1, <1>2, <1>3, <1>4, <1>8, NextRunKnows
<1>10. CASE y.n = x.cnt /\ pc'[t] = "load" /\ loc'[t] = [y EXCEPT !.i = y.idx, !.free = {}]
  <2>1. loc'[t].op = "palloc" /\ loc'[t].cnt = x.cnt /\ loc'[t].idx = y.idx /\ loc'[t].i = y.idx
    BY <1>3, <1>4, <1>10 DEF Shape
  <2>2. y.idx = x.idx /\ x.n + 1 = x.cnt
    BY <1>2, <1>4, <1>10
  <2>3. CallInBounds(t)'
    BY <1>2, <1>10, <2>1, <2>2 DEF CallInBounds
  <2>4. Taking(t)' = Run(y.idx, y.n)
    BY <1>10, <2>1 DEF Taking, Setting
  <2>5. Marked(t)' = {}
    BY <1>2, <1>10, <2>1, <2>2, <2>4 DEF Marked, Run, Page
  <2>6. ~stale' => Ownership'
    <3>1. Giving(t)' = {}
      BY <2>1, NotGiving
    <3> QED BY <1>1, <1>7, <1>9, <2>4, <2>5, <3>1, PagesFound DEF PageInv, Ownership
  <2>7. FailureIsFull(t)'
    BY <1>10 DEF FailureIsFull
  <2> QED BY <1>1, <1>10, <2>3, <2>6, <2>7, OneSteps DEF PageInv, InBounds
<1>11. CASE /\ y.n # x.cnt /\ y.i = NumPages /\ pc'[t] = "release"
            /\ loc'[t] = [y EXCEPT !.idx = NumPages + 1]
  <2>1. loc'[t].op = "palloc" /\ loc'[t].cnt = x.cnt /\ loc'[t].idx = NumPages + 1
        /\ loc'[t].free = y.free
    BY <1>3, <1>4, <1>11 DEF Shape
  <2>2. ~Found(t)'
    BY <2>1 DEF Found
  <2>3. CallInBounds(t)'
    BY <1>2, <1>11, <2>1, <2>2 DEF CallInBounds
  <2>4. Taking(t)' = {} /\ Marked(t)' = {}
    BY <1>11, <2>2 DEF Taking, Marked, Setting
  <2>5. ~stale' => Ownership'
    BY <1>1, <1>7, <2>1, <2>4, NotGiving, PagesStay DEF PageInv, Ownership
  <2>6. ~stale' => FailureIsFull(t)'
    <3> SUFFICES ASSUME ~stale', NEW s \in 0..(NumPages - x.cnt)
                 PROVE  ~(Run(s, x.cnt) \subseteq y.free)
      BY <2>1 DEF FailureIsFull
    <3>1. s \in Nat /\ s + y.cnt <= y.i
      BY <1>2, <1>4, <1>11
    <3> QED BY <1>1, <1>4, <1>9, <1>11, <3>1 DEF SearchKnows
  <2> QED BY <1>1, <1>11, <2>3, <2>5, <2>6, OneSteps DEF PageInv, InBounds
<1>12. CASE y.n # x.cnt /\ y.i # NumPages /\ pc'[t] = "find" /\ loc'[t] = y
  <2>1. CallInBounds(t)'
    BY <1>2, <1>3, <1>4, <1>12 DEF CallInBounds
  <2>2. ~stale' => Ownership'
    BY <1>1, <1>3, <1>7, <1>12, NotGiving, NotTaking, PagesStay DEF PageInv, Ownership
  <2>3. FailureIsFull(t)'
    BY <1>12 DEF FailureIsFull
  <2>4. ~stale' => SearchKnows(loc[t])'
    BY <1>1, <1>9, <1>12 DEF SearchKnows
  <2> QED BY <1>1, <1>12, <2>1, <2>2, <2>3, <2>4, OneSteps DEF PageInv, InBounds
<1> QED BY <1>5, <1>10, <1>11, <1>12

LEMMA CountBitPages ==
    ASSUME NEW t \in Thread, LockInv, PageInv, CountBit(t)
    PROVE  PageInv'
<1>1. /\ pc[t] = "count" /\ loc[t].op = "pfree" /\ loc[t] \in Shape
      /\ pc'[t] \in {"count", "release"}
      /\ \A u \in Thread \ {t} : pc'[u] = pc[u] /\ loc'[u] = loc[u]
      /\ map' = map /\ held' = held /\ lost' = lost /\ stale' = stale
  BY DEF CountBit, Goto, LockInv, LocalsOK, PageInv, InBounds, CallInBounds
<1>2. loc'[t].op = "pfree" /\ loc'[t].cnt = loc[t].cnt /\ loc'[t].idx = loc[t].idx
  BY <1>1 DEF CountBit, LockInv, LocalsOK, Shape
<1>3. CallInBounds(t)'
  BY <1>1, <1>2 DEF CallInBounds, PageInv, InBounds
<1>4. Giving(t)' = Giving(t)
  BY <1>1, <1>2 DEF Giving, Clearing
<1>5. ~stale' => Ownership'
  <2>1. \A u \in Thread : Taking(u)' = Taking(u) /\ Giving(u)' = Giving(u) /\ Marked(u)' = Marked(u)
    BY <1>1, <1>2, <1>4, OthersKeep, NotTaking
  <2> QED BY <1>1, <2>1, PagesStay DEF PageInv, Ownership
<1>6. FailureIsFull(t)'
  BY <1>2 DEF FailureIsFull
<1> QED BY <1>1, <1>3, <1>5, <1>6, OneSteps DEF PageInv, InBounds

LEMMA LoadWordPages ==
    ASSUME NEW t \in Thread, LockInv, PageInv, LoadWord(t)
    PROVE  PageInv'
<1>1. /\ pc[t] = "load" /\ loc[t] \in Shape /\ pc'[t] = "store"
      /\ loc'[t] = [loc[t] EXCEPT !.reg = map \cap Word(loc[t].i)]
      /\ \A u \in Thread \ {t} : pc'[u] = pc[u] /\ loc'[u] = loc[u]
      /\ map' = map /\ held' = held /\ lost' = lost /\ stale' = stale
  BY DEF LoadWord, Goto, LockInv, LocalsOK
<1>2. loc'[t].op = loc[t].op /\ loc'[t].cnt = loc[t].cnt /\ loc'[t].idx = loc[t].idx
      /\ loc'[t].i = loc[t].i
  BY <1>1 DEF Shape
<1>3. CallInBounds(t)'
  BY <1>1, <1>2 DEF CallInBounds, PageInv, InBounds
<1>4. Giving(t)' = Giving(t)
  BY <1>1, <1>2 DEF Giving, Clearing
<1>5. Taking(t)' = Taking(t)
  BY <1>1, <1>2 DEF Taking, Setting
<1>6. Marked(t)' = Marked(t)
  BY <1>1, <1>2, <1>5 DEF Marked
<1>7. ~stale' => Ownership'
  <2>1. \A u \in Thread : Taking(u)' = Taking(u) /\ Giving(u)' = Giving(u) /\ Marked(u)' = Marked(u)
    BY <1>1, <1>4, <1>5, <1>6, OthersKeep
  <2> QED BY <1>1, <2>1, PagesStay DEF PageInv, Ownership
<1>8. FailureIsFull(t)'
  BY <1>1 DEF FailureIsFull
<1> QED BY <1>1, <1>3, <1>7, <1>8, OneSteps DEF PageInv, InBounds

(* The store of a word that is not stale changes the bit i alone.           *)
LEMMA StoreOneBit ==
    ASSUME NEW i \in Page, NEW reg, reg = map \cap Word(i), map \subseteq Page
    PROVE  /\ (map \ Word(i)) \cup (reg \cup {i}) = map \cup {i}
           /\ (map \ Word(i)) \cup (reg \ {i}) = map \ {i}
<1>1. i \in Word(i)
  BY DEF Word
<1> QED BY <1>1

LEMMA StoreWordPages ==
    ASSUME NEW t \in Thread, LockInv, PageInv, StoreWord(t)
    PROVE  PageInv'
<1> USE PallocAssumption
<1> DEFINE i == loc[t].i
           reg == loc[t].reg
<1>1. /\ pc[t] = "store" /\ loc[t] \in Shape
      /\ \A u \in Thread \ {t} : pc'[u] = pc[u] /\ loc'[u] = loc[u]
      /\ held' = held /\ lost' = lost
      /\ stale' = (stale \/ reg # map \cap Word(i))
      /\ map' = (map \ Word(i)) \cup (IF loc[t].op = "palloc" THEN reg \cup {i} ELSE reg \ {i})
  BY DEF StoreWord, Return, Goto, LockInv, LocalsOK
<1>2. /\ loc[t].idx <= i /\ i < loc[t].idx + loc[t].cnt /\ loc[t].idx + loc[t].cnt <= NumPages
      /\ loc[t].cnt >= 1 /\ loc[t].idx \in Nat /\ loc[t].cnt \in Nat /\ i \in Nat
  BY <1>1 DEF PageInv, InBounds, CallInBounds, Shape
<1>3. i \in Page /\ i \in Run(loc[t].idx, loc[t].cnt)
  BY <1>2 DEF Page, Run
<1>4. map' \subseteq Page
  <2>1. reg \subseteq Page /\ map \subseteq Page
    BY <1>1 DEF Shape, PageInv, InBounds
  <2> QED BY <1>1, <1>3, <2>1
<1>5. ~stale' => /\ loc[t].op = "palloc" => map' = map \cup {i}
                 /\ loc[t].op # "palloc" => map' = map \ {i}
  BY <1>1, <1>3, StoreOneBit DEF PageInv, InBounds
<1>6. \A u \in Thread \ {t} : Taking(u)' = Taking(u) /\ Giving(u)' = Giving(u) /\ Marked(u)' = Marked(u)
  BY <1>1, OthersKeep
<1>7. FailureIsFull(t)' /\ CallInBounds(t)' /\ pc'[t] # "find"
  <2>1. CASE pc'[t] = "out"
    BY <2>1 DEF FailureIsFull, CallInBounds
  <2>2. CASE ~LastBit(t) /\ pc'[t] = "load" /\ loc'[t] = [loc[t] EXCEPT !.i = i + 1, !.reg = {}]
    <3>1. loc'[t].i = i + 1 /\ loc'[t].cnt = loc[t].cnt /\ loc'[t].idx = loc[t].idx
      BY <1>1, <2>2 DEF Shape
    <3>2. i + 1 < loc[t].idx + loc[t].cnt
      BY <1>2, <2>2 DEF LastBit
    <3> QED BY <1>2, <2>2, <3>1, <3>2 DEF FailureIsFull, CallInBounds
  <2>3. CASE loc[t].op = "palloc" /\ pc'[t] = "release" /\ loc'[t] = [loc[t] EXCEPT !.reg = {}]
    <3>1. loc'[t].op = "palloc" /\ loc'[t].cnt = loc[t].cnt /\ loc'[t].idx = loc[t].idx
      BY <1>1, <2>3 DEF Shape
    <3>2. Found(t)'
      BY <1>2, <3>1 DEF Found
    <3> QED BY <1>2, <2>3, <3>1, <3>2 DEF FailureIsFull, CallInBounds
  <2> QED BY <1>1, <2>1, <2>2, <2>3 DEF StoreWord, Return, Goto, LockInv, LocalsOK
<1>8. CASE loc[t].op = "palloc"
  <2>1. Taking(t) = Run(loc[t].idx, loc[t].cnt)
    BY <1>1, <1>8 DEF Taking, Setting
  <2>2. Marked(t) = {p \in Taking(t) : p < i}
    BY <1>1 DEF Marked
  <2>3. loc'[t].op = "palloc" /\ Taking(t)' = Taking(t) /\ Marked(t)' = Marked(t) \cup {i}
    <3>1. CASE LastBit(t) /\ pc'[t] = "release" /\ loc'[t] = [loc[t] EXCEPT !.reg = {}]
      <4>1. loc'[t].op = "palloc" /\ loc'[t].cnt = loc[t].cnt /\ loc'[t].idx = loc[t].idx
        BY <1>1, <1>8, <3>1 DEF Shape
      <4>2. Found(t)'
        BY <1>2, <4>1 DEF Found
      <4>3. Taking(t)' = Taking(t)
        BY <2>1, <3>1, <4>1, <4>2 DEF Taking
      <4>4. Marked(t)' = Taking(t)
        BY <3>1, <4>3 DEF Marked
      <4>5. Taking(t) = Marked(t) \cup {i}
        BY <1>2, <1>3, <2>1, <2>2, <3>1 DEF LastBit, Run, Page
      <4> QED BY <4>1, <4>3, <4>4, <4>5
    <3>2. CASE ~LastBit(t) /\ pc'[t] = "load" /\ loc'[t] = [loc[t] EXCEPT !.i = i + 1, !.reg = {}]
      <4>1. loc'[t].op = "palloc" /\ loc'[t].cnt = loc[t].cnt /\ loc'[t].idx = loc[t].idx
            /\ loc'[t].i = i + 1
        BY <1>1, <1>8, <3>2 DEF Shape
      <4>2. Taking(t)' = Taking(t)
        BY <2>1, <3>2, <4>1 DEF Taking, Setting
      <4>3. Marked(t)' = {p \in Taking(t) : p < i + 1}
        BY <3>2, <4>1, <4>2 DEF Marked
      <4>4. Marked(t)' = Marked(t) \cup {i}
        BY <1>2, <1>3, <2>1, <2>2, <4>3 DEF Run, Page
      <4> QED BY <4>1, <4>2, <4>4
    <3> QED BY <1>1, <1>8, <3>1, <3>2 DEF StoreWord, Return, Goto, LockInv, LocalsOK
  <2>4. ~stale' => Ownership'
    BY <1>1, <1>5, <1>6, <1>8, <2>3, NotGiving, PageMarked DEF PageInv, Ownership
  <2>5. \A u \in Thread \ {t} : pc[u] # "find"
    BY <1>1, <1>8, Alone DEF InSection, Setting
  <2> QED BY <1>1, <1>4, <1>7, <2>4, <2>5, OneSteps DEF PageInv, InBounds
<1>9. CASE loc[t].op = "pfree"
  <2>1. Giving(t) = {p \in Run(loc[t].idx, loc[t].cnt) : p >= i}
    BY <1>1, <1>9 DEF Giving, Clearing
  <2>2. Giving(t)' = Giving(t) \ {i} /\ Taking(t)' = {} /\ Marked(t)' = {}
    <3>1. CASE LastBit(t) /\ pc'[t] = "out"
      <4>1. Giving(t) = {i}
        BY <1>2, <1>3, <2>1, <3>1 DEF LastBit, Run, Page
      <4> QED BY <3>1, <4>1, NotGiving, NotTaking
    <3>2. CASE pc'[t] = "load" /\ loc'[t] = [loc[t] EXCEPT !.i = i + 1, !.reg = {}]
      <4>1. loc'[t].op = "pfree" /\ loc'[t].cnt = loc[t].cnt /\ loc'[t].idx = loc[t].idx
            /\ loc'[t].i = i + 1
        BY <1>1, <1>9, <3>2 DEF Shape
      <4>2. Giving(t)' = {p \in Run(loc[t].idx, loc[t].cnt) : p >= i + 1}
        BY <3>2, <4>1 DEF Giving, Clearing
      <4>3. Giving(t)' = Giving(t) \ {i}
        BY <1>2, <2>1, <4>2 DEF Run, Page
      <4> QED BY <4>1, <4>3, NotTaking
    <3> QED BY <1>1, <1>9, <3>1, <3>2 DEF StoreWord, Return, Goto, LockInv, LocalsOK
  <2>3. i \in Giving(t)
    BY <1>2, <1>3, <2>1
  <2>4. \A u \in Thread : Marked(u) \subseteq Taking(u)
    BY DEF Marked
  <2>5. ~stale' => Ownership'
    BY <1>1, <1>5, <1>6, <1>9, <2>2, <2>3, <2>4, NotTaking, PageCleared DEF PageInv, Ownership
  <2>6. ~stale' => map' \subseteq map
    BY <1>5, <1>9
  <2> QED BY <1>1, <1>4, <1>7, <2>5, <2>6, OneSteps DEF PageInv, InBounds
<1> QED BY <1>1, <1>8, <1>9 DEF Shape

-----------------------------------------------------------------------------
LEMMA InitPages == Init => PageInv
<1> SUFFICES ASSUME Init PROVE PageInv
  OBVIOUS
<1> USE PallocAssumption
<1>1. \A t \in Thread : pc[t] = "out"
  BY DEF Init
<1>2. \A t \in Thread : Taking(t) = {} /\ Giving(t) = {} /\ Marked(t) = {}
  BY <1>1, NotGiving, NotTaking
<1>3. held = {} /\ map = Run(0, Reserved) \cup lost /\ lost \subseteq Page /\ map \subseteq Page
  BY DEF Init, Run
<1>4. InBounds
  BY <1>1, <1>3 DEF InBounds, CallInBounds
<1>5. Searching /\ NullMeansFull
  BY <1>1 DEF Searching, NullMeansFull
<1>6. NoOverlap /\ LostApart
  BY <1>2, <1>3 DEF NoOverlap, LostApart
<1>7. MapAccounts
  BY <1>2, <1>3, PageByPage DEF Accounted
<1> QED BY <1>4, <1>5, <1>6, <1>7 DEF PageInv

LEMMA NextKeepsPages == LockInv /\ PageInv /\ [Next]_vars => PageInv'
<1> SUFFICES ASSUME LockInv, PageInv, [Next]_vars PROVE PageInv'
  OBVIOUS
<1>1. CASE UNCHANGED vars
  <2>1. /\ \A u \in Thread : pc'[u] = pc[u] /\ loc'[u] = loc[u]
        /\ map' = map /\ held' = held /\ lost' = lost /\ stale' = stale
    BY <1>1 DEF vars
  <2>2. \A u \in Thread : /\ CallInBounds(u)' <=> CallInBounds(u)
                          /\ Taking(u)' = Taking(u) /\ Giving(u)' = Giving(u)
                          /\ Marked(u)' = Marked(u)
    BY <2>1, OthersKeep
  <2>3. InBounds'
    BY <2>1, <2>2 DEF PageInv, InBounds
  <2>4. Searching' <=> Searching
    BY <2>1 DEF Searching, SearchKnows
  <2>5. LostApart' <=> LostApart
    BY <2>1, <2>2 DEF LostApart
  <2>6. NoOverlap'
    BY <2>1, <2>2 DEF PageInv, NoOverlap
  <2>7. MapAccounts'
    BY <2>1, <2>2, PageByPage DEF PageInv, Accounted
  <2>8. NullMeansFull'
    BY <2>1 DEF PageInv, NullMeansFull, Found
  <2> QED BY <2>1, <2>3, <2>4, <2>5, <2>6, <2>7, <2>8 DEF PageInv
<1>2. ASSUME NEW t \in Thread, Call(t) PROVE PageInv'
  BY <1>2, CallPallocPages, CallPfreePages DEF Call
<1>3. ASSUME NEW t \in Thread, Step(t) PROVE PageInv'
  BY <1>3, AcquireCheckPages, SpinPages, FindBitPages, CountBitPages, LoadWordPages,
     StoreWordPages, PallocReleasePages, PfreeReleasePages DEF Step
<1> QED BY <1>1, <1>2, <1>3 DEF Next

LEMMA PagesInvariant == Spec => []PageInv
<1>1. Init => LockInv /\ PageInv
  BY InitLock, InitPages
<1>2. LockInv /\ PageInv /\ [Next]_vars => (LockInv /\ PageInv)'
  BY NextKeepsLock, NextKeepsPages
<1> QED BY <1>1, <1>2, PTL DEF Spec

(* palloc_mult and pfree_mult: no page is given to two callers, or given    *)
(* away while the call that frees it is still clearing its bit, until a     *)
(* stale word of the bitmap is stored.                                      *)
THEOREM PagesAreExclusive == Spec => []NoOverlap
<1>1. PageInv => NoOverlap
  BY DEF PageInv
<1> QED BY <1>1, PagesInvariant, PTL

(* bitmap_set_range in both: until a stale word is stored, a bit is 1       *)
(* exactly if its page is in use, so no page is lost but by a pfree_mult    *)
(* that refuses to free it.                                                 *)
THEOREM MapIsExact == Spec => []MapAccounts
<1>1. PageInv => MapAccounts
  BY DEF PageInv
<1> QED BY <1>1, PagesInvariant, PTL

(* bitmap_find_range: palloc_mult returns NULL only if no cnt consecutive   *)
(* pages were free when the search began, whatever is freed during it.      *)
THEOREM FailureMeansFull == Spec => []NullMeansFull
<1>1. PageInv => NullMeansFull
  BY DEF PageInv
<1> QED BY <1>1, PagesInvariant, PTL
=============================================================================
