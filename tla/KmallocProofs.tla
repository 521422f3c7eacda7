--------------------------- MODULE KmallocProofs ----------------------------
(***************************************************************************)
(* Theorems about module Kmalloc: for any number of slabs, any sizes of    *)
(* slab and page with a page of no more than SLAB_SIZE slabs, and any      *)
(* contents of the memory behind the table.                                *)
(***************************************************************************)
EXTENDS Kmalloc, SequenceTheorems, FiniteSetTheorems, WellFoundedInduction, TLAPS

-----------------------------------------------------------------------------
KmallocType ==
    /\ free \subseteq Slab /\ free_mem_size \in Nat
    /\ allocations \in Seq(Slab \cup Ghost)
    /\ areas \subseteq [addr : Slab \cup Ghost, n : Nat \ {0}, size : 1..PG_SIZE]
    /\ corrupt \in BOOLEAN

(* The inductive invariant: what is claimed, and where the values lie.      *)
KmallocInv == KmallocType /\ SlabAccounts /\ LargeEnough

-----------------------------------------------------------------------------
(* Arithmetic.                                                              *)
LEMMA DivFacts ==
    ASSUME NEW x \in Nat, NEW d \in Nat \ {0}
    PROVE  /\ x \div d \in Nat /\ d * (x \div d) <= x /\ x < d * (x \div d) + d
           /\ x >= d => x \div d >= 1
OBVIOUS

LEMMA TimesMono ==
    ASSUME NEW x \in Nat, NEW y \in Nat, NEW z \in Nat, x <= y
    PROVE  x * z \in Nat /\ x * z <= y * z
OBVIOUS

(* x rounded up is a multiple of d that is at least x.                      *)
LEMMA RoundUpFacts ==
    ASSUME NEW x \in Nat, NEW d \in Nat \ {0}
    PROVE  RoundUp(x, d) \in Nat /\ RoundUp(x, d) >= x /\ (x >= 1 => RoundUp(x, d) >= d)
<1> DEFINE q == (x + d - 1) \div d
<1>1. x + d - 1 \in Nat
  OBVIOUS
<1>2. q \in Nat /\ d * q <= x + d - 1 /\ x + d - 1 < d * q + d /\ (x + d - 1 >= d => q >= 1)
  BY <1>1, DivFacts
<1> HIDE DEF q
<1>3. q * d \in Nat /\ q * d = d * q
  BY <1>2
<1>4. q * d >= x
  BY <1>2, <1>3
<1>5. x >= 1 => q * d >= d
  BY <1>2, TimesMono
<1>6. QED
  BY <1>3, <1>4, <1>5 DEF RoundUp, q

(* A page is at most the square of a slab, so the quotient rounded up to a  *)
(* multiple of the size of a slab is always enough.                         *)
LEMMA NumSlabsEnough ==
    ASSUME NEW size \in 1..PG_SIZE
    PROVE  NumSlabs(size) \in Nat \ {0} /\ NumSlabs(size) * SLAB_SIZE >= size
<1> DEFINE q == size \div SLAB_SIZE
<1> DEFINE n == RoundUp(q, SLAB_SIZE)
<1>0. size \in Nat /\ SLAB_SIZE \in Nat \ {0} /\ PG_SIZE \in Nat
  BY KmallocAssumption
<1>1. q \in Nat /\ size < SLAB_SIZE * q + SLAB_SIZE /\ (size >= SLAB_SIZE => q >= 1)
  BY <1>0, DivFacts
<1> HIDE DEF q
<1>2. n \in Nat /\ n >= q /\ (q >= 1 => n >= SLAB_SIZE)
  BY <1>0, <1>1, RoundUpFacts
<1> HIDE DEF n
<1>3. NumSlabs(size) = IF n = 0 THEN 1 ELSE n
  BY DEF NumSlabs, n, q
<1>4. CASE size < SLAB_SIZE
  <2>1. \A k \in Nat \ {0} : k * SLAB_SIZE >= SLAB_SIZE
    BY <1>0
  <2>2. NumSlabs(size) \in Nat \ {0}
    BY <1>2, <1>3
  <2>3. QED
    BY <1>0, <1>4, <2>1, <2>2
<1>5. CASE size >= SLAB_SIZE
  <2>1. n >= SLAB_SIZE /\ NumSlabs(size) = n
    BY <1>0, <1>1, <1>2, <1>3, <1>5
  <2>2. n * SLAB_SIZE >= SLAB_SIZE * SLAB_SIZE
    BY <1>0, <1>2, <2>1, TimesMono
  <2>3. size <= SLAB_SIZE * SLAB_SIZE
    BY <1>0, KmallocAssumption
  <2>4. n * SLAB_SIZE \in Nat /\ SLAB_SIZE * SLAB_SIZE \in Nat
    BY <1>0, <1>2
  <2>5. QED
    BY <1>0, <1>2, <2>1, <2>2, <2>3, <2>4
<1>6. QED
  BY <1>0, <1>4, <1>5

(* The least of a set of natural numbers is one of them.                    *)
LEMMA MinIsMember ==
    ASSUME NEW T \in SUBSET Nat, T # {}
    PROVE  Min(T) \in T
<1> DEFINE R == OpToRel(<, Nat)
<1>1. IsWellFoundedOn(R, Nat)
  BY NatLessThanWellFounded
<1>2. \A x, y \in Nat : <<x, y>> \in R <=> x < y
  BY DEF OpToRel
<1> HIDE DEF R
<1>3. \E x \in T : \A y \in T : ~ (<<y, x>> \in R)
  BY <1>1, WFMin
<1>4. PICK x \in T : \A y \in T : ~ (<<y, x>> \in R)
  BY <1>3
<1>5. \A y \in T : ~(y < x)
  BY <1>2, <1>4
<1>6. \A y \in T : x <= y
  BY <1>5
<1>7. QED
  BY <1>6 DEF Min

-----------------------------------------------------------------------------
(* The search of slab_alloc.                                                *)
LEMMA Numbers == /\ Slab \cup Ghost \subseteq Nat /\ Slab \cap Ghost = {}
                 /\ IsFiniteSet(Slab) /\ Cardinality(Slab) = SLABS
<1>1. Slab \cup Ghost \subseteq Nat /\ Slab \cap Ghost = {}
  BY KmallocAssumption DEF Slab, Ghost
<1>2. IsFiniteSet(Slab) /\ Cardinality(Slab) = SLABS
  <2> DEFINE k == SLABS - 1
  <2>1. 0 \in Int /\ k \in Int /\ k >= 0 /\ SLABS = k - 0 + 1
    BY KmallocAssumption
  <2> HIDE DEF k
  <2>2. IsFiniteSet(0..k) /\ Cardinality(0..k) = IF 0 > k THEN 0 ELSE k - 0 + 1
    BY <2>1, FS_Interval
  <2>3. QED
    BY <2>1, <2>2 DEF Slab, k
<1>3. QED
  BY <1>1, <1>2

LEMMA FitsFacts ==
    ASSUME NEW S \in SUBSET (Slab \cup Ghost), NEW n \in Nat \ {0}, Fits(S, n) # {}
    PROVE  Min(Fits(S, n)) \in S /\ Run(Min(Fits(S, n)), n) \subseteq S
<1>1. Fits(S, n) \in SUBSET Nat
  BY Numbers DEF Fits
<1>2. Min(Fits(S, n)) \in Fits(S, n)
  BY <1>1, MinIsMember
<1>3. QED
  BY <1>2 DEF Fits

LEMMA RunCount ==
    ASSUME NEW i \in Nat, NEW n \in Nat
    PROVE  IsFiniteSet(Run(i, n)) /\ Cardinality(Run(i, n)) = n
<1>1. i \in Int /\ i + n - 1 \in Int
  OBVIOUS
<1>2. QED
  BY <1>1, FS_Interval DEF Run

(* free_mem_size does not pass zero: the slabs taken are free ones.         *)
AreFree(F, a, n, b) ==
    /\ F \in SUBSET Slab /\ a \in Nat /\ n \in Nat \ {0}
    /\ Run(a, n) \subseteq F /\ b \in F \ Run(a, n)

LEMMA CountRest ==
    ASSUME NEW F, NEW a, NEW n, NEW b, AreFree(F, a, n, b)
    PROVE  /\ Cardinality((F \ Run(a, n)) \ {b}) \in Nat
           /\ Cardinality(F) = Cardinality((F \ Run(a, n)) \ {b}) + n + 1
           /\ Cardinality(F) <= SLABS
<1> USE DEF AreFree
<1> DEFINE E == F \ Run(a, n)
<1> DEFINE G == E \ {b}
<1>1. IsFiniteSet(F) /\ Cardinality(F) <= SLABS /\ Cardinality(F) \in Nat
  BY Numbers, FS_Subset, FS_CardinalityType
<1>2. IsFiniteSet(E) /\ Cardinality(E) = Cardinality(F) - Cardinality(F \cap Run(a, n))
  BY <1>1, RunCount, FS_Difference
<1>3. F \cap Run(a, n) = Run(a, n) /\ Cardinality(Run(a, n)) = n
  BY RunCount
<1>4. IsFiniteSet(G) /\ Cardinality(G) = Cardinality(E) - 1
  BY <1>2, FS_RemoveElement
<1>5. Cardinality(G) \in Nat /\ Cardinality(E) \in Nat
  BY <1>2, <1>4, FS_CardinalityType
<1> HIDE DEF E, G
<1>6. Cardinality(F) = Cardinality(G) + n + 1
  BY <1>1, <1>2, <1>3, <1>4, <1>5
<1>7. QED
  BY <1>1, <1>5, <1>6 DEF E, G

LEMMA MinusExact ==
    ASSUME NEW c \in Nat, NEW g \in Nat, NEW n \in Nat, c = g + n, c <= SLABS
    PROVE  Minus(SLAB_SIZE * c, n) = SLAB_SIZE * g
<1>0. SLAB_SIZE \in Nat \ {0} /\ SLABS \in Nat /\ WORD \in Nat \ {0} /\ SLABS * SLAB_SIZE < WORD
  BY KmallocAssumption
<1>1. SLAB_SIZE * c - n * SLAB_SIZE = SLAB_SIZE * g
  BY <1>0
<1>2. SLAB_SIZE * g \in Nat /\ SLAB_SIZE * g < WORD
  <2>1. g <= SLABS
    BY <1>0
  <2>2. g * SLAB_SIZE <= SLABS * SLAB_SIZE
    BY <1>0, <2>1, TimesMono
  <2>3. QED
    BY <1>0, <2>2
<1>3. \A x \in Nat : x < WORD => x % WORD = x
  BY <1>0
<1>4. QED
  BY <1>1, <1>2, <1>3 DEF Minus

-----------------------------------------------------------------------------
(* The list of records grows at the front.                                  *)
LEMMA RecordsGrow ==
    ASSUME NEW T, NEW s \in Seq(T), NEW b \in T
    PROVE  /\ <<b>> \o s \in Seq(T)
           /\ DOMAIN (<<b>> \o s) = 1..(Len(s) + 1)
           /\ (<<b>> \o s)[1] = b
           /\ \A i \in 1..Len(s) : (<<b>> \o s)[i + 1] = s[i]
           /\ Len(<<b>> \o s) = Len(s) + 1 /\ Len(s) \in Nat
<1> DEFINE r == <<b>>
<1>1. r \in Seq(T) /\ Len(r) = 1 /\ r[1] = b
  OBVIOUS
<1> HIDE DEF r
<1>2. r \o s \in Seq(T) /\ Len(r \o s) = Len(s) + 1 /\ Len(s) \in Nat
  <2>1. r \o s \in Seq(T) /\ Len(r \o s) = Len(r) + Len(s)
    BY <1>1, ConcatProperties
  <2>2. Len(s) \in Nat
    BY LenProperties
  <2>3. QED
    BY <1>1, <2>1, <2>2
<1>3. DOMAIN (r \o s) = 1..(Len(s) + 1)
  BY <1>2
<1>4. (r \o s)[1] = b
  BY <1>1, <1>2, ConcatProperties
<1>5. ASSUME NEW i \in 1..Len(s) PROVE (r \o s)[i + 1] = s[i]
  BY <1>1, <1>2, ConcatProperties
<1>6. QED
  BY <1>2, <1>3, <1>4, <1>5 DEF r

LEMMA InitKmalloc == Init => KmallocInv
<1> SUFFICES ASSUME Init PROVE KmallocInv
  OBVIOUS
<1>1. KmallocType
  <2>1. SLABS * SLAB_SIZE \in Nat
    BY KmallocAssumption
  <2>2. QED
    BY <2>1, EmptySeq DEF Init, KmallocType
<1>2. LargeEnough
  BY DEF Init, LargeEnough
<1>3. SlabAccounts
  <2>1. Records = {} /\ DOMAIN allocations = {}
    BY DEF Init, Records
  <2>2. free_mem_size = SLAB_SIZE * Cardinality(free)
    BY Numbers, KmallocAssumption DEF Init
  <2>3. QED
    BY <2>1, <2>2 DEF Init, SlabAccounts
<1>4. QED
  BY <1>1, <1>2, <1>3 DEF KmallocInv

(* Steps that leave the slabs and the areas alone.                          *)
LEMMA SlabsUntouched ==
    ASSUME KmallocInv, UNCHANGED <<slabs, areas, lost>>, corrupt' \in BOOLEAN, corrupt => corrupt'
    PROVE  KmallocInv'
<1> USE DEF KmallocInv, slabs
<1>1. KmallocType'
  BY DEF KmallocType
<1>2. SlabAccounts'
  BY DEF SlabAccounts, Records, KmallocType
<1>3. LargeEnough'
  BY DEF LargeEnough
<1>4. QED
  BY <1>1, <1>2, <1>3

LEMMA PallocKeeps ==
    ASSUME KmallocInv, Palloc, UNCHANGED <<slabs, areas, lost>>
    PROVE  KmallocInv'
<1>1. corrupt' \in BOOLEAN /\ (corrupt => corrupt')
  BY DEF KmallocInv, KmallocType, Palloc
<1>2. QED
  BY <1>1, SlabsUntouched

LEMMA FreePageKeeps ==
    ASSUME KmallocInv, NEW p \in pages, FreePage(p)
    PROVE  KmallocInv'
<1>1. corrupt' = corrupt /\ UNCHANGED <<slabs, areas, lost>> /\ corrupt \in BOOLEAN
  BY DEF KmallocInv, KmallocType, FreePage
<1>2. QED
  BY <1>1, SlabsUntouched

(* The allocation succeeds.                                                 *)
LEMMA AllocationKeeps ==
    ASSUME KmallocInv, ~corrupt, NEW size \in 1..PG_SIZE, NEW ghosts \in SUBSET Ghost,
           NEW n \in Nat \ {0}, n * SLAB_SIZE >= size,
           NEW a \in Slab \cup Ghost, Run(a, n) \subseteq free \cup ghosts,
           NEW b \in (free \cup ghosts) \ Run(a, n),
           free' = (((free \cup ghosts) \ Run(a, n)) \ {b}) \cap Slab,
           free_mem_size' = Minus(free_mem_size, n + 1),
           allocations' = <<b>> \o allocations,
           areas' = areas \cup {[addr |-> a, n |-> n, size |-> size]},
           corrupt' = ~(Run(a, n) \cup {b} \subseteq Slab),
           lost' = lost
    PROVE  KmallocInv'
<1> DEFINE r == [addr |-> a, n |-> n, size |-> size]
<1> USE DEF KmallocInv
<1>0. /\ b \in Slab \cup Ghost /\ allocations \in Seq(Slab \cup Ghost)
      /\ free \subseteq Slab /\ free_mem_size \in Nat
      /\ Slab \cap Ghost = {} /\ Slab \cup Ghost \subseteq Nat
  BY Numbers DEF KmallocType
<1>1. KmallocType'
  <2>1. free_mem_size' \in Nat
    <3>1. free_mem_size - (n + 1) * SLAB_SIZE \in Int /\ WORD \in Nat \ {0}
      BY <1>0, KmallocAssumption
    <3>2. \A x \in Int : x % WORD \in Nat
      BY <3>1
    <3>3. QED
      BY <3>1, <3>2 DEF Minus
  <2>2. allocations' \in Seq(Slab \cup Ghost)
    BY <1>0, RecordsGrow
  <2>3. QED
    BY <2>1, <2>2 DEF KmallocType
<1>2. LargeEnough'
  BY DEF LargeEnough
<1>3. SlabAccounts'
  <2> SUFFICES ASSUME ~corrupt' PROVE SlabAccounts'
    BY DEF SlabAccounts
  <2> DEFINE R == Run(a, n)
  <2>1. R \subseteq free /\ b \in free /\ b \notin R /\ free' = (free \ R) \ {b}
    BY <1>0
  <2>2. Slabs(r) = R
    BY DEF Slabs
  <2>3. /\ Records' = Records \cup {b}
        /\ \A i, j \in DOMAIN allocations' : allocations'[i] = allocations'[j] => i = j
    <3>1. /\ DOMAIN allocations' = 1..(Len(allocations) + 1) /\ allocations'[1] = b
          /\ \A i \in 1..Len(allocations) : allocations'[i + 1] = allocations[i]
          /\ Len(allocations') = Len(allocations) + 1 /\ Len(allocations) \in Nat
          /\ DOMAIN allocations = 1..Len(allocations)
      BY <1>0, RecordsGrow, LenProperties
    <3>2. \A i \in DOMAIN allocations' :
             i = 1 \/ (i - 1 \in 1..Len(allocations) /\ allocations'[i] = allocations[i - 1])
      BY <3>1
    <3>3. Records' = Records \cup {b}
      <4>1. ASSUME NEW x \in Records' PROVE x \in Records \cup {b}
        <5>1. PICK i \in DOMAIN allocations' : x = allocations'[i]
          BY <3>1 DEF Records
        <5>2. CASE i = 1
          BY <3>1, <5>1, <5>2
        <5>3. CASE i # 1
          <6>1. i - 1 \in 1..Len(allocations) /\ x = allocations[i - 1]
            BY <3>2, <5>1, <5>3
          <6>2. QED
            BY <6>1 DEF Records
        <5>4. QED
          BY <5>2, <5>3
      <4>2. ASSUME NEW x \in Records PROVE x \in Records'
        <5>1. PICK i \in 1..Len(allocations) : x = allocations[i]
          BY DEF Records
        <5>2. i + 1 \in 1..Len(allocations') /\ allocations'[i + 1] = x
          BY <3>1, <5>1
        <5>3. QED
          BY <5>2 DEF Records
      <4>3. b \in Records'
        <5>1. 1 \in 1..Len(allocations')
          BY <3>1
        <5>2. QED
          BY <3>1, <5>1 DEF Records
      <4>4. QED
        BY <4>1, <4>2, <4>3
    <3>4. b \notin Records
      BY <2>1 DEF SlabAccounts
    <3>5. ASSUME NEW i \in DOMAIN allocations', NEW j \in DOMAIN allocations',
                 allocations'[i] = allocations'[j]
          PROVE  i = j
      <4>1. \A k \in 1..Len(allocations) : allocations[k] # b
        BY <3>4 DEF Records
      <4>2. \A k, m \in 1..Len(allocations) : allocations[k] = allocations[m] => k = m
        BY <3>1 DEF SlabAccounts
      <4>3. QED
        BY <3>1, <3>2, <3>5, <4>1, <4>2
    <3>6. QED
      BY <3>3, <3>5
  <2>4. free_mem_size' = SLAB_SIZE * Cardinality(free')
    <3> DEFINE c == Cardinality(free)  g == Cardinality(free')
    <3>1. g \in Nat /\ c = g + n + 1 /\ c <= SLABS
      <4>1. AreFree(free, a, n, b) /\ free' = (free \ Run(a, n)) \ {b}
        BY <1>0, <2>1 DEF AreFree
      <4> DEFINE G == (free \ Run(a, n)) \ {b}
      <4>2. Cardinality(G) \in Nat /\ c = Cardinality(G) + n + 1 /\ c <= SLABS
        BY <4>1, CountRest
      <4>3. free' = G
        BY <4>1
      <4> HIDE DEF G, c
      <4>4. QED
        BY <4>2, <4>3
    <3>2. free_mem_size = SLAB_SIZE * c
      BY DEF SlabAccounts
    <3> HIDE DEF c, g
    <3>3. c \in Nat /\ n + 1 \in Nat /\ c = g + (n + 1)
      BY <3>1
    <3>4. Minus(SLAB_SIZE * c, n + 1) = SLAB_SIZE * g
      BY <3>1, <3>3, MinusExact
    <3>5. QED
      BY <3>2, <3>4 DEF g
  <2> HIDE DEF r, R
  <2>5. areas' = areas \cup {r}
    BY DEF r
  <2>6. /\ \A x \in areas : Slabs(x) \cap free = {}
        /\ free \cap (Records \cup lost) = {}
        /\ Slab = free \cup (UNION {Slabs(x) : x \in areas}) \cup Records \cup lost
    BY DEF SlabAccounts
  <2>7. Slab = free' \cup (UNION {Slabs(x) : x \in areas'}) \cup Records' \cup lost'
    <3>1. UNION {Slabs(x) : x \in areas'} = (UNION {Slabs(x) : x \in areas}) \cup R
      BY <2>2, <2>5
    <3>2. QED
      BY <2>1, <2>3, <2>6, <3>1
  <2>8. ASSUME NEW x \in areas', NEW y \in areas', x # y PROVE Slabs(x) \cap Slabs(y) = {}
    <3>1. \A z \in areas : Slabs(z) \cap R = {}
      BY <2>1, <2>6
    <3>2. CASE x \in areas /\ y \in areas
      BY <2>8, <3>2 DEF SlabAccounts
    <3>3. QED
      BY <2>2, <2>5, <2>8, <3>1, <3>2
  <2>9. ASSUME NEW x \in areas' PROVE Slabs(x) \cap (free' \cup Records' \cup lost') = {}
    <3>1. CASE x \in areas
      <4>1. Slabs(x) \cap (free \cup Records \cup lost) = {}
        BY <3>1 DEF SlabAccounts
      <4>2. QED
        BY <2>1, <2>3, <4>1
    <3>2. CASE x = r
      BY <2>1, <2>2, <2>3, <2>6, <3>2
    <3>3. QED
      BY <2>5, <3>1, <3>2
  <2>10. free' \cap (Records' \cup lost') = {} /\ Records' \cap lost' = {}
    <3>1. Records \cap lost = {}
      BY DEF SlabAccounts
    <3>2. QED
      BY <2>1, <2>3, <2>6, <3>1
  <2>11. QED
    BY <2>3, <2>4, <2>7, <2>8, <2>9, <2>10 DEF SlabAccounts
<1>4. QED
  BY <1>1, <1>2, <1>3

LEMMA KmallocSlabsKeeps ==
    ASSUME KmallocInv, NEW size \in 1..PG_SIZE, NEW ghosts \in SUBSET Ghost,
           KmallocSlabs(size, ghosts)
    PROVE  KmallocInv'
<1> DEFINE n == NumSlabs(size)
           at == Fits(free \cup ghosts, n)
           rest == Take(free \cup ghosts, Min(at), n)
<1>0. n \in Nat \ {0} /\ n * SLAB_SIZE >= size
  BY NumSlabsEnough
<1>1. CASE at = {} /\ UNCHANGED <<slabs, areas, corrupt>>
  <2>1. lost' = lost /\ corrupt \in BOOLEAN
    BY DEF KmallocSlabs, KmallocInv, KmallocType
  <2>2. QED
    BY <1>1, <2>1, SlabsUntouched
<1>2. CASE /\ free_mem_size' = GivesBack(n)
           /\ corrupt' = ~(Run(Min(at), n) \subseteq Slab)
           /\ UNCHANGED <<free, allocations, areas>>
  <2>1. lost' = lost /\ ~corrupt
    BY DEF KmallocSlabs
  <2>2. UNCHANGED <<slabs, areas, lost>> /\ corrupt' \in BOOLEAN
    BY <1>2, <2>1 DEF slabs, GivesBack
  <2>3. QED
    BY <2>1, <2>2, SlabsUntouched
<1>3. CASE /\ at # {} /\ Fits(rest, 1) # {}
           /\ LET a == Min(at)  b == Min(Fits(rest, 1)) IN
              /\ free' = Take(rest, b, 1) \cap Slab
              /\ free_mem_size' = Minus(free_mem_size, n + 1)
              /\ allocations' = <<b>> \o allocations
              /\ areas' = areas \cup {[addr |-> a, n |-> n, size |-> size]}
              /\ corrupt' = ~(Run(a, n) \cup {b} \subseteq Slab)
  <2> DEFINE a == Min(at)
             b == Min(Fits(rest, 1))
  <2>1. free \cup ghosts \in SUBSET (Slab \cup Ghost)
    BY DEF KmallocInv, KmallocType
  <2>2. a \in free \cup ghosts /\ Run(a, n) \subseteq free \cup ghosts
    BY <1>0, <1>3, <2>1, FitsFacts
  <2>3. rest = (free \cup ghosts) \ Run(a, n) /\ rest \in SUBSET (Slab \cup Ghost)
    BY <2>1 DEF Take
  <2> HIDE DEF rest, at, n
  <2>4. b \in rest
    <3>1. Fits(rest, 1) # {} /\ 1 \in Nat \ {0}
      BY <1>3
    <3>2. QED
      BY <2>3, <3>1, FitsFacts
  <2>5. b \in Nat
    BY <2>3, <2>4, Numbers
  <2> HIDE DEF b
  <2>6. Take(rest, b, 1) = rest \ {b}
    <3>1. Run(b, 1) = {b}
      BY <2>5 DEF Run
    <3>2. QED
      BY <3>1 DEF Take
  <2>7. lost' = lost /\ ~corrupt
    BY DEF KmallocSlabs
  <2>8. /\ free' = (((free \cup ghosts) \ Run(a, n)) \ {b}) \cap Slab
        /\ free_mem_size' = Minus(free_mem_size, n + 1)
        /\ allocations' = <<b>> \o allocations
        /\ areas' = areas \cup {[addr |-> a, n |-> n, size |-> size]}
        /\ corrupt' = ~(Run(a, n) \cup {b} \subseteq Slab)
    BY <1>3, <2>3, <2>6 DEF b
  <2> HIDE DEF a
  <2>9. QED
    BY <1>0, <2>1, <2>2, <2>3, <2>4, <2>7, <2>8, AllocationKeeps
<1>4. QED
  BY <1>1, <1>2, <1>3 DEF KmallocSlabs

(* kfree finds no area in its list.                                         *)
LEMMA KfreeKeeps ==
    ASSUME KmallocInv, NEW a \in areas, KfreeArea(a)
    PROVE  KmallocInv'
<1> USE DEF KmallocInv
<1>0. ~FoundInList(<<"slab", a.addr>>)
  BY DEF FoundInList, NextPointers
<1>1. /\ ~corrupt /\ areas' = areas \ {a} /\ lost' = lost \cup Slabs(a)
      /\ UNCHANGED <<free, free_mem_size, allocations, corrupt>>
  BY <1>0 DEF KfreeArea
<1>2. KmallocType'
  BY <1>1 DEF KmallocType
<1>3. LargeEnough'
  BY <1>1 DEF LargeEnough
<1>4. SlabAccounts'
  <2>1. Records' = Records
    BY <1>1 DEF Records
  <2>2. UNION {Slabs(x) : x \in areas} = (UNION {Slabs(x) : x \in areas'}) \cup Slabs(a)
    BY <1>1
  <2>3. Slab = free' \cup (UNION {Slabs(x) : x \in areas'}) \cup Records' \cup lost'
    BY <1>1, <2>1, <2>2 DEF SlabAccounts
  <2>4. \A x, y \in areas' : x # y => Slabs(x) \cap Slabs(y) = {}
    BY <1>1 DEF SlabAccounts
  <2>5. ASSUME NEW x \in areas' PROVE Slabs(x) \cap (free' \cup Records' \cup lost') = {}
    <3>1. x \in areas /\ x # a
      BY <1>1
    <3>2. Slabs(x) \cap Slabs(a) = {} /\ Slabs(x) \cap (free \cup Records \cup lost) = {}
      BY <1>1, <3>1 DEF SlabAccounts
    <3>3. QED
      BY <1>1, <2>1, <3>2
  <2>6. free' \cap (Records' \cup lost') = {} /\ Records' \cap lost' = {}
    <3>1. Slabs(a) \cap (free \cup Records \cup lost) = {}
      BY <1>1 DEF SlabAccounts
    <3>2. free \cap (Records \cup lost) = {} /\ Records \cap lost = {}
      BY <1>1 DEF SlabAccounts
    <3>3. QED
      BY <1>1, <2>1, <3>1, <3>2
  <2>7. /\ \A i, j \in DOMAIN allocations' : allocations'[i] = allocations'[j] => i = j
        /\ free_mem_size' = SLAB_SIZE * Cardinality(free')
    BY <1>1 DEF SlabAccounts
  <2>8. QED
    BY <2>3, <2>4, <2>5, <2>6, <2>7 DEF SlabAccounts
<1>5. QED
  BY <1>2, <1>3, <1>4

LEMMA NextKmalloc == KmallocInv /\ [Next]_vars => KmallocInv'
<1> SUFFICES ASSUME KmallocInv, [Next]_vars PROVE KmallocInv'
  OBVIOUS
<1>1. ASSUME NEW size \in 1..PG_SIZE, KmallocPage(size) PROVE KmallocInv'
  BY <1>1, PallocKeeps DEF KmallocPage
<1>2. ASSUME CallPalloc PROVE KmallocInv'
  BY <1>2, PallocKeeps DEF CallPalloc
<1>3. CASE UNCHANGED vars
  <2>1. UNCHANGED <<slabs, areas, lost>> /\ corrupt' = corrupt /\ corrupt \in BOOLEAN
    BY <1>3 DEF vars, KmallocInv, KmallocType
  <2>2. QED
    BY <2>1, SlabsUntouched
<1>4. QED
  BY <1>1, <1>2, <1>3, KmallocSlabsKeeps, KfreeKeeps, FreePageKeeps DEF Next

-----------------------------------------------------------------------------
(* Until an allocation runs past the table or a page of the pool is handed  *)
(* out, no slab is in two allocations or both used and free, none is        *)
(* forgotten, and free_mem_size, on which kmalloc decides between slabs and *)
(* a page, counts the free ones exactly and never wraps.                    *)
THEOREM SlabsAreAccounted == Spec => []SlabAccounts
<1>1. KmallocInv => SlabAccounts
  BY DEF KmallocInv
<1>2. QED
  BY <1>1, InitKmalloc, NextKmalloc, PTL DEF Spec

(* kmalloc hands out at least the size asked for, because a page is at most *)
(* SLAB_SIZE slabs: rounding the rounded-down quotient up to a multiple of  *)
(* the slab size makes up for what the division dropped.                    *)
THEOREM AreasAreLargeEnough == Spec => []LargeEnough
<1>1. KmallocInv => LargeEnough
  BY DEF KmallocInv
<1>2. QED
  BY <1>1, InitKmalloc, NextKmalloc, PTL DEF Spec
=============================================================================
