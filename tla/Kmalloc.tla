------------------------------ MODULE Kmalloc -------------------------------
(***************************************************************************)
(* kmalloc and kfree of kernel/kalloc.c over the slab allocator of         *)
(* libk/slab.c, beside palloc and pfree, from which the slab allocator     *)
(* has its memory.                                                         *)
(*                                                                         *)
(* kmalloc and kfree hold malloc_lock while they work, so a call is one    *)
(* step; module Palloc has the detail of the lock and of the page map.     *)
(*                                                                         *)
(* The table of slabs has SLABS entries, but slab_alloc takes the whole    *)
(* pool for the table: it goes on into memory that holds anything, whose   *)
(* first entries are called ghosts here.  Whether a ghost reads as free is *)
(* chosen at every call.  Calls are not followed beyond the point where an *)
(* allocation has reached a ghost or a page of the pool belongs to two.    *)
(***************************************************************************)
EXTENDS Integers, Sequences, FiniteSets, FiniteSetsExt

CONSTANTS
    SLABS,       \* entries slab_init writes
    GHOSTS,      \* bound: entries past them that a search reads
    SLAB_SIZE,   \* bytes in a slab
    PG_SIZE,     \* bytes in a page
    FIRST_PAGE,  \* the page at which the pool begins
    TABLE_SIZE,  \* bytes of the pool in front of the first slab
    NUM_PAGES,   \* bits in the page map
    WORD         \* values of a size_t

ASSUME KmallocAssumption ==
    /\ SLABS \in Nat \ {0} /\ GHOSTS \in Nat /\ WORD \in Nat \ {0}
    /\ SLAB_SIZE \in Nat \ {0} /\ PG_SIZE \in Nat \ {0} /\ NUM_PAGES \in Nat \ {0}
    /\ FIRST_PAGE \in Nat /\ TABLE_SIZE \in Nat
    /\ SLABS * SLAB_SIZE < WORD
    /\ PG_SIZE <= SLAB_SIZE * SLAB_SIZE    \* 4096 and 64

Slab  == 0..(SLABS - 1)
Ghost == SLABS..(SLABS + GHOSTS - 1)
Page  == 0..(NUM_PAGES - 1)

PageAt(offset) == FIRST_PAGE + offset \div PG_SIZE
PageOf(i) == PageAt(TABLE_SIZE + i * SLAB_SIZE)
Pool == FIRST_PAGE..PageOf(SLABS - 1)

Run(i, n) == i..(i + n - 1)
Area == [addr : Slab \cup Ghost, n : Nat, size : 1..PG_SIZE]
Slabs(a) == Run(a.addr, a.n)

VARIABLES
    free,           \* the slabs whose free field is true
    free_mem_size,  \* of the slab allocator
    allocations,    \* the list of struct allocation, each by its slab
    marked,         \* the pages whose bit is 1
    areas,          \* history: what callers have from kmalloc, in slabs
    pages,          \* history: what callers have from palloc
    lost,           \* history: the slabs of areas given to kfree
    corrupt         \* history: an allocation has reached the ghosts, or a page of
                    \* the pool was handed out, to be overwritten

slabs == <<free, free_mem_size, allocations>>
vars  == <<slabs, marked, areas, pages, lost, corrupt>>

(* init_alloc: the page map, and slab_init on pages of palloc_mult.         *)
Init ==
    /\ free = Slab /\ free_mem_size = SLABS * SLAB_SIZE /\ allocations = <<>>
    /\ marked = 0..PageOf(SLABS - 1)
    /\ areas = {} /\ pages = {} /\ lost = {} /\ corrupt = FALSE

-----------------------------------------------------------------------------
(* ROUND_UP(x, size) and the number of slabs kmalloc asks for: the quotient *)
(* is rounded up to a multiple of the size of a slab.                       *)
RoundUp(x, size) == ((x + size - 1) \div size) * size

Quotient(size) ==     \* mutant: rounded down
    IF size < SLAB_SIZE THEN 1 ELSE size \div SLAB_SIZE
NumSlabs(size) ==
    LET n == RoundUp(size \div SLAB_SIZE, SLAB_SIZE) IN IF n = 0 THEN 1 ELSE n

(* slab_alloc: the first place where n entries in a row read as free, ghosts*)
(* included, is taken.                                                      *)
Fits(set, n) == {i \in set : Run(i, n) \subseteq set}

TakeFirst(set, i, n) == set \ {i}     \* mutant: marks the first entry only
Take(set, i, n) == set \ Run(i, n)

(* palloc: the first page that is not marked.                               *)
Palloc ==
    \/ /\ marked = Page
       /\ UNCHANGED <<marked, pages, corrupt>>
    \/ /\ marked # Page
       /\ LET p == Min(Page \ marked) IN
          /\ marked' = marked \cup {p}
          /\ pages' = pages \cup {p}
          /\ corrupt' = (corrupt \/ p \in Pool)

(* kmalloc(size): a page if the slabs left are too few; else the slabs, one *)
(* more for the record, and the record in the list.  If there is no record  *)
(* the slabs are given back (slab_free).                                    *)
NoSlabsLeft(size) == RoundUp(size, SLAB_SIZE) > free_mem_size

Minus(x, n) == (x - n * SLAB_SIZE) % WORD

KeepsSlabs(n) == Minus(free_mem_size, n)  \* mutant: they are not counted again
GivesBack(n) == free_mem_size

KmallocPage(size) ==
    /\ ~corrupt /\ NoSlabsLeft(size)
    /\ Palloc
    /\ UNCHANGED <<slabs, areas, lost>>

KmallocSlabs(size, ghosts) ==
    LET n == NumSlabs(size)
        at == Fits(free \cup ghosts, n)
        rest == Take(free \cup ghosts, Min(at), n)
    IN  /\ ~corrupt /\ ~NoSlabsLeft(size)
        /\ \/ /\ at = {}
              /\ UNCHANGED <<slabs, areas, corrupt>>
           \/ /\ at # {} /\ Fits(rest, 1) = {}
              /\ free_mem_size' = GivesBack(n)
              /\ corrupt' = ~(Run(Min(at), n) \subseteq Slab)
              /\ UNCHANGED <<free, allocations, areas>>
           \/ /\ at # {} /\ Fits(rest, 1) # {}
              /\ LET a == Min(at)  b == Min(Fits(rest, 1)) IN
                 /\ free' = Take(rest, b, 1) \cap Slab
                 /\ free_mem_size' = Minus(free_mem_size, n + 1)
                 /\ allocations' = <<b>> \o allocations
                 /\ areas' = areas \cup {[addr |-> a, n |-> n, size |-> size]}
                 /\ corrupt' = ~(Run(a, n) \cup {b} \subseteq Slab)
        /\ UNCHANGED <<marked, pages, lost>>

(* pfree(addr), for an address in page p.                                   *)
Unmark(p) == IF p + 1 < NUM_PAGES THEN marked \ {p} ELSE marked

(* kfree(addr): the search takes the first member of a record at the        *)
(* address of its list node, that is, the node's next pointer, for the      *)
(* address of the allocation.  Those pointers lead to nodes inside records  *)
(* and to the tail of the list, never to an allocation, so every address    *)
(* goes to pfree.                                                           *)
NextPointers ==
    {<<"node", allocations[i]>> : i \in 1..Len(allocations)} \cup {<<"tail", 0>>}
FoundInList(addr) == addr \in NextPointers

KfreeArea(a) ==
    /\ ~corrupt
    /\ areas' = areas \ {a}
    /\ IF FoundInList(<<"slab", a.addr>>)
       THEN /\ free' = free \cup Slabs(a)
            /\ free_mem_size' = (free_mem_size + a.n * SLAB_SIZE) % WORD
            /\ UNCHANGED <<marked, lost>>
       ELSE /\ marked' = Unmark(PageOf(a.addr))
            /\ lost' = lost \cup Slabs(a)
            /\ UNCHANGED <<free, free_mem_size>>
    /\ UNCHANGED <<allocations, pages, corrupt>>

(* pfree, and kfree of what kmalloc took from palloc.                       *)
FreePage(p) ==
    /\ pages' = pages \ {p}
    /\ marked' = Unmark(p)
    /\ UNCHANGED <<slabs, areas, lost, corrupt>>

CallPalloc == Palloc /\ UNCHANGED <<slabs, areas, lost>>

Next ==
    \/ \E size \in 1..PG_SIZE :
         KmallocPage(size) \/ \E ghosts \in SUBSET Ghost : KmallocSlabs(size, ghosts)
    \/ \E a \in areas : KfreeArea(a)
    \/ \E p \in pages : FreePage(p)
    \/ CallPalloc

Spec == Init /\ [][Next]_vars

-----------------------------------------------------------------------------
Records == {allocations[i] : i \in 1..Len(allocations)}

(* slab_alloc and slab_free: until an allocation runs past the table or a   *)
(* page of the pool is handed out, every slab is free, in exactly one       *)
(* allocation, in one record of the list, or in memory that was given to    *)
(* kfree, which never comes back; and free_mem_size, on which kmalloc       *)
(* decides between slabs and a page, is the size of the free ones.          *)
SlabAccounts ==
    ~corrupt =>
        /\ Slab = free \cup (UNION {Slabs(a) : a \in areas}) \cup Records \cup lost
        /\ \A a, b \in areas : a # b => Slabs(a) \cap Slabs(b) = {}
        /\ \A a \in areas : Slabs(a) \cap (free \cup Records \cup lost) = {}
        /\ free \cap (Records \cup lost) = {} /\ Records \cap lost = {}
        /\ \A i, j \in DOMAIN allocations : allocations[i] = allocations[j] => i = j
        /\ free_mem_size = SLAB_SIZE * Cardinality(free)

(* kmalloc: an area of at least the size asked for, up to a page.           *)
LargeEnough == \A a \in areas : a.n * SLAB_SIZE >= a.size
=============================================================================
