SPECIFICATION Spec
CONSTANTS
    SLABS = 6
    GHOSTS = 2
    SLAB_SIZE = 2
    PG_SIZE = 4
    FIRST_PAGE = 1
    TABLE_SIZE = 4
    NUM_PAGES = 8
    WORD = 256
INVARIANT SlabAccounts
INVARIANT LargeEnough
