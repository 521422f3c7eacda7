SPECIFICATION FairSpec
CONSTANTS
    Thread = {t1, t2}
    NumPages = 4
    ELEM_BITS = 2
    Reserved = 1
    MaxCnt = 2
INVARIANT MutualExclusion
INVARIANT NoOverlap
INVARIANT MapAccounts
INVARIANT NullMeansFull
PROPERTY LockIsReleased
