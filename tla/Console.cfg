SPECIFICATION FairSpec
CONSTANTS
    Letter = {"a"}
    STD_STREAM_SIZE = 3
    LINE_BUFFER_SIZE = 4
    CLEARED_BYTES = 2
CHECK_DEADLOCK FALSE
INVARIANT RingIsQueue
INVARIANT CopyIsTerminated
INVARIANT LineIsAsEdited
 
