SPECIFICATION Spec
CONSTANTS
    Lines = {0, 1, 5, 8, 14}
    MaxRequests = 4
    MaxTestRequests = 1
    R_FREQ = 100
    Builds = {TRUE, FALSE}
    Writer = {kmain, thread}
    kmain = kmain
    Length = 2
    MaxReceived = 1
    SERIAL_TIMEOUT = 1
    FIFO = 2
INVARIANT ReadyForInterrupts
INVARIANT SerialInOrder
PROPERTY RequestsAreServed
CHECK_DEADLOCK FALSE
