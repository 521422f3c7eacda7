SPECIFICATION Spec
CONSTANTS
    BootT = BootT
    IdleT = IdleT
    ShellT = ShellT
    CmdThread = {c1, c2}
    InitP = InitP
    ShellP = ShellP
    CmdProc = {p1, p2}
    NULL = NULL
    MAX_THREAD_TICKS = 1
    MAX_NUM_THREADS = 2
    MaxTicks = 1
    MaxCmds = 1
    MaxCalls = 4
    ShellCalls = {"wait", "kill"}
    Calls = {"create", "wait", "kill", "exit", "yield"}
SYMMETRY Symmetry
CHECK_DEADLOCK FALSE
INVARIANT NoFreedThread
INVARIANT WaitsForDeath
INVARIANT ThreadsInHand
PROPERTY FreesDeadThreads
