SPECIFICATION FairSpec
CONSTANTS
    BootT = BootT
    IdleT = IdleT
    ShellT = ShellT
    CmdThread = {c1, c2}
    InitP = InitP
    ShellP = ShellP
    CmdProc = {p1, p2}
    NULL = NULL
    MAX_THREAD_TICKS = 1
    MAX_NUM_THREADS = 2
    MaxTicks = 2
    MaxCmds = 1
    MaxCalls = 0
    ShellCalls = {"wait"}
    Calls = {}
CHECK_DEADLOCK FALSE
PROPERTY ProcWaitReturns
