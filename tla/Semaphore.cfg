SPECIFICATION Spec
CONSTANTS
    Thread = {t1, t2, t3}
    NULL = NULL
    Node <- AllNodes
    InitVal = 1
    MaxCalls = 5
    MaxKills = 1
INVARIANT UnitsBalance
PROPERTY CallsReturn
CHECK_DEADLOCK FALSE
