SPECIFICATION FairSpec
CONSTANTS
    SigCap = 2
    TxMax = 2
    Procs = {a, b}
    First = a
    Tids = {0}
    Laps = 3
    MaxLen = 3
PROPERTIES CallsReturn EndIsSeen ImplementsChannel
CHECK_DEADLOCK FALSE
