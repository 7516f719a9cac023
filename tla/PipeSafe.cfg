SPECIFICATION Spec
CONSTANTS
    SigCap = 2
    TxMax = 2
    Procs = {a, b}
    First = a
    Tids = {0, 1}
    Laps = 3
    MaxLen = 1
INVARIANTS WaitersHaveCause EndIsFinal
CHECK_DEADLOCK FALSE
