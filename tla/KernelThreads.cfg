SPECIFICATION Spec
CONSTANTS
    Procs = {root, a}
    Root = root
    NULL = none
    Tids = {0, 1}
    Sigs = {0, 1}
    CHLD = 0
    BadSigs = {}
    MaxSleep = 1
INVARIANTS OnePlace DeadAreQuiet PendingAllowed NoMissedSignal
