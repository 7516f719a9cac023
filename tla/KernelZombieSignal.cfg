SPECIFICATION Spec
CONSTANTS
    Procs = {root, a}
    Root = root
    NULL = none
    Tids = {0}
    Sigs = {0}
    CHLD = 0
    BadSigs = {}
    MaxSleep = 0
INVARIANTS ExitOnlyOnce
