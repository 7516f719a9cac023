SPECIFICATION ReapersSpec
CONSTANTS
    Procs = {root, a, b}
    Root = root
    NULL = none
    Tids = {0}
    Sigs = {0}
    CHLD = 0
    BadSigs = {}
    MaxSleep = 0
SYMMETRY Symmetry
INVARIANTS ReapersHear
