SPECIFICATION Spec
CONSTANTS
    Procs = {root, a, b, c}
    Root = root
    NULL = none
    Tids = {0}
    Sigs = {0}
    CHLD = 0
    BadSigs = {32}
    MaxSleep = 0
SYMMETRY Symmetry
INVARIANTS FamilyOK RootIsElder KnownPanics
