SPECIFICATION FairSpec
CONSTANTS
    Procs = {root}
    Root = root
    NULL = none
    Tids = {0, 1, 2}
    Sigs = {0}
    CHLD = 0
    BadSigs = {}
    MaxSleep = 2
INVARIANTS NoMissedJoin SleepersInOrder
PROPERTIES EveryThreadRuns SleepersWake
