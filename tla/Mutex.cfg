SPECIFICATION FairSpec
CONSTANTS
    Threads = {t1, t2, t3}
    Nobody = nobody
INVARIANTS MutualExclusion NoLostWakeup
PROPERTIES WaitersAreWoken ImplementsLock
