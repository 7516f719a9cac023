SPECIFICATION Spec
CONSTANTS
    Procs = {p1, p2}
    First = p1
    Tids = {0, 1}
    Sems = {s1}
    MaxPasses = 1
INVARIANTS WaitingIsInQueue
CHECK_DEADLOCK FALSE
