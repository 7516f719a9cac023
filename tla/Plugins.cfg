SPECIFICATION Spec
CONSTANTS
    Procs = {p1, p2}
    First = p1
    Tids = {0, 1}
    Sems = {s1, s2}
    MaxPasses = 2
    Addrs = {a1, a2}
    Hids = {h1}
    Size = 4
    Laps = 8
    Win = {w1, w2}
    Rows = 1
    Cols = 2
    EqCap = 1
    Nodes = {r, x, y}
    Root = r
    Names = {"a"}
    MaxSize = 2
    Sharing = FALSE
SYMMETRY Symmetry
INVARIANTS PassesConserved WaitersAreRight FutexWaitersAreRight KeysAreReadInOrder WindowsAreRight UsedNodesStay WaitersAreAtTheEnd
CHECK_DEADLOCK FALSE
