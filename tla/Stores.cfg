SPECIFICATION Spec
CONSTANTS
    Procs = {p1, p2}
    First = p1
    Kernel = kernel
    Template = template
    Staging = staging
    Spaces = {p1, p2, kernel, template, staging}
    NumFree = 10
    NumPages = 6
    TableSize = 2
    MaxRefs = 2
    Page = 6
    HeapPages = 4
    Cutoff = 4
    SmallAmt = 1
    LargeAmt = 1
    Requests = {1, 4, 7}
    MaxHeld = 4
    MaxCap = 5
    StartCap = 2
    Values = {1, 2, 3, 4, 5, 6}
    Sleepers = {t1, t2, t3}
    Clock = 4
    MaxLate = 2
    NumSectors = 3
    Pieces = {lower, upper}
    Bytes = {x, y}
    Entries = {e1, e2}
    Faults = {"write"}
    NumSlots = 6
    MaxLen = 3
    SlotsPerSector = 4
    PerCluster = 3
    Names = {"a", "b"}
    NameParts <- Parts
    Root = 2
    MaxSize = 3
    SectorSize = 3
    SectorsPerCluster = 2
    Clusters <- OutOfOrder
    FileSize = 16
    Offsets <- AllOffsets
    Lengths <- AllLengths
    CountValues = 256
SYMMETRY Symmetry
INVARIANTS FramesAreHeld HeapIsSound IdsAreNotShared TreeIsOrdered SleepersAreOnTime VolumeIsSound ChainsSurviveFaults StepsAreOperators BytesInPlace
PROPERTIES KernelKeepsRanges Transparent ImplementsTree
CHECK_DEADLOCK FALSE
