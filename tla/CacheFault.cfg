SPECIFICATION CacheSpec
CONSTANTS
    NumSectors = 3
    Pieces = {lower, upper}
    Bytes = {x, y}
    Entries = {e1, e2}
    Faults = {"read"}
PROPERTIES Transparent
CHECK_DEADLOCK FALSE
