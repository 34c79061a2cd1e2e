\* The directory settles after MaxWrites changes.
CHECK_DEADLOCK FALSE
SPECIFICATION FairSpec
CONSTANTS
    Base = base
    Names = {x, y}
    Attrs = {pw}
    Whitelist = {}
    Absent = Absent
    MaxWrites = 3
    MaxDrops = 2
    MaxBatch = 1
PROPERTIES
    EventuallyConsistent
