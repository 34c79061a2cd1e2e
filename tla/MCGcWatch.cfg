\* The directory settles after MaxWrites changes.
CHECK_DEADLOCK FALSE
SPECIFICATION FairSpec
CONSTANTS
    Base = base
    Names = {x, y}
    Attrs = {pw}
    Whitelist = {}
    Absent = Absent
    MaxWrites = 4
    MaxDrops = 2
    MaxBatch = 2
INVARIANTS
    CaughtUp
    ReadyMeansLoaded
PROPERTIES
    PutsArrive
