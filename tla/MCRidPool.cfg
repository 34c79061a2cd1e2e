SPECIFICATION FairSpec
CONSTANTS
    Procs = {p1, p2, p3}
    First = 2
    Width = 5
    Absent = Absent
INVARIANTS
    RidNeverReused
PROPERTIES
    StarvedOnlyByWinners
