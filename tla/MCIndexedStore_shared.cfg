SPECIFICATION Spec
CONSTANTS
    p1 = p1
    p2 = p2
    cn = cn
    sam = sam
    Procs = {p1, p2}
    Names = {n1}
    Casings = {lower, upper}
    Attrs = {cn, sam}
    Values = {v1}
    Absent = Absent
    SpecOf <- MCSpecOf
INVARIANTS
    LookupNeverMisses
    SoleWriterMirrored
