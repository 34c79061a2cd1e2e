\* No operation begins after MaxOps: the bound, not the system, stops there.
CHECK_DEADLOCK FALSE
SPECIFICATION DirSpec
CONSTANTS
    l1 = l1
    l2 = l2
    k1 = k1
    r1 = r1
    c1 = c1
    top = top
    leaf = leaf
    Ldap = {l1, l2}
    Kdc = {k1}
    Rpc = {r1}
    Ctl = {c1}
    Procs = {l1, l2, k1, r1, c1}
    Names = {top, leaf}
    Casings = {lower, upper}
    Attrs = {"cn", "sam", "princ", "sid"}
    Values <- MCValues
    Below <- MCBelow
    Written <- MCWritten
    SpecOf <- MCSpecOf
    Absent = Absent
    MaxRids = 2
    MaxOps = 3
INVARIANTS
    NothingLost
    SidOnlyByMove
    GoneForGood
    AccountsFindable
    IndexExact
SYMMETRY Symmetry
