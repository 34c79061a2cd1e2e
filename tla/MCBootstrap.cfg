\* Members stay resident once done, and administrators run out of commands.
CHECK_DEADLOCK FALSE
SPECIFICATION FairSpec
CONSTANTS
    Admins = {a1}
    Children = {c1}
    Root = root
    Targets = {root}
    Absent = Absent
    MaxSids = 5
    MaxRuns = 2
    Members = {m1, m2}
INVARIANTS
    OneSid
    RootLast
    SubordinatesExist
    LinksKept
PROPERTIES
    Provisioned
