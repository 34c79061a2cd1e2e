SPECIFICATION Spec
CONSTANTS
    m1 = m1
    m2 = m2
    n1 = n1
    n2 = n2
    Machines = {m1, m2}
    Visitors = {v}
    Names = {n1, n2}
    Other = Other
    Absent = Absent
    None = None
    Plans <- MCPlans
    Contested = {n1}
    Bindings <- MCBindings
    MaxEvents = 3
INVARIANT AnsweredByAccepted
INVARIANT NoSpuriousFailure
INVARIANT OneJoinPerAccount
INVARIANT JoinedAsReported
PROPERTY EveryJoinEnds
CHECK_DEADLOCK FALSE
