\* The bounds on time, tickets and edits, not the system, stop a behaviour.
SPECIFICATION KrbSpec
CHECK_DEADLOCK FALSE
CONSTANTS
    child = child
    parent = parent
    alice = alice
    bob = bob
    Realms = {child, parent}
    Users = {alice, bob}
    Administrator = alice
    Managed <- MCManaged
    ChangePw = ChangePw
    Neighbours <- MCNeighbours
    Trusts <- MCTrusts
    Trusted <- MCTrusts
    Clients <- MCClients
    Wanted <- MCWanted
    Passwords = {0}
    Secrets = {0, 1}
    Lifetime = 1
    ChangePwLife = 0
    Skew = 1
    MaxDrift = 1
    MaxTime = 2
    MaxLogins = 1
    MaxTickets = 3
    MaxEdits = 2
    MaxServing = 1
    Absent = Absent
    NoKey = NoKey
    NoPac = NoPac
    NameSalt = NameSalt
INVARIANTS
    Descends
    OwnPasswordFresh
    ForeignersChangeNothing
    ReferralsOpen
PROPERTIES
    PacOfRequest
