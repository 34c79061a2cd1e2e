SPECIFICATION Spec
CONSTANTS
    Reqs = {r1, r2}
    c1 = c1
    c2 = c2
    u1 = u1
    u2 = u2
    Clients <- MCClients
    Uris <- MCUris
    RedirectOf <- MCRedirectOf
    Dns = {d1, d2}
    Names = {alice}
    Passwords = {p1}
    CodeTtl = 1
    TokenTtl = 1
    Nobody = Nobody
    NoEntry = NoEntry
    MaxCodes = 1
    MaxTime = 2
    MaxRev = 3
    MaxEpoch = 2
SYMMETRY Symmetry
CHECK_DEADLOCK FALSE
PROPERTY ImplementsGrant
INVARIANT HonouredInTime
INVARIANT ClaimsFresh
INVARIANT SubjectIsWhoLoggedIn
PROPERTY OnlyLiveTokensAnswered
