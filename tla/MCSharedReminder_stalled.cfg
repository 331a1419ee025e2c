\* Calls outlive their claims: the clock passes StaleAfter while they run.
SPECIFICATION SettledSpec
CONSTANTS
    c1 = c1
    c2 = c2
    a1 = a1
    a2 = a2
    r1 = r1
    k1 = k1
    s1 = s1
    f1 = f1
    f2 = f2
    None = None
    Creates = {c1}
    Accepts = {a1, a2}
    Rejects = {r1}
    Cancels = {}
    Sweeps = {s1}
    Removes = {}
    FireAt = 2
    StaleAfter = 1
    MaxTime = 3
    MaxFriendships = 1
    MaxFaults = 1
INVARIANTS
    AuditAgrees
    DeclinedCancelled
PROPERTIES
    ClaimExcludes
CHECK_DEADLOCK FALSE
