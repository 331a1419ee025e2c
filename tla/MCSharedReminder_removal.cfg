\* The friendship is removed, twice, and renewed, under answers in flight.
SPECIFICATION SettledFairSpec
CONSTANTS
    c1 = c1
    c2 = c2
    a1 = a1
    a2 = a2
    r1 = r1
    k1 = k1
    s1 = s1
    f1 = f1
    f2 = f2
    None = None
    Creates = {c1}
    Accepts = {a1}
    Rejects = {r1}
    Cancels = {}
    Sweeps = {}
    Removes = {f1, f2}
    FireAt = 1
    StaleAfter = 1
    MaxTime = 0
    MaxFriendships = 2
    MaxFaults = 1
INVARIANTS
    TypeOK
    NoPendingUnderRemoved
    RemovalCleansUp
PROPERTIES
    CallsFinish
CHECK_DEADLOCK FALSE
