\* The request is answered while it is being created, and the create is retried.
SPECIFICATION Spec
CONSTANTS
    c1 = c1
    c2 = c2
    a1 = a1
    a2 = a2
    r1 = r1
    k1 = k1
    s1 = s1
    f1 = f1
    f2 = f2
    None = None
    Creates = {c1, c2}
    Accepts = {a1}
    Rejects = {r1}
    Cancels = {}
    Sweeps = {}
    Removes = {}
    FireAt = 2
    StaleAfter = 1
    MaxTime = 2
    MaxFriendships = 1
    MaxFaults = 1
INVARIANTS
    NoOrphans
PROPERTIES
    KeepsPromise
CHECK_DEADLOCK FALSE
