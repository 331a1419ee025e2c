\* Finding: a request inserted while its friendship is being removed stays pending.
SPECIFICATION Spec
CONSTANTS
    c1 = c1
    c2 = c2
    a1 = a1
    a2 = a2
    r1 = r1
    k1 = k1
    s1 = s1
    f1 = f1
    f2 = f2
    None = None
    Creates = {c1}
    Accepts = {}
    Rejects = {}
    Cancels = {}
    Sweeps = {}
    Removes = {f1}
    FireAt = 1
    StaleAfter = 1
    MaxTime = 0
    MaxFriendships = 1
    MaxFaults = 0
INVARIANTS
    RemovalLeavesNonePending
CHECK_DEADLOCK FALSE
