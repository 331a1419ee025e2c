\* Finding: a stalled accept undoes the reminder its retry was accepted with.
SPECIFICATION SettledSpec
CONSTANTS
    c1 = c1
    c2 = c2
    a1 = a1
    a2 = a2
    r1 = r1
    k1 = k1
    s1 = s1
    f1 = f1
    f2 = f2
    None = None
    Creates = {c1}
    Accepts = {a1, a2}
    Rejects = {}
    Cancels = {}
    Sweeps = {}
    Removes = {}
    FireAt = 3
    StaleAfter = 1
    MaxTime = 2
    MaxFriendships = 1
    MaxFaults = 0
INVARIANTS
    AcceptedRemindersLive
CHECK_DEADLOCK FALSE
