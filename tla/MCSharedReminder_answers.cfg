\* Every kind of answer races on a settled request; no claim can become stale.
SPECIFICATION SettledSpec
CONSTANTS
    c1 = c1
    c2 = c2
    a1 = a1
    a2 = a2
    r1 = r1
    k1 = k1
    s1 = s1
    f1 = f1
    f2 = f2
    None = None
    Creates = {c1}
    Accepts = {a1, a2}
    Rejects = {r1}
    Cancels = {k1}
    Sweeps = {s1}
    Removes = {}
    FireAt = 1
    StaleAfter = 1
    MaxTime = 1
    MaxFriendships = 1
    MaxFaults = 2
INVARIANTS
    ReplyTruthful
    AcceptedRemindersLive
CHECK_DEADLOCK FALSE
