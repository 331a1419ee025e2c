\* Finding: a retry that is stamped later is refused as a conflicting message.
SPECIFICATION NSpec
CONSTANTS
    e1 = e1
    e2 = e2
    d1 = d1
    d2 = d2
    k1 = k1
    k2 = k2
    t1 = t1
    t2 = t2
    None = None
    Requests = {e1, d1}
    Enqueues = {e1}
    Drains = {d1}
    Conversations = {k1}
    Targets = {t1}
    Stamps = {0, 1}
    MaxFaults = 1
    MaxCrashes = 0
    MaxLosses = 0
PROPERTIES
    RetryNotRefused
CHECK_DEADLOCK FALSE
