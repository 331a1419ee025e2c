\* The first attempt and its retries overlap; routes, channels and sends fail.
SPECIFICATION NSpec
CONSTANTS
    e1 = e1
    e2 = e2
    d1 = d1
    d2 = d2
    k1 = k1
    k2 = k2
    t1 = t1
    t2 = t2
    None = None
    Requests = {e1, d1, d2}
    Enqueues = {e1}
    Drains = {d1, d2}
    Conversations = {k1}
    Targets = {t1, t2}
    Stamps = {0, 1}
    MaxFaults = 1
    MaxCrashes = 1
    MaxLosses = 1
INVARIANTS
    OneDeliverer
    SameMessage
    AnswersTrue
    PendingOwned
    SentOnce
    DeliveredTruthful
    SuccessIsRecorded
PROPERTIES
    SuccessFinal
SYMMETRY Alike
CHECK_DEADLOCK FALSE
