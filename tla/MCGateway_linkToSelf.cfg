SPECIFICATION MCSpec
CONSTANTS
    None = None
    i1 = i1  i2 = i2  i3 = i3  i4 = i4
    s1 = s1  s2 = s2  s3 = s3
    a1 = a1  a2 = a2  p1 = p1  p2 = p2
    x1 = x1  x2 = x2
    Messages = {i1}  Textless = {}  Replays = {}
    MaxRefusals = 0  MaxDeaths = 0  MaxParked = 0
    Accounts = {a1, a2}  Places = {p1, p2}  Local <- TheLocal
    Keys = {}  Binders = {}
    Senders = {s1, s2}  Receipted = {}  Blacklisted = {}
    ClawscaleUsers = {}  OwnerOf <- NoOwners
    Incoming = {i1, i2}  From <- LinkingFrom  Forms <- TheForms  Says <- LinkingSays
    Handlers = {h1}  MaxDeliveries = 4
    Requests = {}  MaxRows = 0  MaxBots = 0  MaxCrashes = 0
    Linq = {s1}  Evolution = {}  Ecloud = {}  Instances = {}
    Operators = {}  MaxHooks = 0  MaxMishaps = 0
    Admins = {x1}  Deleters = {}  MaxAttempts = 1
    EndUsers = {}  Recovering = {}  Personal = {}  Tasks = {}  Keepers = {}
    Writings <- TheWritings  MaxUpdates = 1  MaxPollFaults = 1
    HistoryLimit = 1  MaxAsked = 0  MaxBackends = 2
INVARIANT NotOwnPrimary
CHECK_DEADLOCK FALSE
