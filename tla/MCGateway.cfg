SPECIFICATION MCSpec
CONSTANTS
    None = None
    i1 = i1  i2 = i2  i3 = i3  i4 = i4
    s1 = s1  s2 = s2  s3 = s3
    a1 = a1  a2 = a2  p1 = p1  p2 = p2
    x1 = x1  x2 = x2
    Messages = {i1, i2}  Textless = {i2}  Replays = {h1, h2}
    MaxRefusals = 2  MaxDeaths = 1  MaxParked = 3
    Accounts = {a1, a2}  Places = {p1, p2}  Local <- TheLocal
    Keys = {x1, x2}  Binders = {h1, h2}
    Senders = {s1, s2, s3}  Receipted = {s2}  Blacklisted = {s3}
    ClawscaleUsers = {a1, a2}  OwnerOf <- TheOwners
    Incoming = {i1, i2, i3, i4}  From <- TheFrom  Forms <- TheForms  Says <- TheSays
    Handlers = {h1, h2}  MaxDeliveries = 3
    Requests = {h1, h2}  MaxRows = 2  MaxBots = 2  MaxCrashes = 1
    Linq = {s1}  Evolution = {x1, x2}  Ecloud = {}  Instances = {a1}
    Operators = {h1, h2}  MaxHooks = 2  MaxMishaps = 1
    Admins = {x1, x2, s1, s2}  Deleters = {h1, h2}  MaxAttempts = 2
    EndUsers = {p1, p2}  Recovering = {p1}  Personal = {p1}  Tasks = {h1, h2}  Keepers = {h1, h2}
    Writings <- TheWritings  MaxUpdates = 3  MaxPollFaults = 1
    HistoryLimit = 1  MaxAsked = 2  MaxBackends = 3
SYMMETRY Symmetry
CONSTRAINTS NotRaced NotMixed FewFaults FewRows FewBound FewTied FewSetUps OneDoubtful
INVARIANTS
    GatewayTypeOK
    NothingStranded HandledProvisionedOnce RepliesHold
    OwnerAgrees RouteLeadsHome
    MessagesAccounted NoStrangersHistory
    NoStrayBot SettledAgrees
    ProviderAgrees LastAdminStays
CHECK_DEADLOCK FALSE
