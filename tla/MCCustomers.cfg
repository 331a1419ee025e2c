SPECIFICATION MCSpec
CONSTANTS
    None = None
    s1 = s1  s2 = s2  a1 = a1  a2 = a2  p1 = p1
    x1 = x1  x2 = x2
    Identities = {a1, a2}  Provisioned = {a2}  Emails = {x1, x2}  Clerks = {h1, h2}
    MaxVersion = 3
    Sessions = {x1, x2, s1}  Reporters = {h1, h2}  Window = 2  Trial = 1  LinkLife = 1  MaxDay = 3
    MaxLoads = 4
    Customers = {x1, x2}  Handoffs = {a1, a2}  MaxRuns = 2  Visitors = {h1, h2}
    Callbacks = {h1, h2}  MaxFaults = 1
    Persons = {p1, x1, x2}  Meets <- TheMeets  Doers = {h1, h2}
    MaxSessions = 1  MaxAsks = 2  MaxDropped = 1
    Refreshes = {h1, h2}  MaxVersions = 3  MaxRevisions = 3
    Weeks = {s1, s2}  Doings = {h1, h2}  MaxQuestions = 3  MaxChanges = 2
    Parties = {x1, x2, p1}  Names = {a1, a2}  NameOf <- TheName
    TokenOf <- TheSame  PartOf <- TheSame  MayAsk <- TheMeets
    Callers = {h1, h2}  MaxThings = 3
    MaxTries = 2
    Tabs = {h1, h2}  MaxWrites = 2  MaxRequests = 3
    MaxPlaces = 3  PageSize = 2  MaxEdits = 1
    MaxInvites = 1  MaxLinks = 2  MaxFriendLoads = 3  MaxElsewhere = 1  MaxEvents = 4
SYMMETRY Symmetry
CONSTRAINTS FewWrites ImportAlone FewRequests OneByOne LoggedIn
INVARIANTS
    CustomersTypeOK
    ClaimedByLatest PaidDaysStack
    RunTruth ImportHolds
    RequestsInOrder QuietNotified
    PagesShowTruth
PROPERTIES
    PageAdvances
CHECK_DEADLOCK FALSE
