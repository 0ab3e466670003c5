CONSTANTS
    Jobs = {1, 2, 3}
    Sites = {site}
    OpTypes = {"backup", "delete"}
    Agents = {agent1}
    WorkerId <- MCWorkerId
    MaxAttempts = 2
    Steps <- MCSteps
    NoSite = NoSite
    Codes = {code1}
    Callers = {u1, u2}
    Sessions = {1, 2, 3}
    Domains = {domain1, domain2}
    SiteIds = {site1, site2}
    MaxSites = 2
    NoCode = NoCode
    NoCaller = NoCaller
    NoSession = NoSession
    NoDomain = NoDomain
    NoSiteId = NoSiteId
    NoWorker = NoWorker
    c1 = c1
    c2 = c2
    Clients = {c1, c2}
    Handlers = {1, 2}
    MaxRequests <- MCMaxRequests
    Limit = 2
    Window = 2
    MaxBuckets = 1
    Stall = 1
    LastTick = 4
    NoClient = NoClient
    Messages = {m1}
    Deliveries = {d1, d2}
    Tolerance = 3
    Keep = 6
    Ahead = 1
    HandlerDelay = 1
    EndOfTime = 9
    MaxAttemptNo = 3
    Chosen = Chosen
    NoPassword = NoPassword
SYMMETRY RowSymmetry
SPECIFICATION SafetySpec
INVARIANTS
    SafetyTypeOK
    OneOperationPerSite
    SpentWithItsSite
    CodeKnowsItsSite
    SessionOpensOnce
    TwoWindowsAtMost
    RefusedForReason
    CountedOnce
    OnePassword
    AdminCanLogIn
PROPERTIES
    OperationsSpareDeletedSites
    DomainKept
CHECK_DEADLOCK FALSE
