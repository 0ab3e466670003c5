CONSTANTS
    Codes = {code1}
    Callers = {u1}
    Sessions = {1, 2}
    Domains = {domain1}
    SiteIds = {site1}
    MaxSites = 1
    NoCode = NoCode
    NoCaller = NoCaller
    NoSession = NoSession
    NoDomain = NoDomain
    NoSiteId = NoSiteId
    MaxAttempts = 2
    MaxEvents = 4
    MaxPolls = 1
    Logins = {l1, l2}
    FailureLimit = 2
    LastDay = 1
    MaxCalls = 1
    Revisions = {r1, r2}
    NoRevision = NoRevision
    MaxLate = 1
    MaxFailures = 2
SPECIFICATION LivenessSpec
INVARIANTS
    LivenessTypeOK
    NumberIsFree
    ShownWithoutGap
    GuessesBounded
    TodayIsNotOvercounted
PROPERTIES
    AbandonedCodeReturns
    EndIsShown
    LockEnds
    SettledIsShown
CHECK_DEADLOCK FALSE
