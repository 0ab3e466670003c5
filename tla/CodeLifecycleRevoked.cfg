CONSTANTS
    Codes = {c1}
    Callers = {u1, u2}
    Sessions = {1, 2}
    Domains = {d1, d2}
    SiteIds = {s1, s2}
    MaxSites = 1
    NoCode = NoCode
    NoCaller = NoCaller
    NoSession = NoSession
    NoDomain = NoDomain
    NoSiteId = NoSiteId
SPECIFICATION CodesSpec
PROPERTY RevokedStaysRevoked
CHECK_DEADLOCK FALSE
