CONSTANTS
    p1 = p1
    p2 = p2
    NoSite = NoSite
    NoWorker = NoWorker
    Jobs = {1, 2}
    Sites = {s1}
    OpTypes = {"delete"}
    Agents = {p1, p2}
    WorkerId <- MCWorkerId
    MaxAttempts = 2
    Steps <- MCSteps
SPECIFICATION FairSpec
INVARIANTS
    TypeOK
    ClaimsUnique
PROPERTIES
    OnlyHolderEnds
    RenewedByHolder
    ImplementsContract
    PendingStarts
    RunningEnds
CHECK_DEADLOCK FALSE
