CONSTANTS
    p1 = p1
    p2 = p2
    NoSite = NoSite
    NoWorker = NoWorker
    Jobs = {1, 2, 3}
    Sites = {s1}
    OpTypes = {"backup", "delete"}
    Agents = {p1}
    WorkerId <- MCWorkerId
    MaxAttempts = 3
    Steps <- MCSteps
SPECIFICATION Spec
INVARIANT OneActiveJobPerSite
CHECK_DEADLOCK FALSE
