CONSTANTS
    Versions = {"v1", "v2"}
    FirstVersion = "v1"
    NoVersion = "none"
    Ops = {}
    Ages = {}
    MaxCreated = 0
    Retried = {"provision"}
SPECIFICATION Spec
INVARIANTS
    FailedIsNotActive
