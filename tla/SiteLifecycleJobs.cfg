CONSTANTS
    Versions = {"v1", "v2"}
    FirstVersion = "v1"
    NoVersion = "none"
    Ops = {"freeze", "unfreeze", "backup", "upgrade", "delete"}
    Ages = {}
    MaxCreated = 2
    Retried = {"provision"}
SPECIFICATION Spec
INVARIANTS
    TypeOK
    DeletedLeavesNothing
PROPERTIES
    CompletedMeansDone
    ProvisionOpensLast
