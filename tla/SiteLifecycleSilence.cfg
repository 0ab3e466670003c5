CONSTANTS
    Versions = {"v1", "v2"}
    FirstVersion = "v1"
    NoVersion = "none"
    Ops = {"freeze", "restart"}
    Ages = {"late", "old"}
    MaxCreated = 1
    Retried = {"provision"}
SPECIFICATION FairSpec
PROPERTIES
    SilentSiteGoesOffline
