CONSTANTS
    LastDay = 1
    MaxCalls = 2
    Revisions = {1}
    NoRevision = NoRevision
    MaxLate = 0
    MaxFailures = 2
SPECIFICATION ReportSpec
PROPERTY DailyTotalStands
CHECK_DEADLOCK FALSE
