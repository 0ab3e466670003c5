CONSTANTS
    MaxAttempts = 2
    MaxEvents = 4
    MaxPolls = 1
SPECIFICATION StreamSpec
INVARIANT UnfinishedIsFollowed
CHECK_DEADLOCK FALSE
