SPECIFICATION Spec
CONSTANTS
    LastTurn = 2
    MaxConnects = 2
    MaxRequests = 2
    MaxReplays = 1
    MaxRooms = 2
    MaxRestarts = 1
    MaxUnread = 2
INVARIANT PausedOnlyAlone
CHECK_DEADLOCK FALSE
