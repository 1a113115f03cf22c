SPECIFICATION FairSpec
CONSTANTS
    LastTurn = 2
    MaxConnects = 2
    MaxRequests = 2
    MaxReplays = 1
    MaxRooms = 2
    MaxRestarts = 1
    MaxUnread = 2
INVARIANTS ConnectionIsTold UpToDate LostMatchIsNotShown
PROPERTIES BusyEnds
CHECK_DEADLOCK FALSE
