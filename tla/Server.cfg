SPECIFICATION ServerFairSpec
CONSTANTS
    a = a
    b = b
    a1 = a1
    a2 = a2
    b1 = b1
    PlayerId = {a, b}
    Session = {a1, a2, b1}
    PlayerOf <- Trio
    Nobody = Nobody
    LastTurn = 2
    EventBuffer = 1
    MaxCloses = 0
    MaxConnections = 2
    MaxRooms = 2
INVARIANTS AdmittedWithinLimit RecordIsGame EndShownAfterSaving LedgerFollowsRooms EndedGamesAreFiled
PROPERTIES ServerDrains
CHECK_DEADLOCK FALSE
