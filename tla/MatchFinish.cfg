SPECIFICATION FairPlay
CONSTANTS
    a = a
    b = b
    c = c
    a1 = a1
    a2 = a2
    b1 = b1
    c1 = c1
    PlayerId = {a, b}
    Session = {a1, b1}
    PlayerOf <- Duo
    Nobody = Nobody
    LastTurn = 3
    EventBuffer = 8
    MaxCloses = 1
INVARIANTS SeatsAreServed
PROPERTIES GamesFinish
CHECK_DEADLOCK FALSE
