SPECIFICATION Spec
CONSTANTS
    a = a
    b = b
    c = c
    a1 = a1
    a2 = a2
    b1 = b1
    c1 = c1
    PlayerId = {a, b}
    Session = {a1, a2, b1}
    PlayerOf <- Trio
    Nobody = Nobody
    LastTurn = 1
    EventBuffer = 1
    MaxCloses = 0
PROPERTIES SeatIsKept
CHECK_DEADLOCK FALSE
