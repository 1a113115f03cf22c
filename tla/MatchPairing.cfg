SPECIFICATION Spec
CONSTANTS
    a = a
    b = b
    c = c
    a1 = a1
    a2 = a2
    b1 = b1
    c1 = c1
    PlayerId = {a, b, c}
    Session = {a1, a2, b1, c1}
    PlayerOf <- ReturningPlayer
    Nobody = Nobody
    LastTurn = 1
    EventBuffer = 1
    MaxCloses = 0
INVARIANTS KeepsItsSeat OneWaitingRoom OneSeatPerPlayer NothingLeaks PhaseMatchesSeats QueueEndsCurrent SeatsAreServed
PROPERTIES EveryRoomPlaysTurns
CHECK_DEADLOCK FALSE
