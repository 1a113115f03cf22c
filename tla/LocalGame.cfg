SPECIFICATION FairSpec
CONSTANTS
    Client = {p, q}
    LastTurn = 2
    MaxRequests = 3
    MaxGames = 2
INVARIANTS TurnsTakenOnce ShownHappened
PROPERTIES RequestsAreAnswered
CHECK_DEADLOCK FALSE
