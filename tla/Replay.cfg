SPECIFICATION ReplaySpec
CONSTANTS
    N = 3
    MaxColor = 7
    LcgA = 5
    LcgC = 3
    ColorStep = 2
    Seeds = {0, 6}
    Lag <- MCLag
    ScriptFates = {"answered", "timeout", "failed"}
INVARIANTS FinishedIsSaved StoredReplays DamageIsCaught ValidatorsAgree AnswersAreUnderstood ColorsFollowSeed TurnsArePieces AlwaysAMove
PROPERTIES TurnSpec
CHECK_DEADLOCK FALSE
