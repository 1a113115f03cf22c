SPECIFICATION ReplaySpec
CONSTANTS
    N = 3
    MaxColor = 7
    LcgA = 5
    LcgC = 3
    ColorStep = 2
    Seeds = {0, 6}
    Lag <- MCLag
    ScriptFates = {"answered", "timeout"}
INVARIANTS ReplayAgreesWithRules
CHECK_DEADLOCK FALSE
