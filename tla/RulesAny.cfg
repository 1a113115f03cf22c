SPECIFICATION SpecAny
CONSTANTS
    N = 4
    MaxColor = 7
    LcgA = 5
    LcgC = 3
    ColorStep = 2
    Seeds = {9}
    Lag <- MCLag
    InitPasses = {0, 1}
INVARIANT ReplyIsValid
PROPERTIES MovesAtOnce ColorsBlend TowardsEnd
