SPECIFICATION FairSpec
CONSTANTS
    OutgoingSize = 2
    MaxEvents = 1
    MaxFrames = 1
    MaxPings = 1
    MayStop = TRUE
INVARIANTS EventsThenReason
PROPERTIES PeerEnds
CHECK_DEADLOCK FALSE
