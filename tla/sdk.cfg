SPECIFICATION LiveSpec
CONSTANTS
    MinHold = 3
    MaxHold = 4
    CloseDelay = 1
    Variance <- MCVariance
    Timeout = 2
    TTL = 6
    Tolerance = 1
INVARIANTS TypeOK PressTimed
PROPERTIES HonestProofAccepted EveryCallEnds EveryPressEnds DialogCloses
