CONSTANTS
    Ahead = 3
    Drain = 2
SPECIFICATION FairSpec
INVARIANT ExitIsComplete
PROPERTY InterruptEnds
