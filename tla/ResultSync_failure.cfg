SPECIFICATION Spec
CONSTANTS
    N = 2
    Max = 2
    Parts = 2
    Times = 2
    MaxRound = 1
    MaxNet = 3
    MaxFaults = 1
INVARIANT NotNewestMeansSynced
\* The rounds are bounded: in the end nothing is left to do.
CHECK_DEADLOCK FALSE
