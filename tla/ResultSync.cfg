SPECIFICATION Spec
CONSTANTS
    N = 3
    Max = 2
    Parts = 2
    Times = 2
    MaxRound = 2
    MaxNet = 2
    MaxFaults = 2
INVARIANT TypeOK
INVARIANT LossesTolerated
PROPERTY ChannelSpec
\* The rounds are bounded: in the end nothing is left to do.
CHECK_DEADLOCK FALSE
