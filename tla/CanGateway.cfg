SPECIFICATION FairSpec
CONSTANTS
    Entries = 2
    Configs <- MCConfigs
    MaxFrames <- MCFrames
    MaxSends = 3
    QueueMax = 1
    SocketMax = 1
    MaxFaults = 1
\* The MCU stops after MaxFrames frames, and a dead task stops its users.
CHECK_DEADLOCK FALSE
INVARIANTS
    TypeOK
    WaitersAreServed
    CopyIsFreshFrame
    SendsLostBounded
PROPERTIES
    ThreadsStart
    FrameIsTaken
    SendsFinish
