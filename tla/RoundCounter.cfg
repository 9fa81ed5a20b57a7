SPECIFICATION FairSpec
CONSTANTS
    Ifaces = {i1}
    CanIfaces = {}
    Threads = {t1, t2}
    NoThread = NoThread
    Packages = 2
    Skew = 1
    MaxRound = 4
    MaxRestarts = 1
INVARIANT TypeOK
INVARIANT NoCountLost
INVARIANT AtMostPackagesSent
INVARIANT OvercountBoundedByThreads
PROPERTY PublishedInOrder
PROPERTY ClosedRoundIsPublished
\* The horizon is bounded: after the last round nothing is left to do.
CHECK_DEADLOCK FALSE
