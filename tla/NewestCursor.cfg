SPECIFICATION FairSpec
CONSTANTS
    N = 5
    Max = 2
INVARIANT TypeOK
INVARIANT NoEntryStarved
PROPERTY EveryUpdateIsTaken
