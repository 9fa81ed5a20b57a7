SPECIFICATION FairSpec
CONSTANTS
    Targets = {t1, t2}
    MaxKillFailures = 2
INVARIANT TypeOK
INVARIANT OneChild
PROPERTY ResetBeforeRestart
PROPERTY ChildComesBack
PROPERTY SilenceIsReset
