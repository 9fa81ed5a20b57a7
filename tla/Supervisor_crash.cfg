SPECIFICATION Spec
CONSTANTS
    Targets = {b1, b2}
    MaxKillFailures = 2
PROPERTY CrashIsReset
