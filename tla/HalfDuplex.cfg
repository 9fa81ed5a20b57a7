SPECIFICATION Spec
CONSTANTS
    a = a
    b = b
    Node = {a, b}
    Chooser <- MCChooser
    SyncNode = {a, b}
    Packages = 2
    SyncSends = 1
    RoundLen = 9
    Skew = 2
    MaxLate = 1
    Horizon = 45
    MaxFaults = 1
INVARIANTS TypeOK NoCollision CountedWereSent HarmConfined
CHECK_DEADLOCK FALSE
