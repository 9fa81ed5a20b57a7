SPECIFICATION Spec
CONSTANTS
    Entries = {e1, e2}
    Writers = {w1, w2}
    Nobody = Nobody
    Wide = {1}
    MaxVersion = 1
    MaxRestarts = 0
    MaxFaults = 0
INVARIANT LockProtectsFile
SYMMETRY Symmetry
