SPECIFICATION Spec
CONSTANTS
    Entries = {e1, e2}
    Writers = {w1, w2}
    Nobody = Nobody
    Wide = {1}
    MaxVersion = 2
    MaxRestarts = 1
    MaxFaults = 1
INVARIANT TypeOK
INVARIANT FileWholeAndFresh
INVARIANT EmptyOnlyIfRefused
INVARIANT MarkedUnwrittenChangedMeanwhile
SYMMETRY Symmetry
