CONSTANTS
    Callers = {c1, c2}
    Identities = {i1, i2, i3, bad}
    Malformed = {bad}
    Times = {0, 1, 2}
    Capacity = 2
    MaxTTL = 1
    MaxDuration = 2
    NoRecord = NoRecord
SYMMETRY CallersAndPairs
SPECIFICATION Spec
INVARIANTS TypeOK AtMostOneGrant UnlockNeverPanics CapacityBound CapacityRefusalJustified
PROPERTIES ImplementsLedger
