CONSTANTS
    Identities = {i1, i2, i3, i4, i5, i6}
    Times = {0, 1, 2, 3, 4}
    Capacity = 5
    MaxTTL = 4
    NoCall = NoCall
SYMMETRY IdentitySymmetry
SPECIFICATION Spec
INVARIANTS IndexCoherent HeapOrder
PROPERTIES ReservationStable EvictsOldest
