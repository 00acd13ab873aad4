CONSTANTS
    Callers = {c1, c2}
    Identities = {i1}
    Malformed = {}
    Times = {0, 1, 2}
    Capacity = 1
    MaxTTL = 2
    MaxDuration = 2
    NoRecord = NoRecord
SPECIFICATION StallSpec
PROPERTIES ConsumeReturns CanceledWaiterReturns
