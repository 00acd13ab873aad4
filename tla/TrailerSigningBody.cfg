CONSTANTS
    MaxBytes = 3
    MaxChunk = 4
SPECIFICATION FairSpec
INVARIANTS TypeOK ReleaseOnlyAfterSigning HandedIsHashed CleanEOFIsSigned NothingLeaks
PROPERTIES FirstResultStands RoundTripReturns
CHECK_DEADLOCK FALSE
