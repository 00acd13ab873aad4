CONSTANTS
    MaxBytes = 2
    MaxChunk = 2
SPECIFICATION Spec
INVARIANTS SignedIsSent UnsignedStaysBare SignedOrReported FailedBeforeCommitIsEmpty BoundedBody
CHECK_DEADLOCK FALSE
