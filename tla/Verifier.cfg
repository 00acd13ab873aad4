CONSTANTS
    n1 = n1  a1 = a1  a2 = a2
    Identities = {n1}
    Times <- MCTimes
    Calls = {v1, v2}
    Inputs <- MCInputs
    Keys <- MCKeys
    NoInput = NoInput  NoKey = NoKey  NoNonce = NoNonce  NoAlg = NoAlg
    Algorithms = {a1}
    CreatedPolicy = "optional"
    ExpiresPolicy = "optional"
    NoncePolicy = "optional"
    AlgorithmPolicy = "optional"
    MaxAge = 2
    ClockSkew = 1
    MaxDuration = 4
    FirstTick = 1
    LastTick = 7
SYMMETRY CallSymmetry
SPECIFICATION Spec
INVARIANTS AcceptedOnce OnlyGenuineBurnsNonce ConsumedInWindow ReservationFitsStore
