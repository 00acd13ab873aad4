CONSTANTS
    n1 = n1  a1 = a1
    Identities = {n1}
    Times <- MCTimes
    Calls = {v1}
    Inputs <- MCInputs
    Keys <- MCKeys
    NoInput = NoInput  NoKey = NoKey  NoNonce = NoNonce  NoAlg = NoAlg
    Algorithms = {a1}
    CreatedPolicy = "required"
    ExpiresPolicy = "required"
    NoncePolicy = "required"
    AlgorithmPolicy = "required"
    MaxAge = 9
    ClockSkew = 2
    MaxDuration = 20
    FirstTick = 3
    LastTick = 20
    Second = 3
    Lifetime = 9
    SigningKey <- MCSigningKey
    Drifts <- MCDrifts
    MaxSigned = 1
SPECIFICATION SignSpec
PROPERTIES HonestSignatureStands
CHECK_DEADLOCK FALSE
