CONSTANTS
  Setups <- MCWireSetups
  Faults = {}
SPECIFICATION Spec
CHECK_DEADLOCK FALSE
INVARIANT SignedRequestIsOnWire
