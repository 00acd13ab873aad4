CONSTANTS
  Setups <- MCDifferential
  Headers <- MCHeaders
  Statuses = {103, 101, 200, 204, 205, 304}
  MaxSteps = 3
  Faults = {"body", "x", "cut", "trailers", "unzip"}
SPECIFICATION Spec
CHECK_DEADLOCK FALSE
INVARIANT NoDifferential
