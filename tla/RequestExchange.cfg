CONSTANTS
  Setups <- MCSetups
  Faults = {"body", "x", "cut", "trailers", "path"}
SPECIFICATION Spec
CHECK_DEADLOCK FALSE
INVARIANTS HandlerGetsSigned BodyClosedOnce TrailersArrive IntactDelivered
