CONSTANTS
  MaxInt = 127
  DefaultLimit = 80
  MaxComponents = 2
  Calls <- MCCalls
  NameBytes <- MCNameBytes
SPECIFICATION Spec
CHECK_DEADLOCK FALSE
INVARIANTS BaseWithinLimit BoundedOvershoot ProfileShapesResolve
