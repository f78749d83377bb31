CONSTANTS
  Networks <- WrapNetwork
  FirstTime <- WrapTime
SPECIFICATION Spec
INVARIANTS RunsFitTheirField
CHECK_DEADLOCK FALSE
