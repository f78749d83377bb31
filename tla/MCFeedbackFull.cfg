CONSTANTS
  Networks <- GapNetwork
  FirstTime <- WrapTime
SPECIFICATION Spec
INVARIANTS StatusCountFits
CHECK_DEADLOCK FALSE
