CONSTANTS
  Networks <- AllNetworks
  FirstTime <- WrapTime
SPECIFICATION Spec
INVARIANTS TypeOK FaithfulFeedback OvershootBounded
PROPERTIES ConsecutiveFeedback ReportedUnlessFatal EnteredUnlessRefused
CHECK_DEADLOCK FALSE
