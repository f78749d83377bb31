SPECIFICATION Spec
CONSTANTS
  SeqSpace = 8
  AgeLimit = 3
  PacketSizes = {1312}
  FirstSeqs = {1, 6}
  RefSpan = 100
  MaxDelta = 2
  MaxUnwrapped = 14
  Networks <- NearFarAndBack
INVARIANTS TypeOK InFlightExact NoAliasing ReceivedOnce HistoryInWindow PacerInStep
PROPERTIES ArrivalClock LostStaysKnown
CHECK_DEADLOCK FALSE
