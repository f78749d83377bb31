CONSTANTS
  StartBitrate = 600000
  Rates = {600000, 4400000, 5100000, 9000000}
  Qualities = {1, 2}
  Start = 6000
  Elapsed = {1000, 4000}
  MaxTime = 13000
SPECIFICATION Spec
INVARIANT ResultInTime
