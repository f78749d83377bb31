CONSTANTS
  SeqSpace = 5
  BudgetMod = 100
  Length = 2
  Second = 8
  FlushAfter = 3
  Rates = {15, 20, 30}
  Elapsed <- Steps
SPECIFICATION FairSpec
INVARIANTS TypeOK RateKept SentWithinEstimate
PROPERTIES OldestFirst StreamGoesOn
CHECK_DEADLOCK FALSE
