SPECIFICATION RetailFairSpec
CONSTANTS
  t1 = t1 o1 = o1
  Ticks <- MCTicks
  Orphans <- MCOrphans
  NumRequests = 1
  LastPage = 2
  MaxCrashes = 1
  w1 = w1 w2 = w2
  FirstWeight = w1
  Weights <- MCWeights
  None = None
INVARIANTS RetailInv PagesHaveNoGap
PROPERTIES SealedStaysSealed RunningEnds
