CONSTANTS
  Writers = {w1, w2}
  Capacity = 3
  Rate = 1
  Costs = {1, 3}
  MaxWait = 1
  MaxWindow = 2
  MaxElapsed = 1
SPECIFICATION FairSpec
INVARIANTS
  BudgetKept
  WindowWaitedOut
PROPERTIES
  NeverStalls
