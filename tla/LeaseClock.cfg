SPECIFICATION Spec
\* Time is bounded.
CHECK_DEADLOCK FALSE
CONSTANTS
  w1 = w1
  w2 = w2
  w3 = w3
  Workers = {w1, w2, w3}
  Nobody = Nobody
  Second = 2
  Visibility = 3
  Budget = 3
  Skew = 1
  MaxTime = 10
PROPERTIES
  KeptForBudget
  AbandonedIsRequeued
