SPECIFICATION FairSpec
\* The process ends.
CHECK_DEADLOCK FALSE
CONSTANTS
  w1 = w1
  w2 = w2
  w3 = w3
  Workers = {w1, w2, w3}
  Nobody = Nobody
  MaxLaunches = 3
INVARIANTS
  NoChromiumLost
PROPERTIES
  RendersReturn
