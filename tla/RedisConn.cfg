SPECIFICATION FairSpec
\* Every call happens once: all of them are done in the end.
CHECK_DEADLOCK FALSE
CONSTANTS
  a = a
  b = b
  c = c
  Calls = {a, b, c}
  Nobody = Nobody
  Hello = Hello
  Handshake = 2
  MaxBreaks = 2
  MaxRefused = 1
INVARIANTS
  DoIsFaithful
PROPERTIES
  DoReturnsUnlessSilent
