SPECIFICATION FairSpec
CONSTANTS
  c1 = c1  c2 = c2  c3 = c3  c4 = c4  g = g  s = s
  Calls = {c1, c2, c3, c4}
  Limiters = {g, s}
  Global = g
  SourceOf <- MixedSource
  Limit <- MixedLimit
  Timed = {c1, c2, c3}
INVARIANTS SlotsSound
PROPERTIES WaitEnds LimitersArePools
CHECK_DEADLOCK FALSE
