SPECIFICATION FairSpec
CONSTANTS
  d = d  e = e  x = x  y = y  r1 = r1  r2 = r2  r3 = r3
  Keys = {d, e, x, y}
  Requests = {r1, r2}
  Asked <- ChainAsked
  Sources <- WithCycle
  Deps <- ChainDeps
  Failing = {y}
  Cancelled = {r1}
  Timed = {r1, r2}
  MaxPath = 2
  Forgettable = {x}
  MaxForgets = 1
INVARIANTS ReservationsMatch
PROPERTIES ReservationsEnd RequestsReturn SharedByOneFlight DeadlinesContained
CHECK_DEADLOCK FALSE
