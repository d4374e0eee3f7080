SPECIFICATION FairSpec
CONSTANTS
  d = d  e = e  x = x  y = y  r1 = r1  r2 = r2  r3 = r3
  Keys = {d, e, x, y}
  Requests = {r1, r2}
  Asked <- CrossedAsked
  Sources <- BaseFirst
  Deps <- CrossedDeps
  Failing = {x, y}
  Cancelled = {}
  Timed = {}
  MaxPath = 1
  Forgettable = {}
  MaxForgets = 0
PROPERTIES RequestsReturn
CHECK_DEADLOCK FALSE
