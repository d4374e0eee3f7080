SPECIFICATION CacheSpec
CONSTANTS
  a = a  b = b  d = d  p1 = p1  p2 = p2  p3 = p3  s1 = s1  s2 = s2  v1 = v1
  CacheKeys = {a, b, d}
  MaxEntries = 2
  MaxStale <- MixedStale
  Calls = {p1, p2, p3, s1, s2, v1}
  Kind <- MixedKind
  Batch <- MixedBatch
  Deployments <- BothCaches
  Forced = {p3}
  ReplaceEqual = {s1, p2}
  Deps <- MixedDeps
  Stripes = 2
  StripeOf <- TwoStripes
  Tolerance = 0
  ReadBatches <- MixedReads
  Dropped = {{a}}
  MaxTime = 2
INVARIANTS ReadsAreConsistent StripesNeverDeadlock
PROPERTIES NoRegression
CHECK_DEADLOCK FALSE
