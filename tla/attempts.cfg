SPECIFICATION AttemptFairSpec
CONSTANTS
  a1 = a1  a2 = a2  a3 = a3  a4 = a4  i1 = i1  i2 = i2
  Identities = {i1, i2}
  Enabled = {i1}
  FailureThreshold = 2
  RecoveryTimeout = 1
  Attempts = {a1, a2, a3}
  Derived = {a2}
  Batches = {a1}
  Groups <- MixedGroups
  Deadline <- MixedDeadline
  Transport <- MixedTransport
  Resets <- MixedResets
  MaxAttempts = 2
  BaseDelay = 2
  MaxDelay = 2
  JitterPct = 50
  MaxTime = 3
INVARIANTS AttemptTypeOK ProbeHasOwner OpenExactlyAtThreshold
PROPERTIES ProbeResolved
CHECK_DEADLOCK FALSE
