SPECIFICATION FairSpec
CONSTANTS
  a = a  b = b  c = c  d = d
  Count = 3
  Request <- Requests
  Policy <- Chosen
  MaxConcurrent = 2
  Allowance = 1
  Offers <- Answers
  MaxTime = 2
  Ttl <- Ttls
INVARIANTS ScanSound
PROPERTIES JudgedExactly ScanEnds
CHECK_DEADLOCK FALSE
