SPECIFICATION RFairSpec
CONSTANTS
  Jobs = {1, 2, 3}
  Keys = {1, 2}
  Cases = {"c1"}
  CaseOf <- OneCase
  Pollers = {w1}
  InProcess = {}
  Reapers = {}
  NULL = NULL
  MaxAttempts = 2
  Lease = 0
  BackoffTicks <- MCBackoff
  BackoffCap = 2
  ReapLimit = 1
  MaxCrashes = 1
  MaxRegrades = 1
  MaxSweeps = 0
PROPERTY EveryReviewSettles
