SPECIFICATION RSpec
CONSTANTS
  Jobs = {1, 2, 3, 4}
  Keys = {1, 2}
  Cases = {"c1"}
  CaseOf <- OneCase
  Pollers = {w1}
  InProcess = {}
  Reapers = {}
  NULL = NULL
  MaxAttempts = 1
  Lease = 0
  BackoffTicks <- MCBackoff
  BackoffCap = 2
  ReapLimit = 1
  MaxCrashes = 0
  MaxRegrades = 2
  MaxSweeps = 0
INVARIANT PendingIsBacked
