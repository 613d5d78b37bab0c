SPECIFICATION RSpec
CONSTANTS
  Jobs = {1, 2, 3}
  Keys = {1, 2, 3}
  Cases = {"c1"}
  CaseOf <- Backlog
  Pollers = {w1}
  InProcess = {}
  Reapers = {}
  NULL = NULL
  MaxAttempts = 1
  Lease = 0
  BackoffTicks <- MCBackoff
  BackoffCap = 2
  ReapLimit = 1
  MaxCrashes = 0
  MaxRegrades = 0
  MaxSweeps = 1
PROPERTY SweepKeepsTheNewest
