SPECIFICATION FairSpec
CONSTANTS
  Jobs = {j1, j2}
  Keys = {}
  Pollers = {w1}
  InProcess = {w2}
  Reapers = {}
  NULL = NULL
  MaxAttempts = 2
  Lease = 0
  BackoffTicks <- MCBackoff
  BackoffCap = 2
  ReapLimit = 1
  MaxCrashes = 1
PROPERTIES
  EveryJobFinishes
  EveryOutcomeIsTold
