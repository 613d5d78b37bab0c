SPECIFICATION Spec
CONSTANTS
  Jobs = {j1}
  Keys = {k1}
  Pollers = {w1}
  InProcess = {w2}
  Reapers = {}
  NULL = NULL
  MaxAttempts = 2
  Lease = 0
  BackoffTicks <- MCBackoff
  BackoffCap = 2
  ReapLimit = 1
  MaxCrashes = 0
PROPERTY ZombieNeverClobbers
