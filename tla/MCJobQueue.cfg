SPECIFICATION Spec
CONSTANTS
  Jobs = {j1, j2}
  Keys = {k1}
  Pollers = {w1}
  InProcess = {w2}
  Reapers = {r1}
  NULL = NULL
  MaxAttempts = 2
  Lease = 1
  BackoffTicks <- MCBackoff
  BackoffCap = 2
  ReapLimit = 2
  MaxCrashes = 1
SYMMETRY Symmetry
INVARIANTS
  OneActivePerKey
  ReturnedJobIsForTheKey
  AttemptsBounded
  RunningIsLeased
  AttemptsHandedOutOnce
  HooksMatchOutcome
  OutcomeIsOwedOrTold
  IInv
PROPERTY ImplementsLifecycle
