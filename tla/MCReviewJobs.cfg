SPECIFICATION RSpec
CONSTANTS
  Jobs = {1, 2, 3}
  Keys = {1, 2}
  Cases = {"c1"}
  CaseOf <- OneCase
  Pollers = {w1}
  InProcess = {}
  Reapers = {r1}
  NULL = NULL
  MaxAttempts = 2
  Lease = 0
  BackoffTicks <- NoBackoff
  BackoffCap = 2
  ReapLimit = 1
  MaxCrashes = 0
  MaxRegrades = 1
  MaxSweeps = 1
INVARIANTS
  RTypeOK
  PendingIsBacked
  OneActiveJobPerReview
PROPERTIES
  TerminalIsFinal
  RunningIsNeverSuperseded
  GradeIsKept
CONSTRAINT OneRaised
