SPECIFICATION FairSpec
CONSTANTS
  Cases = {c1}
  CaseStates = {"IN_REVIEW", "PUBLISHED"}
  Uploads = {u1, u2}
  Jobs = {j1}
  Calls = {1}
  TRANSCRIPT = TRANSCRIPT
  NULL = NULL
  MaxEdits = 2
INVARIANTS
  
  TranscriptsAreScrubbed
PROPERTIES
  VisibilitySettles
