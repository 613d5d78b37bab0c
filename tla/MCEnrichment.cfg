SPECIFICATION FairSpec
CONSTANTS
  f1 = f1
  f2 = f2
  a = a
  s1 = s1
  s2 = s2
  NULL = NULL
  Facts <- MCFacts
  Matches <- MCMatches
  Slugs = {s1, s2}
  FirstSlug <- MCFirstSlug
  MaxMatches = 1
  Window = 2
  Limits = {1, 2}
  MaxDeliver = 2
  MaxAttempts = 2
  Jobs = {1, 2}
  MaxCrashes = 1
INVARIANTS
  TypeOK
  OneProposalPerKey
  NoFactSlipsThrough
PROPERTIES
  KeepsTheLedger
  EveryFactSettles
CHECK_DEADLOCK FALSE
