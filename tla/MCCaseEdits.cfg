SPECIFICATION Spec
CONSTANTS
  g1 = g1
  g2 = g2
  c1 = c1
  d1 = d1
  x1 = x1
  r1 = r1
  r2 = r2
  s1 = s1
  s2 = s2
  NULL = NULL
  Patches <- MCPatches
  Deletes <- MCDeletes
  Proposals <- MCProposals
  Reviewers = {r1, r2}
  Guarded <- MCGuarded
  Touches <- MCTouches
  Target <- MCTarget
  NewSlug <- MCNewSlug
  Slugs = {s1, s2}
  FirstSlug = s1
  Intents = {"drafted", "corrected"}
  Drafted = "drafted"
INVARIANTS
  TypeOK
  DecisionsMatch
  OldAddressesLead
PROPERTIES
  EditsAreAtomic
  ClosedIsFinal
SYMMETRY Symmetry
