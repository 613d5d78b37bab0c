SPECIFICATION FairSpec
CONSTANTS
  Msgs = {m1, m2}
  Poison = {m2}
  Unreadable = {}
  Replicas = {r1, r2}
  MaxDeliver = 2
  Batch = 2
  MaxFetchFailures = 2
  MaxFaults = 3
  NULL = NULL
INVARIANTS
  IInv
  DroppedIsAccounted
  BuriedIsHopeless
PROPERTIES
  DeliversAtLeastOnce
  EveryMessageIsAccounted
