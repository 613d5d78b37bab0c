SPECIFICATION FairSpec
CONSTANTS
  Threads = {t1, t2, t3, t4}
  Parent = parent
  Child = child
  InParent = {t1, t2}
  NULL = NULL
  MaxOutages = 2
  MaxCloses = 1
  MaxForks = 1
INVARIANTS
  TypeOK
  OneConnection
  PublishesOnOwnLoop
PROPERTY EndsUpConnected
