\* Two messages, two fair sweeps, one operator; a crash.
SPECIFICATION FairSpec
CONSTANTS
  m1 = m1  m2 = m2  s1 = s1  s2 = s2  o1 = o1
  Messages <- TwoMessages
  Sweepers <- TwoSweepers
  Operators <- OneOperator
  Channel = "messenger"
  MaxConvs = 2
  MaxTime = 3
  MaxOps = 1
  MaxCrashes = 1
  IdleTimeout = 1
  ReopenWindow = 1
  ServiceWindow = 2
INVARIANTS
  ClaimIsExclusive
  WelcomeStaysOwed
PROPERTIES
  ImplementsSessions
  HumanUntilResumed
  IdleIsClosed
