\* One worker, no failures: four pictures, the last of them past both lines.
SPECIFICATION Spec
CONSTANTS
  w1 = w1  w2 = w2  m1 = m1  m2 = m2  m3 = m3  m4 = m4
  hello = hello  NoText = NoText
  Workers <- OneWorker
  Messages <- FourMessages
  Text <- Pictures
  FloodWindow = 1  FloodLimit = 2  BlockSeconds = 2
  DuplicateWindow = 2  DuplicateLimit = 1
  Length <- PacedLength
  Limit <- PacedLimit
  SpendLimit = 9  TokenLimit = 9  MaxCost = 1
  WorkersDie = FALSE
  Usages <- MCUsages
  MaxTime = 4  MaxRedeliveries = 0  MaxFailures = 0  MaxOps = 0
CHECK_DEADLOCK FALSE
INVARIANTS
  SilenceWasExplained
