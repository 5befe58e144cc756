\* Two workers, two messages with one text and a picture, one of them redelivered;
\* an operator, a Redis failure, the turn of a day.
SPECIFICATION Spec
CONSTANTS
  w1 = w1  w2 = w2  m1 = m1  m2 = m2  m3 = m3  m4 = m4
  hello = hello  NoText = NoText
  Workers <- TwoWorkers
  Messages <- ThreeMessages
  Text <- TwoAlike
  FloodWindow = 0  FloodLimit = 1  BlockSeconds = 2
  DuplicateWindow = 2  DuplicateLimit = 1
  Length <- ShortLength
  Limit <- ShortLimit
  SpendLimit = 1  TokenLimit = 2  MaxCost = 1
  WorkersDie = TRUE
  Usages <- MCUsages
  MaxTime = 2  MaxRedeliveries = 1  MaxFailures = 1  MaxOps = 1
SYMMETRY Symmetry
CHECK_DEADLOCK FALSE
INVARIANTS
  SpendOvershootBounded
PROPERTIES
  FloodIsReal
  BlockIsNotRenewed
