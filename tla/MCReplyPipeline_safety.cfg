\* Two deliveries sharing a message; fairness, retries and a crash.
SPECIFICATION FairSpec
CONSTANTS
  t1 = t1  t2 = t2  m1 = m1  m2 = m2
  Tasks <- MCTasks
  Messages <- MCMessages
  Payload <- BatchAndDuplicate
  MAX_RETRIES = 1
  MaxAttempts = 1
  DeadLetterMax = 1
  MaxCrashes = 1
  MaxDeletes = 0
INVARIANTS
  TypeOK
  AtMostOneSend
  EvidenceBeforeSend
  SentIsTrue
  AckedIsRecorded
PROPERTIES
  EveryDeliverySettles
