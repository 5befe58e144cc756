\* One message delivered twice; the operator deletes the conversation while
\* the turns are running; each POST may be repeated in process.
SPECIFICATION Spec
CONSTANTS
  t1 = t1  t2 = t2  m1 = m1  m2 = m2
  Tasks <- MCTasks
  Messages <- OneMessage
  Payload <- TwiceDelivered
  MAX_RETRIES = 1
  MaxAttempts = 2
  DeadLetterMax = 1
  MaxCrashes = 0
  MaxDeletes = 1
INVARIANTS
  TurnInvariant
  CopiesBounded
  BillBounded
PROPERTIES
  ImplementsContract
