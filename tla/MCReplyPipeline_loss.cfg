\* One delivery; it raises, or loses its worker, between the claim and the reservation.
SPECIFICATION Spec
CONSTANTS
  t1 = t1  t2 = t2  m1 = m1  m2 = m2
  Tasks <- OneTask
  Messages <- OneMessage
  Payload <- Single
  MAX_RETRIES = 1
  MaxAttempts = 1
  DeadLetterMax = 1
  MaxCrashes = 1
  MaxDeletes = 0
INVARIANTS
  LossIsVisible
