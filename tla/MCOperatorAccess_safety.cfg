\* Sessions of one tick, a retention of one tick, purge batches of one row.
SPECIFICATION Spec
CONSTANTS
  Operators = {alice, bob}
  Tokens = {t1}
  other = other  act1 = act1  act2 = act2
  Requests <- MCRequests
  Purposes <- MCPurposes
  Legacy = Legacy
  NoToken = NoToken
  Ttl = 1
  Resolution = 0
  Retention = 1
  BatchSize = 1
  MaxBatches = 2
  MaxTime = 2
  MaxFailures = 1
SYMMETRY Symmetry
INVARIANTS
  RevokedStaysOut AuditTellsTheTruth SuccessIsOnRecord
CHECK_DEADLOCK FALSE
