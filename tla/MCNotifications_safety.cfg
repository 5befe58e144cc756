SPECIFICATION FairSpec
CONSTANTS
  lead = lead  inbound = inbound
  Devices = {1, 2}
  Events = {lead, inbound}
  Kind <- MCKind
  Streams = {s}
  PushConfigured = TRUE
  UpgradeLimit = 1
  MaxFailures = 1
  MaxAppActions = 1
INVARIANTS
  DisabledForCause StreamHasNoGap NoCircularWait
PROPERTIES
  SignOutIsKept FanoutsEnd
CHECK_DEADLOCK FALSE
