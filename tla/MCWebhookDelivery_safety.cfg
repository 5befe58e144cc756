\* Two attempts per task, one lost worker, one failure of the provider or the broker.
SPECIFICATION Spec
CONSTANTS
  page1 = page1  page2 = page2  wa = wa
  dm = dm  poison = poison  comment = comment  echo = echo  chat = chat
  Deliveries <- MCDeliveries
  Items <- MCItems
  Object <- MCObject
  Payload <- MCPayload
  Surface <- MCSurface
  Deployments <- MCDeployments
  EchoOf <- MCEchoOf
  Own = {echo}
  Nameless = {}
  Dated = {comment}
  Poison = {poison}
  AppSecretSet = TRUE
  Production = TRUE
  Configured = {"whatsapp", "messenger", "facebook_comment"}
  MaxAttempts = 2
  MaxRetries = 1
  MaxFailures = 1
  MaxCrashes = 1
INVARIANTS
  InvitedOnce ClaimedIsInvited PrivateIsNotHeldUp NeverAnswersItself
CHECK_DEADLOCK FALSE
