SPECIFICATION Spec
CONSTANTS
  Events = {captured, failed, foreign}
  Foreign = {foreign}
  Failures = {failed}
  Handlers = {h1, h2}
  WebhookFaults = 2
INVARIANTS AckedMeansHandled
PROPERTIES RepeatsAddNoEntry EveryEventSettles
CHECK_DEADLOCK FALSE
