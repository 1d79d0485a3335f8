SPECIFICATION FairBridgeSpec
CONSTANTS
  MaxTemplates = 3
  MaxOutages = 1
  Listeners = {v1, v2}
INVARIANTS
  BridgeTypeOK
  NoLostWakeup
PROPERTIES
  NewestTemplateHandedOut
  FailureEndsBridge
  CancelStopsBridge
CHECK_DEADLOCK FALSE
