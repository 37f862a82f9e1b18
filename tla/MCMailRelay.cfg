SPECIFICATION FairSpec
CONSTANTS
  MaxAttempts = 2
  Recipients = {alice, bob}
  Decisions <- MCDecisions
  Configs <- MCConfigs
INVARIANTS
  DeliveredWasCleared
  RelayedAsAgreed
PROPERTIES
  HopSpec
  RelayedIsReported
  EventuallyAnswered
CHECK_DEADLOCK FALSE
