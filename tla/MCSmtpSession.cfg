SPECIFICATION Spec
CONSTANTS
  Addresses = {ann, eve}
  Allowed = {ann}
  RequireAuth = TRUE
  AuthConfigured = TRUE
  MaxSize = 1
  MaxBuffer = 2
INVARIANTS
  RelayAuthorised
  TransactionAsAgreed
  MessageAsSent
CHECK_DEADLOCK FALSE
