SPECIFICATION Spec
CONSTANTS
  Uploads = {}
  Scans = {}
  Mails = {m1}
  Crashable = {m1}
  MaxAttempts = 2
INVARIANT RawMailRetentionRequested
CHECK_DEADLOCK FALSE
