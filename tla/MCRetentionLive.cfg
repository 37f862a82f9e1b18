SPECIFICATION FairSpec
CONSTANTS
  Uploads = {u1}
  Scans = {s1}
  Mails = {}
  Crashable = {s1}
  MaxAttempts = 2
INVARIANT ReceiptTruthful
PROPERTY EventuallyErased
CHECK_DEADLOCK FALSE
