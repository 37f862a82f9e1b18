SPECIFICATION Spec
CONSTANTS
  Uploads = {u1}
  Scans = {s1, s2}
  Mails = {m1}
  Crashable = {s1, s2}
  MaxAttempts = 1
INVARIANTS
  AvailableUntilDue
  NothingForgotten
SYMMETRY Symmetry
CHECK_DEADLOCK FALSE
