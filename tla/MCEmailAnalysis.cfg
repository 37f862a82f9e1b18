SPECIFICATION FairSpec
CONSTANTS
  text = text
  eml = eml
  link = link
  Scans <- MCScans
  Requests = {r1, r2}
  StageOf <- MCStageOf
  ParentOf <- MCParentOf
  LinksOf <- MCLinksOf
  Sealed = {eml}
  Crashable = {r2}
  FailMode = "escalate"
INVARIANTS
  FailureShows
  LineageForward
PROPERTIES
  VerdictSpec
  ReadsAgree
  EventuallySettled
CHECK_DEADLOCK FALSE
