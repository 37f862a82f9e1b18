SPECIFICATION Spec
CONSTANTS
  Requests = {q1, q2}
  Crashable = {q1}
  FastArts = {txt}
  ImageArts = {img}
  OtherMedia = {vid}
  Outcomes = {"clean", "failed"}
  MaxAttempts = 1
  Reconcilers = {rec}
  FailMode = "allow"
INVARIANTS
  FinalCovers
PROPERTY PromiseSpec
CHECK_DEADLOCK FALSE
