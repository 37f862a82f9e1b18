SPECIFICATION FairSpec
CONSTANTS
  Requests = {q1}
  Crashable = {}
  FastArts = {txt}
  ImageArts = {img}
  OtherMedia = {}
  Outcomes = {"clean", "risky", "failed"}
  MaxAttempts = 2
  Reconcilers = {rec}
  FailMode = "escalate"

PROPERTY EventuallySettled
CHECK_DEADLOCK FALSE
