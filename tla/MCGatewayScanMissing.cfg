SPECIFICATION Spec
CONSTANTS
  Requests = {q1}
  Crashable = {}
  FastArts = {txt}
  ImageArts = {img1, img2}
  OtherMedia = {}
  Outcomes = {"clean", "risky", "failed"}
  MaxAttempts = 2
  Reconcilers = {rec}
  FailMode = "escalate"
INVARIANT MissingEvidenceNotBenign
CHECK_DEADLOCK FALSE
