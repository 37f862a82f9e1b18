SPECIFICATION DetectionSpec
CONSTANTS
  ModelScores <- MCModelScores
  UrlFeatures <- MCUrlFeatures
  Detectors = {"mailguard", "cortex", "swift", "pixel"}
INVARIANT SummaryTellsVerdict
CHECK_DEADLOCK FALSE
