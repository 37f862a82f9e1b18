SPECIFICATION Spec
CONSTANTS
  Items <- MCItems
  Policies <- MCPolicies
INVARIANTS
  RecommendAgrees
PROPERTIES
  RiskDropsOnlyFromUnknown
  EvidenceNeverRelaxes
