CONSTANTS
  Findings = {f1}
  MaxRuns = 3
  MaxAttempts = 1
  DeclaresImage = {f1}
  MaxFaults = 0
  MaxAsks = 3
  MaxInvestigations = 1
  MaxRemediations = 1
  InformerLag = FALSE
SPECIFICATION FairSpec
INVARIANTS
  OneRemediation
  RemediationBudget
  RemediationReleases
  SuccessorNeedsRequest
PROPERTIES
  RunsSettle
  RemediatingEnds
  RequestsHonoured
  ClosesSettle
CHECK_DEADLOCK FALSE
