CONSTANTS
  Findings = {f1}
  MaxRuns = 3
  MaxAttempts = 1
  DeclaresImage = {f1}
  MaxFaults = 1
  MaxAsks = 3
  MaxInvestigations = 1
  MaxRemediations = 1
  InformerLag = FALSE
SPECIFICATION Spec
INVARIANTS
  TypeOK
  OneInvestigation
  InvestigationBudget
  RefusedOnce
  ActiveRunNamed
  PendingCloseInReview
  RemediatedIsMerged
  FailedIsRetryable
PROPERTIES
  ImplementsLifecycle
  NeverReinvestigated
CHECK_DEADLOCK FALSE
