CONSTANTS
  Findings = {f1}
  MaxRuns = 2
  MaxAttempts = 1
  DeclaresImage = {}
  MaxFaults = 0
  MaxAsks = 0
  MaxInvestigations = 1
  MaxRemediations = 1
  InformerLag = TRUE
SPECIFICATION Spec
INVARIANTS
  OneRemediation
CHECK_DEADLOCK FALSE
