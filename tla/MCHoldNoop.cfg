CONSTANTS
  Findings = {f1}
  MaxRuns = 1
  MaxAttempts = 1
  DeclaresImage = {f1}
  MaxFaults = 0
  MaxAsks = 2
  MaxInvestigations = 1
  MaxRemediations = 1
  InformerLag = FALSE
SPECIFICATION Spec
PROPERTIES
  HoldHandsOff
CHECK_DEADLOCK FALSE
