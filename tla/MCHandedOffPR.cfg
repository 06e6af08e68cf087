CONSTANTS
  Findings = {f1}
  MaxRuns = 1
  MaxAttempts = 1
  DeclaresImage = {}
  MaxFaults = 0
  MaxAsks = 1
  MaxInvestigations = 1
  MaxRemediations = 1
  InformerLag = FALSE
SPECIFICATION Spec
PROPERTIES
  HandedOffOpensNoPR
CHECK_DEADLOCK FALSE
