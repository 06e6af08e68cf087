SPECIFICATION MCIntentsSpec
CONSTANTS
    Kinds = {"replanLabel", "approveLabel", "approve", "replan", "cancel"}
    MaxAttempts = 2
    MaxActs = 2
    MaxEdits = 1
    MaxFaults = 1
    MaxTime = 2
INVARIANTS ApprovalTrue RoundsServed BuildsWhole DiscoveredOnce
PROPERTY IntentSteps
CHECK_DEADLOCK FALSE
