SPECIFICATION MCPreviewsSpec
CONSTANTS
    Previews = {1, 2}
    SlotCount = 1
    MaxRetries = 2
    MaxRevision = 2
    MaxFaults = 1
    MaxSweeps = 1
INVARIANT PoolKept
PROPERTY StepsKept
CHECK_DEADLOCK FALSE
