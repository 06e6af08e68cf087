SPECIFICATION MCRunsSpec
CONSTANTS
    Pods = {"p1"}
    Requests = {"r1", "r2", "r3", "r4"}
    PodLimit = 3
    HourLimit = 0
    RequestLimit = 0
    Cap = 2
    Waits = TRUE
    Reserves = {0, 2}
    Overrun = 1
    Window = 2
    Ttl = 5
    MaxMinute = 0
    Plans = {}
    Builds = {"b"}
    Revises = {"v"}
    MaxConcurrent = 1
    MaxSuspends = 1
    MaxPushes = 1
    MaxFaults = 1
INVARIANTS RunsDeliver InFlightCapped NoLostWakeup SpendTrue GrantsWithinSlots EvaluationsTrue
PROPERTIES PushesWanted RunSteps
CHECK_DEADLOCK FALSE
