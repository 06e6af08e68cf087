SPECIFICATION MCSignalsSpec
CONSTANTS
    MaxClicks = 2
    MaxForeign = 1
    MaxLost = 1
    MaxCopies = 1
    MaxUnreadable = 1
    MaxFailures = 0
INVARIANTS OutcomeTrue SignalsHandled AlertsKept IssueOnce
PROPERTY HandOffSeenClosed
CHECK_DEADLOCK FALSE
