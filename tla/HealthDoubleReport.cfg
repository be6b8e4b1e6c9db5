SPECIFICATION Spec
CONSTANTS
    MaxSpans = 2
    MaxTicks = 3
    MaxHookCalls = 2
INVARIANTS
    ReportedExactlyOnce
CHECK_DEADLOCK FALSE
