SPECIFICATION Spec
CONSTANTS
    b1 = b1
    b2 = b2
    b3 = b3
    b4 = b4
    Batch <- MCBatch
    SpanCount <- MCSpanCount
    FailureThreshold = 2
    InitialBackoff = 30
    BackoffFactor = 2
    MaxBackoff = 100
    MaxPendingSpans = 3
    MaxKey = 2
    KeySources <- AllKeySources
PROPERTIES
    OnlyProbeDecides
CHECK_DEADLOCK FALSE
