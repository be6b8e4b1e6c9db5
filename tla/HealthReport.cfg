SPECIFICATION FairSpec
CONSTANTS
    MaxSpans = 2
    MaxTicks = 3
    MaxHookCalls = 2
INVARIANTS
  ReportsSound
  ReportedExactlyOnceUnlessOverlapped
  OneFinalReport
PROPERTIES
  TicksInOrder
  TickGateReopens
CHECK_DEADLOCK FALSE
