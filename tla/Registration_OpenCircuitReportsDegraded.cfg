SPECIFICATION Spec
INVARIANTS
    OpenCircuitReportsDegraded
CHECK_DEADLOCK FALSE
