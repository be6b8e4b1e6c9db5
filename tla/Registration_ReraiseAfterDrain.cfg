SPECIFICATION Spec
INVARIANTS
    ReraiseAfterDrain
CHECK_DEADLOCK FALSE
