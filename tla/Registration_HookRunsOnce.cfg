SPECIFICATION Spec
INVARIANTS
    HookRunsOnce
CHECK_DEADLOCK FALSE
