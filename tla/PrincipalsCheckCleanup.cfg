CONSTANTS
    Variants = {"current"}
    NoExit = NoExit
SPECIFICATION Spec
INVARIANTS
    CleanupsRunOnExit
CHECK_DEADLOCK FALSE
