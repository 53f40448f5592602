\* Both programs: the current main.go and the older one in the Makefile.
CONSTANTS
    Variants = {"current", "older"}
    NoExit = NoExit
SPECIFICATION Spec
INVARIANTS
    ExitStatusReportsFailure
CHECK_DEADLOCK FALSE
