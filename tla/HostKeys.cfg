CONSTANTS
    Files = {f1, f2, f3}
    MaxFiles = 3
SPECIFICATION Spec
INVARIANTS
    HostKeysLoaded
CHECK_DEADLOCK FALSE
