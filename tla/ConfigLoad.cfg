SPECIFICATION Spec
INVARIANTS
    SecretFromConfiguredSource
    ResolvedPathsAbsolute
CHECK_DEADLOCK FALSE
