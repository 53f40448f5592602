\* Three OTP commands over one Config: six HttpClient callers.
CONSTANTS
    Sessions = {s1, s2, s3}
SPECIFICATION Spec
INVARIANTS
    CompleteResult
    SingleConstruction
\* Every command's calls end, so the system really stops.
CHECK_DEADLOCK FALSE
