CONSTANTS
    KeyIds = {"", "7"}
    UserIds = {0, 42}
    Otps = {"123456", "000000"}
SPECIFICATION Spec
INVARIANTS
    VerifiedOnlyForCaller
CHECK_DEADLOCK FALSE
