CONSTANTS
    Users <- MCUsers
    ConfigUser = "git"
    Keys <- MCKeys
    DSAKeys <- MCDSAKeys
    OwnedKeys <- MCOwnedKeys
    AuthorizedId <- MCAuthorizedId
    NotFound = NotFound
    NoKey = NoKey
    MaxAuthTries <- MCMaxAuthTries
    UserIds = {0, 42}
    Otps = {"123456", "000000"}
    NoSession = NoSession
SPECIFICATION Spec
INVARIANTS
    TypeOK
    OnlyEligibleKeys
    OtpForSigningKey
\* The handshake fails, or the command returns.
CHECK_DEADLOCK FALSE
