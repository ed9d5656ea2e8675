CONSTANTS
    HSM_MAX_SESSIONS = 2
    HSM_PIN_RETRY_COUNT = 3
    HSM_MIN_PIN_LEN = 4
    HSM_MAX_PIN_LEN = 32
    LABEL_SIZE = 32
    short = short
    pinA = pinA
    pinB = pinB
    zero = zero
    Pins = {short, pinA, pinB}
    PinLen <- MCPinLen
    Digests <- MCDigests
    Digest <- MCDigest
    ZeroDigest = zero
    DiskFaults = FALSE
    MaxHandle = 3
SPECIFICATION Spec
INVARIANTS
    TypeOK
    TableConsistent
    ReportedStateIsTrue
    LockedIffSpent
    TokenInfoIsSound
    TokenFlagsTrue
    LoggedInUserHasPin
    FileKeptUp
PROPERTIES
    HandleNotReused
    SessionsIndependent
    DigestChangeEntitled
    KeepsPinPolicy
VIEW AllButReturn
SYMMETRY PinSymmetry
