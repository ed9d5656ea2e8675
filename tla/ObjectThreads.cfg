CONSTANTS
    HSM_MAX_SESSIONS = 1
    HSM_PIN_RETRY_COUNT = 1
    HSM_MIN_PIN_LEN = 4
    HSM_MAX_PIN_LEN = 32
    LABEL_SIZE = 4
    pinA = pinA
    zero = zero
    Pins = {pinA}
    PinLen <- MCPinLen
    Digests <- MCDigests
    Digest <- MCDigest
    ZeroDigest = zero
    DiskFaults = FALSE
    MaxHandle = 1
    HSM_MAX_OBJECTS = 2
    HSM_MAX_FIND_OBJECTS = 1
    BaseGap = 5
    Templates <- ThreadTemplates
    ObjectHandles <- ThreadObjectHandles
    Labels = {"other"}
    Mechanisms = {"CKM_EC_KEY_PAIR_GEN", "CKM_ECDSA"}
    MaxObject = 4
    Threads = {t1, t2}
    NoThread = NoThread
    Calls <- ObjectThreadCalls
    Apart <- Discipline
SPECIFICATION LoggedInSpec
INVARIANT AccessesSound
PROPERTY CallsAtomic
VIEW ThreadsView
SYMMETRY ThreadSymmetry
CHECK_DEADLOCK FALSE
