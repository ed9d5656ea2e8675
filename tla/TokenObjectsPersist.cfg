CONSTANTS
    HSM_MAX_SESSIONS = 1
    HSM_PIN_RETRY_COUNT = 1
    HSM_MIN_PIN_LEN = 4
    HSM_MAX_PIN_LEN = 32
    LABEL_SIZE = 32
    pinA = pinA
    zero = zero
    Pins = {pinA}
    PinLen <- TestPinLen
    Digests <- MCDigests
    Digest <- MCDigest
    ZeroDigest = zero
    DiskFaults = FALSE
    MaxHandle = 1
    HSM_MAX_OBJECTS = 2
    HSM_MAX_FIND_OBJECTS = 0
    BaseGap = 4
    Templates <- TokenTemplates
    ObjectHandles <- MCObjectHandles
    Labels = {}
    Mechanisms = {}
    MaxObject = 2
SPECIFICATION ObjectsSpec
INVARIANT TokenObjectsPersist
VIEW ObjectsView
