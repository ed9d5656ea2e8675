CONSTANTS
    HSM_MAX_SESSIONS = 1
    HSM_PIN_RETRY_COUNT = 1
    HSM_MIN_PIN_LEN = 4
    HSM_MAX_PIN_LEN = 32
    LABEL_SIZE = 4
    pinA = pinA
    zero = zero
    Pins = {pinA}
    PinLen <- MCPinLen
    Digests <- MCDigests
    Digest <- MCDigest
    ZeroDigest = zero
    DiskFaults = FALSE
    MaxHandle = 2
    HSM_MAX_OBJECTS = 3
    HSM_MAX_FIND_OBJECTS = 2
    BaseGap = 4
    Templates <- SessionTemplates
    ObjectHandles <- MCObjectHandles
    Labels = {}
    Mechanisms = {"CKM_EC_KEY_PAIR_GEN", "CKM_ECDSA"}
    MaxObject = 3
SPECIFICATION ObjectsSpec
INVARIANTS
    ObjectsTypeOK
    ObjectTable
    OperationKeyFits
    SearchSound
VIEW ObjectsView
