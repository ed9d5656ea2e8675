CONSTANTS
    HSM_MAX_SESSIONS = 2
    HSM_PIN_RETRY_COUNT = 1
    HSM_MIN_PIN_LEN = 4
    HSM_MAX_PIN_LEN = 32
    LABEL_SIZE = 4
    pinA = pinA
    zero = zero
    Pins = {pinA}
    PinLen <- MCPinLen
    Digests <- MCDigests
    Digest <- MCDigest
    ZeroDigest = zero
    DiskFaults = FALSE
    MaxHandle = 2
    HSM_MAX_OBJECTS = 1
    HSM_MAX_FIND_OBJECTS = 0
    BaseGap = 4
    Templates = {}
    ObjectHandles = {}
    Labels = {}
    Mechanisms = {}
    MaxObject = 1
    Threads = {t1, t2}
    NoThread = NoThread
    Calls <- SessionThreadCalls
    Apart <- Discipline
SPECIFICATION ThreadsSpec
INVARIANTS
    LocksHeld
    AccessesSound
PROPERTIES
    CallsAtomic
    SlotLockGivenBack
    SomeCallReturns
CHECK_DEADLOCK FALSE
