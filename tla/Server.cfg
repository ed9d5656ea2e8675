CONSTANTS
    HSM_MAX_SESSIONS = 1
    HSM_PIN_RETRY_COUNT = 1
    HSM_MIN_PIN_LEN = 4
    HSM_MAX_PIN_LEN = 32
    LABEL_SIZE = 4
    zero = zero
    Pins = {}
    PinLen <- NoPinLen
    Digests = {zero}
    Digest <- NoDigest
    ZeroDigest = zero
    DiskFaults = FALSE
    MaxHandle = 1
    c1 = c1
    c2 = c2
    Clients = {c1, c2}
    Requests <- MCRequests
    BUFFER_SIZE = 1
    MAX_CLIENTS = 10
    RandomSizes = {16, 300}
    INFO_SIZE = 88
    ULONG_SIZE = 8
    BYTE = 256
    MaxRequests = 2
SPECIFICATION ServerSpec
INVARIANTS
    ServerTypeOK
    AnswersMatch
    ResponseFramed
    LibraryUpWhileServing
PROPERTIES
    RequestAnswered
    StopsAtNextConnection
CHECK_DEADLOCK FALSE
