----------------------------- MODULE HsmSession -----------------------------
(***************************************************************************)
(* Sessions, PINs and token information of the one slot of the library, as *)
(* one client thread sees them: a step is a whole PKCS#11 call of          *)
(* session.c or C_Initialize / C_Finalize of pkcs11_impl.c, with the       *)
(* helpers of utils.c and storage.c it runs, or the end of the process.    *)
(* Interleavings of the calls of several threads are not in this module.   *)
(***************************************************************************)
EXTENDS Integers, FiniteSets

CONSTANTS
    HSM_MAX_SESSIONS,       \* entries of slot->sessions
    HSM_PIN_RETRY_COUNT,    \* wrong PINs before the PIN is locked
    HSM_MIN_PIN_LEN,
    HSM_MAX_PIN_LEN,
    LABEL_SIZE,             \* sizeof(slot->token_label)
    Pins,                   \* the PINs clients try
    PinLen,                 \* [Pins -> Nat]: ulPinLen of each
    Digests,                \* SHA-256 values
    Digest,                 \* [Pins -> Digests]: hsm_hash_pin
    ZeroDigest,             \* the 32 zero bytes calloc and memset leave
    DiskFaults,             \* may file operations fail, or leave a key file torn?
    MaxHandle               \* bound of the model on the session handles issued

ASSUME SizesAssumption ==
    /\ HSM_MAX_SESSIONS \in Nat \ {0}
    /\ HSM_PIN_RETRY_COUNT \in Nat \ {0}
    /\ HSM_MIN_PIN_LEN \in Nat /\ HSM_MAX_PIN_LEN \in Nat
    /\ LABEL_SIZE \in Nat
    /\ MaxHandle \in Nat

ASSUME PinsAssumption ==
    /\ PinLen \in [Pins -> Nat]
    /\ Digest \in [Pins -> Digests]
    /\ ZeroDigest \in Digests
    /\ DiskFaults \in BOOLEAN

CKU_SO   == "CKU_SO"
CKU_USER == "CKU_USER"
Users    == {CKU_SO, CKU_USER}

Idx == 0 .. HSM_MAX_SESSIONS - 1

\* What a caller may pass as a session handle: 0 is CK_INVALID_HANDLE.
Handles == 0 .. MaxHandle

SessionStates == {"INVALID", "RO_PUBLIC", "RO_USER", "RW_PUBLIC", "RW_USER", "RW_SO"}

Session == [handle : Nat, is_read_write : BOOLEAN, state : SessionStates,
            user_logged_in : BOOLEAN, so_logged_in : BOOLEAN]

\* A NULL entry of slot->sessions.
NoSession == [handle |-> 0, is_read_write |-> FALSE, state |-> "INVALID",
              user_logged_in |-> FALSE, so_logged_in |-> FALSE]

\* What token.dat holds.  An absent or an empty file loads as the zeroes of
\* the slot's memset, so both are Blank.
TokenFile == [token_initialized : BOOLEAN, pin_initialized : [Users -> BOOLEAN],
              token_label : 0 .. LABEL_SIZE, pin_hash : [Users -> Digests]]

Blank == [token_initialized |-> FALSE,
          pin_initialized   |-> [ut \in Users |-> FALSE],
          token_label       |-> 0,
          pin_hash          |-> [ut \in Users |-> ZeroDigest]]

\* The return codes of the library.
Codes ==
    {"CKR_OK", "CKR_HOST_MEMORY", "CKR_ARGUMENTS_BAD", "CKR_SLOT_ID_INVALID",
     "CKR_USER_TYPE_INVALID", "CKR_SESSION_PARALLEL_NOT_SUPPORTED",
     "CKR_DEVICE_ERROR", "CKR_CRYPTOKI_NOT_INITIALIZED",
     "CKR_CRYPTOKI_ALREADY_INITIALIZED", "CKR_PIN_LEN_RANGE",
     "CKR_PIN_INCORRECT", "CKR_PIN_LOCKED", "CKR_USER_PIN_NOT_INITIALIZED",
     "CKR_USER_NOT_LOGGED_IN", "CKR_USER_ALREADY_LOGGED_IN",
     "CKR_SESSION_READ_ONLY", "CKR_SESSION_COUNT", "CKR_SESSION_HANDLE_INVALID",
     "CKR_OBJECT_HANDLE_INVALID", "CKR_ATTRIBUTE_READ_ONLY",
     "CKR_ATTRIBUTE_TYPE_INVALID", "CKR_BUFFER_TOO_SMALL",
     "CKR_KEY_TYPE_INCONSISTENT", "CKR_KEY_FUNCTION_NOT_PERMITTED",
     "CKR_KEY_SIZE_RANGE", "CKR_MECHANISM_INVALID", "CKR_FUNCTION_FAILED",
     "CKR_FUNCTION_NOT_SUPPORTED", "CKR_FUNCTION_NOT_PARALLEL", "CKR_OPERATION_ACTIVE",
     "CKR_OPERATION_NOT_INITIALIZED", "CKR_RANDOM_NO_RNG"}

VARIABLES
    initialized,            \* g_hsm_context.initialized
    token_initialized,      \* the slot: token information and PINs
    token_label,            \* how many bytes of the caller's label it holds
    pin_initialized,        \* user_pin_initialized, so_pin_initialized
    pin_hash,               \* user_pin_hash, so_pin_hash
    retry_count,            \* user_pin_retry_count, so_pin_retry_count
    pin_locked,             \* user_pin_locked, so_pin_locked
    sessions,               \* the slot: its session table
    session_count,
    g_next_session_handle,  \* static of session.c: survives C_Finalize
    token_file,             \* token.dat: survives the process
    hung,                   \* a call waits for a lock its own thread holds
    rv                      \* what the last call returned

pinVars     == <<token_initialized, token_label, pin_initialized, pin_hash>>
retryVars   == <<retry_count, pin_locked>>
sessionVars == <<sessions, session_count, g_next_session_handle>>
vars == <<initialized, pinVars, retryVars, sessionVars, token_file, hung, rv>>

TypeOK ==
    /\ initialized \in BOOLEAN
    /\ token_initialized \in BOOLEAN
    /\ token_label \in 0 .. LABEL_SIZE
    /\ pin_initialized \in [Users -> BOOLEAN]
    /\ pin_hash \in [Users -> Digests]
    /\ retry_count \in [Users -> 0 .. HSM_PIN_RETRY_COUNT]
    /\ pin_locked \in [Users -> BOOLEAN]
    /\ sessions \in [Idx -> Session]
    /\ session_count \in 0 .. HSM_MAX_SESSIONS
    /\ g_next_session_handle \in Nat \ {0}
    /\ token_file \in TokenFile
    /\ hung \in BOOLEAN
    /\ rv \in Codes
-----------------------------------------------------------------------------
(* The session table and what the calls read of it.                        *)

Open == {i \in Idx : sessions[i] # NoSession}

\* Mutant: an entry counts as free when nobody is logged in on it.
FreeUnlessLoggedIn ==
    {i \in Idx : ~sessions[i].user_logged_in /\ ~sessions[i].so_logged_in}

Free == Idx \ Open

\* Mutant: handles are numbered by the sessions open.
NextHandleFromCount == session_count + 2

NextHandle == g_next_session_handle + 1

LoggedIn(i)     == sessions[i].user_logged_in \/ sessions[i].so_logged_in
LoginType(i)    == IF sessions[i].user_logged_in THEN CKU_USER ELSE CKU_SO

PublicState(rw) == IF rw THEN "RW_PUBLIC" ELSE "RO_PUBLIC"

\* Mutant: the state of a user session forgets that it is read-only.
UserStateAlwaysRW(rw) == "RW_USER"

UserState(rw) == IF rw THEN "RW_USER" ELSE "RO_USER"

\* The first entry with handle h, where the scans of hsm_get_session and
\* hsm_destroy_session stop.
Owns(i, h) ==
    /\ i \in Open
    /\ sessions[i].handle = h
    /\ \A j \in Open : sessions[j].handle = h => i <= j

\* hsm_get_session: CKR_OK when the handle is that of an open session.
hsm_get_session(h) ==
    IF ~initialized THEN "CKR_CRYPTOKI_NOT_INITIALIZED"
    ELSE IF \A i \in Open : sessions[i].handle # h THEN "CKR_SESSION_HANDLE_INVALID"
    ELSE "CKR_OK"

PinLengthOK(pin) == PinLen[pin] >= HSM_MIN_PIN_LEN /\ PinLen[pin] <= HSM_MAX_PIN_LEN
-----------------------------------------------------------------------------
(* Steps shared by the calls.                                              *)

\* The call returns code and has changed nothing.
Return(code) ==
    /\ rv' = code
    /\ UNCHANGED <<initialized, pinVars, retryVars, sessionVars, token_file, hung>>

\* The thread locks slot->lock, which it holds, a second time: a default
\* mutex is not recursive, so the call never returns.
Hang ==
    /\ hung' = TRUE
    /\ UNCHANGED <<initialized, pinVars, retryVars, sessionVars, token_file, rv>>

\* Mutant: the record is put together before the new digest is stored.
NewTokenInfoOldHash == [token_initialized |-> token_initialized', token_label |-> token_label',
                        pin_initialized |-> pin_initialized', pin_hash |-> pin_hash]

\* What the slot will hold when the call saves it.
NewTokenInfo == [token_initialized |-> token_initialized', token_label |-> token_label',
                 pin_initialized |-> pin_initialized', pin_hash |-> pin_hash']

\* Mutant: the call forgets to save.
SaveForgotten == UNCHANGED token_file

\* Mutant: what an interrupted save leaves has the new flags, not the digests.
SaveFlagsFirst ==
    \/ token_file' = NewTokenInfo
    \/ DiskFaults /\ token_file' = [NewTokenInfo EXCEPT !.pin_hash = Blank.pin_hash]

\* fopen truncates, the writes are buffered and reach the file at fclose.
\* Nobody looks at the result: a failed fopen leaves the old file, a failed
\* flush an empty one, and the call goes on.
hsm_storage_save_token_info ==
    \/ token_file' = NewTokenInfo
    \/ DiskFaults /\ token_file' \in {token_file, Blank}

\* Mutant: the locked flag is not looked at.
PinUsableIgnoresLock(ut) ==
    IF ~pin_initialized[ut] THEN "CKR_USER_PIN_NOT_INITIALIZED" ELSE "CKR_OK"

\* The code hsm_verify_pin returns before it compares digests.
PinUsable(ut) ==
    IF ~pin_initialized[ut] THEN "CKR_USER_PIN_NOT_INITIALIZED"
    ELSE IF pin_locked[ut] THEN "CKR_PIN_LOCKED"
    ELSE "CKR_OK"

PinMatches(ut, pin) == Digest[pin] = pin_hash[ut]

\* Mutant: the attempts are counted down without a floor, and never locked.
WrongPinNeverLocks(ut) ==
    /\ retry_count' = [retry_count EXCEPT ![ut] = @ - 1]
    /\ rv' = "CKR_PIN_INCORRECT"
    /\ UNCHANGED <<initialized, pinVars, pin_locked, sessionVars, token_file, hung>>

\* Mutant: the counter is tested before it is counted down.
WrongPinLocksLate(ut) ==
    LET left == IF retry_count[ut] > 0 THEN retry_count[ut] - 1 ELSE 0
    IN  /\ retry_count' = [retry_count EXCEPT ![ut] = left]
        /\ pin_locked' = [pin_locked EXCEPT ![ut] = (retry_count[ut] = 0)]
        /\ rv' = IF retry_count[ut] = 0 THEN "CKR_PIN_LOCKED" ELSE "CKR_PIN_INCORRECT"
        /\ UNCHANGED <<initialized, pinVars, sessionVars, token_file, hung>>

\* hsm_verify_pin with a wrong PIN: the caller returns its code at once.
WrongPin(ut) ==
    LET left == IF retry_count[ut] > 0 THEN retry_count[ut] - 1 ELSE 0
    IN  /\ retry_count' = [retry_count EXCEPT ![ut] = left]
        /\ pin_locked' = [pin_locked EXCEPT ![ut] = (left = 0)]
        /\ rv' = IF left = 0 THEN "CKR_PIN_LOCKED" ELSE "CKR_PIN_INCORRECT"
        /\ UNCHANGED <<initialized, pinVars, sessionVars, token_file, hung>>
-----------------------------------------------------------------------------
(* The slot's memory after calloc in C_Initialize; before it and after     *)
(* C_Finalize there is no slot, and the variables stand at these values.   *)

Init ==
    /\ initialized = FALSE
    /\ token_initialized = FALSE
    /\ token_label = 0
    /\ pin_initialized = Blank.pin_initialized
    /\ pin_hash = Blank.pin_hash
    /\ retry_count = [ut \in Users |-> HSM_PIN_RETRY_COUNT]
    /\ pin_locked = [ut \in Users |-> FALSE]
    /\ sessions = [i \in Idx |-> NoSession]
    /\ session_count = 0
    /\ g_next_session_handle = 1
    /\ token_file = Blank
    /\ hung = FALSE
    /\ rv = "CKR_OK"

\* The slot after its memset, with the token information t.
SlotHolds(t) ==
    /\ token_initialized' = t.token_initialized
    /\ token_label' = t.token_label
    /\ pin_initialized' = t.pin_initialized
    /\ pin_hash' = t.pin_hash
    /\ retry_count' = [ut \in Users |-> HSM_PIN_RETRY_COUNT]
    /\ pin_locked' = [ut \in Users |-> FALSE]
    /\ sessions' = [i \in Idx |-> NoSession]
    /\ session_count' = 0

\* hsm_init_slot with hsm_storage_load_token_info: the retry counters and the
\* locked flags are not in the file and start afresh.  A file that cannot be
\* opened is taken for one that was never written.
hsm_init_slot ==
    \/ SlotHolds(token_file)
    \/ DiskFaults /\ SlotHolds(Blank)

\* The slot is allocated and filled, and the library runs.
StartNow ==
    /\ hsm_init_slot
    /\ initialized' = TRUE
    /\ rv' = "CKR_OK"
    /\ UNCHANGED <<g_next_session_handle, token_file, hung>>

C_Initialize ==
    \/ initialized /\ Return("CKR_CRYPTOKI_ALREADY_INITIALIZED")
    \/ ~initialized /\ DiskFaults /\ Return("CKR_DEVICE_ERROR")
    \/ ~initialized /\ Return("CKR_HOST_MEMORY")
    \/ ~initialized /\ StartNow

\* hsm_cleanup_slot runs without the slot lock, so closing the sessions does
\* not hang here; then the slot is freed.
C_Finalize ==
    \/ ~initialized /\ Return("CKR_CRYPTOKI_NOT_INITIALIZED")
    \/ /\ initialized
       /\ initialized' = FALSE
       /\ SlotHolds(Blank)
       /\ rv' = "CKR_OK"
       /\ UNCHANGED <<g_next_session_handle, token_file, hung>>

\* The checks every call starts with that read nothing of the slot but its
\* existence: NULL arguments, a user type, a slot or a flag out of range.
BadArguments ==
    \/ \E code \in {"CKR_ARGUMENTS_BAD", "CKR_USER_TYPE_INVALID"} : Return(code)
    \/ /\ initialized
       /\ \E code \in {"CKR_SLOT_ID_INVALID", "CKR_SESSION_PARALLEL_NOT_SUPPORTED"} : Return(code)
-----------------------------------------------------------------------------
(* What the library tells of itself.  These calls take no lock.            *)

\* C_GetInfo, C_GetSlotInfo and C_GetTokenInfo copy, and cannot fail but for
\* their arguments.
Up == IF initialized THEN "CKR_OK" ELSE "CKR_CRYPTOKI_NOT_INITIALIZED"

C_GetInfo      == Return(Up)
C_GetSlotInfo  == Return(Up)
C_GetTokenInfo == Return(Up)

\* The flags C_GetTokenInfo reports.
TokenFlags == {"CKF_RNG", "CKF_LOGIN_REQUIRED"}
    \cup {f \in {"CKF_TOKEN_INITIALIZED"} : token_initialized}
    \cup {f \in {"CKF_USER_PIN_INITIALIZED"} : pin_initialized[CKU_USER]}
    \cup {f \in {"CKF_USER_PIN_LOCKED"} : pin_locked[CKU_USER]}

\* C_GetSlotList: the one slot always has its token, so tokenPresent does not
\* matter.  wanted: the caller asks for the list, with room for count slots,
\* and not only for its length.
C_GetSlotList(wanted, count) ==
    \/ ~initialized /\ Return("CKR_CRYPTOKI_NOT_INITIALIZED")
    \/ initialized /\ wanted /\ count < 1 /\ Return("CKR_BUFFER_TOO_SMALL")
    \/ initialized /\ (wanted => count >= 1) /\ Return("CKR_OK")
-----------------------------------------------------------------------------
(* Sessions.                                                               *)

\* The entry hsm_create_session fills: the first that is free.
OpenNow(i, rw) ==
    /\ i \in Free /\ \A j \in Free : i <= j
    /\ sessions' = [sessions EXCEPT ![i] =
          [handle |-> g_next_session_handle, is_read_write |-> rw, state |-> PublicState(rw),
           user_logged_in |-> FALSE, so_logged_in |-> FALSE]]
    /\ session_count' = session_count + 1
    /\ g_next_session_handle' = NextHandle
    /\ rv' = "CKR_OK"
    /\ UNCHANGED <<initialized, pinVars, retryVars, token_file, hung>>

\* C_OpenSession and hsm_create_session.  Both of its limits are kept: the
\* count, and an entry of the table.
C_OpenSession(rw) ==
    \/ ~initialized /\ Return("CKR_CRYPTOKI_NOT_INITIALIZED")
    \/ initialized /\ session_count >= HSM_MAX_SESSIONS /\ Return("CKR_SESSION_COUNT")
    \/ initialized /\ Free = {} /\ Return("CKR_SESSION_COUNT")
    \/ initialized /\ session_count < HSM_MAX_SESSIONS /\ Free # {} /\ Return("CKR_HOST_MEMORY")
    \/ /\ initialized
       /\ session_count < HSM_MAX_SESSIONS
       /\ g_next_session_handle <= MaxHandle
       /\ \E i \in Idx : OpenNow(i, rw)

CloseNow(i) ==
    /\ sessions' = [sessions EXCEPT ![i] = NoSession]
    /\ session_count' = session_count - 1
    /\ rv' = "CKR_OK"
    /\ UNCHANGED <<initialized, pinVars, retryVars, g_next_session_handle, token_file, hung>>

\* C_CloseSession is hsm_destroy_session.
C_CloseSession(h) ==
    \/ hsm_get_session(h) # "CKR_OK" /\ Return(hsm_get_session(h))
    \/ initialized /\ \E i \in Idx : Owns(i, h) /\ CloseNow(i)

\* Holds slot->lock and calls hsm_destroy_session, which locks it again.
C_CloseAllSessions ==
    \/ ~initialized /\ Return("CKR_CRYPTOKI_NOT_INITIALIZED")
    \/ initialized /\ Open # {} /\ Hang
    \/ initialized /\ Open = {} /\ Return("CKR_OK")

\* The session's state as C_GetSessionInfo reports it.
ReportedState(i) ==
    CASE sessions[i].state = "RO_PUBLIC" -> "CKS_RO_PUBLIC_SESSION"
      [] sessions[i].state = "RO_USER"   -> "CKS_RO_USER_FUNCTIONS"
      [] sessions[i].state = "RW_USER"   -> "CKS_RW_USER_FUNCTIONS"
      [] sessions[i].state = "RW_SO"     -> "CKS_RW_SO_FUNCTIONS"
      [] OTHER                           -> "CKS_RW_PUBLIC_SESSION"

C_GetSessionInfo(h) == Return(hsm_get_session(h))

LoginNow(i, ut) ==
    /\ retry_count' = [retry_count EXCEPT ![ut] = HSM_PIN_RETRY_COUNT]
    /\ sessions' = [sessions EXCEPT ![i] =
          [@ EXCEPT !.user_logged_in = (ut = CKU_USER),
                    !.so_logged_in = (ut = CKU_SO),
                    !.state = IF ut = CKU_SO THEN "RW_SO" ELSE UserState(sessions[i].is_read_write)]]
    /\ rv' = "CKR_OK"
    /\ UNCHANGED <<initialized, pinVars, pin_locked, session_count,
                   g_next_session_handle, token_file, hung>>

\* What C_Login refuses before it compares the PIN.
LoginError(i, ut) ==
    IF LoggedIn(i) THEN "CKR_USER_ALREADY_LOGGED_IN"
    ELSE IF ut = CKU_SO /\ ~sessions[i].is_read_write THEN "CKR_SESSION_READ_ONLY"
    ELSE PinUsable(ut)

LoginOn(i, ut, pin) ==
    \/ LoginError(i, ut) # "CKR_OK" /\ Return(LoginError(i, ut))
    \/ LoginError(i, ut) = "CKR_OK" /\ ~PinMatches(ut, pin) /\ WrongPin(ut)
    \/ LoginError(i, ut) = "CKR_OK" /\ PinMatches(ut, pin) /\ LoginNow(i, ut)

C_Login(h, ut, pin) ==
    \/ hsm_get_session(h) # "CKR_OK" /\ Return(hsm_get_session(h))
    \/ initialized /\ \E i \in Idx : Owns(i, h) /\ LoginOn(i, ut, pin)

\* Mutant: logging out of one session logs every session out.
LogoutEverywhere(i) ==
    /\ sessions' = [j \in Idx |-> IF j \notin Open THEN NoSession ELSE
          [sessions[j] EXCEPT !.user_logged_in = FALSE, !.so_logged_in = FALSE,
                              !.state = PublicState(sessions[j].is_read_write)]]
    /\ rv' = "CKR_OK"
    /\ UNCHANGED <<initialized, pinVars, retryVars, session_count,
                   g_next_session_handle, token_file, hung>>

LogoutNow(i) ==
    /\ sessions' = [sessions EXCEPT ![i] =
          [@ EXCEPT !.user_logged_in = FALSE, !.so_logged_in = FALSE,
                    !.state = PublicState(sessions[i].is_read_write)]]
    /\ rv' = "CKR_OK"
    /\ UNCHANGED <<initialized, pinVars, retryVars, session_count,
                   g_next_session_handle, token_file, hung>>

LogoutOn(i) ==
    \/ ~LoggedIn(i) /\ Return("CKR_USER_NOT_LOGGED_IN")
    \/ LoggedIn(i) /\ LogoutNow(i)

C_Logout(h) ==
    \/ hsm_get_session(h) # "CKR_OK" /\ Return(hsm_get_session(h))
    \/ initialized /\ \E i \in Idx : Owns(i, h) /\ LogoutOn(i)
-----------------------------------------------------------------------------
(* PINs.                                                                   *)

\* Mutant: the user's lock outlives the user's PIN.
InitTokenNowKeepsLock(pin) ==
    /\ pin_hash' = [pin_hash EXCEPT ![CKU_SO] = Digest[pin]]
    /\ token_label' = IF PinLen[pin] < LABEL_SIZE THEN PinLen[pin] ELSE LABEL_SIZE
    /\ token_initialized' = TRUE
    /\ pin_initialized' = [ut \in Users |-> ut = CKU_SO]
    /\ pin_locked' = [pin_locked EXCEPT ![CKU_SO] = FALSE]
    /\ retry_count' = [retry_count EXCEPT ![CKU_SO] = HSM_PIN_RETRY_COUNT]
    /\ hsm_storage_save_token_info
    /\ rv' = "CKR_OK"
    /\ UNCHANGED <<initialized, sessionVars, hung>>

\* The number of label bytes copied is taken from the PIN's length.
InitTokenNow(pin) ==
    /\ pin_hash' = [pin_hash EXCEPT ![CKU_SO] = Digest[pin]]
    /\ token_label' = IF PinLen[pin] < LABEL_SIZE THEN PinLen[pin] ELSE LABEL_SIZE
    /\ token_initialized' = TRUE
    /\ pin_initialized' = [ut \in Users |-> ut = CKU_SO]
    /\ pin_locked' = [ut \in Users |-> FALSE]
    /\ retry_count' = [ut \in Users |-> HSM_PIN_RETRY_COUNT]
    /\ hsm_storage_save_token_info
    /\ rv' = "CKR_OK"
    /\ UNCHANGED <<initialized, sessionVars, hung>>

\* Mutant: the sessions stay open.
C_InitTokenKeepsSessions(pin) == PinLengthOK(pin) /\ initialized /\ InitTokenNow(pin)

\* Closes the open sessions under slot->lock first: with one open it hangs
\* before it has changed anything.
C_InitToken(pin) ==
    \/ ~PinLengthOK(pin) /\ Return("CKR_PIN_LEN_RANGE")
    \/ PinLengthOK(pin) /\ ~initialized /\ Return("CKR_CRYPTOKI_NOT_INITIALIZED")
    \/ PinLengthOK(pin) /\ initialized /\ Open # {} /\ Hang
    \/ PinLengthOK(pin) /\ initialized /\ Open = {} /\ InitTokenNow(pin)

InitPinNow(pin) ==
    /\ pin_hash' = [pin_hash EXCEPT ![CKU_USER] = Digest[pin]]
    /\ pin_initialized' = [pin_initialized EXCEPT ![CKU_USER] = TRUE]
    /\ pin_locked' = [pin_locked EXCEPT ![CKU_USER] = FALSE]
    /\ retry_count' = [retry_count EXCEPT ![CKU_USER] = HSM_PIN_RETRY_COUNT]
    /\ UNCHANGED <<token_initialized, token_label>>
    /\ hsm_storage_save_token_info
    /\ rv' = "CKR_OK"
    /\ UNCHANGED <<initialized, sessionVars, hung>>

InitPinOn(i, pin) ==
    \/ ~sessions[i].so_logged_in /\ Return("CKR_USER_NOT_LOGGED_IN")
    \/ sessions[i].so_logged_in /\ InitPinNow(pin)

C_InitPIN(h, pin) ==
    \/ ~PinLengthOK(pin) /\ Return("CKR_PIN_LEN_RANGE")
    \/ PinLengthOK(pin) /\ hsm_get_session(h) # "CKR_OK" /\ Return(hsm_get_session(h))
    \/ PinLengthOK(pin) /\ initialized /\ \E i \in Idx : Owns(i, h) /\ InitPinOn(i, pin)

SetPinNow(ut, new) ==
    /\ pin_hash' = [pin_hash EXCEPT ![ut] = Digest[new]]
    /\ retry_count' = [retry_count EXCEPT ![ut] = HSM_PIN_RETRY_COUNT]
    /\ UNCHANGED <<token_initialized, token_label, pin_initialized, pin_locked>>
    /\ hsm_storage_save_token_info
    /\ rv' = "CKR_OK"
    /\ UNCHANGED <<initialized, sessionVars, hung>>

SetPinError(i) ==
    IF ~LoggedIn(i) THEN "CKR_USER_NOT_LOGGED_IN" ELSE PinUsable(LoginType(i))

SetPinOn(i, old, new) ==
    \/ SetPinError(i) # "CKR_OK" /\ Return(SetPinError(i))
    \/ SetPinError(i) = "CKR_OK" /\ ~PinMatches(LoginType(i), old) /\ WrongPin(LoginType(i))
    \/ /\ SetPinError(i) = "CKR_OK"
       /\ PinMatches(LoginType(i), old)
       /\ SetPinNow(LoginType(i), new)

C_SetPIN(h, old, new) ==
    \/ ~PinLengthOK(new) /\ Return("CKR_PIN_LEN_RANGE")
    \/ PinLengthOK(new) /\ hsm_get_session(h) # "CKR_OK" /\ Return(hsm_get_session(h))
    \/ PinLengthOK(new) /\ initialized /\ \E i \in Idx : Owns(i, h) /\ SetPinOn(i, old, new)
-----------------------------------------------------------------------------
(* The end of the process: killed, crashed, or gone without C_Finalize.    *)

ProcessEnds ==
    /\ initialized' = FALSE
    /\ SlotHolds(Blank)
    /\ g_next_session_handle' = 1
    /\ hung' = FALSE
    /\ rv' = "CKR_OK"

Crash == ProcessEnds /\ UNCHANGED token_file

\* Can a call be between the fopen and the fclose of its save?
SaveReachable ==
    /\ initialized /\ ~hung
    /\ \E pin \in Pins : PinLengthOK(pin)
    /\ \/ Open = {}                                       \* C_InitToken
       \/ \E i \in Open : sessions[i].so_logged_in        \* C_InitPIN
       \/ \E i \in Open, pin \in Pins :                   \* C_SetPIN
            /\ LoggedIn(i)
            /\ PinUsable(LoginType(i)) = "CKR_OK"
            /\ PinMatches(LoginType(i), pin)

CrashInSave == SaveReachable /\ ProcessEnds /\ token_file' = Blank
-----------------------------------------------------------------------------
InfoCall ==
    \/ C_GetInfo \/ C_GetSlotInfo \/ C_GetTokenInfo
    \/ \E wanted \in BOOLEAN, count \in 0 .. 1 : C_GetSlotList(wanted, count)

SessionCall ==
    \/ \E rw \in BOOLEAN : C_OpenSession(rw)
    \/ \E h \in Handles : C_CloseSession(h) \/ C_GetSessionInfo(h) \/ C_Logout(h)
    \/ \E h \in Handles, ut \in Users, pin \in Pins : C_Login(h, ut, pin)
    \/ C_CloseAllSessions

PinCall ==
    \/ \E pin \in Pins : C_InitToken(pin)
    \/ \E h \in Handles, pin \in Pins : C_InitPIN(h, pin)
    \/ \E h \in Handles, old, new \in Pins : C_SetPIN(h, old, new)

\* The thread's next call; none once it hangs.
Call ==
    ~hung /\ (C_Initialize \/ C_Finalize \/ BadArguments \/ InfoCall \/ SessionCall \/ PinCall)

Next == Call \/ Crash \/ CrashInSave

Spec == Init /\ [][Next]_vars
-----------------------------------------------------------------------------
(* Properties.                                                             *)

\* The count the calls compare with HSM_MAX_SESSIONS is the number of table
\* entries in use, and a handle names one session only: C_OpenSession finds
\* a free entry whenever the count says so, and hsm_get_session, which stops
\* at the first match, finds the session that was meant.
TableConsistent ==
    /\ session_count = Cardinality(Open)
    /\ \A i \in Open : sessions[i].handle \in 1 .. g_next_session_handle - 1
    /\ \A i, j \in Open : sessions[i].handle = sessions[j].handle => i = j
    /\ ~initialized => Open = {}

\* The state C_GetSessionInfo reports tells who is logged in: the flags that
\* guard C_InitPIN, C_SetPIN and C_GenerateKeyPair never disagree with it,
\* no session acts for both users, and the SO never acts on an RO session.
ReportedStateIsTrue ==
    \A i \in Open :
        /\ sessions[i].user_logged_in <=>
             ReportedState(i) = IF sessions[i].is_read_write THEN "CKS_RW_USER_FUNCTIONS"
                                ELSE "CKS_RO_USER_FUNCTIONS"
        /\ sessions[i].so_logged_in <=> ReportedState(i) = "CKS_RW_SO_FUNCTIONS"
        /\ ~LoggedIn(i) <=>
             ReportedState(i) = IF sessions[i].is_read_write THEN "CKS_RW_PUBLIC_SESSION"
                                ELSE "CKS_RO_PUBLIC_SESSION"
        /\ ~(sessions[i].user_logged_in /\ sessions[i].so_logged_in)
        /\ sessions[i].so_logged_in => sessions[i].is_read_write

\* The two records of a spent budget agree: the flag hsm_verify_pin tests is
\* set exactly when no attempt is left.  Every call that fills one of them
\* must see to the other.
LockedIffSpent == \A ut \in Users : pin_locked[ut] <=> retry_count[ut] = 0

\* Token information is filled in its order, in memory and in the file that
\* outlives it: a user PIN only on an initialized token, and a PIN counts as
\* initialized only when the digest was written with it (the zeroes of a
\* fresh slot are the digest of no PIN).
TokenInfoSound(t) ==
    /\ t.token_initialized <=> t.pin_initialized[CKU_SO]
    /\ t.pin_initialized[CKU_USER] => t.pin_initialized[CKU_SO]
    /\ \A ut \in Users : t.pin_initialized[ut] =>
         \E pin \in Pins : PinLengthOK(pin) /\ t.pin_hash[ut] = Digest[pin]

TokenInfo == [token_initialized |-> token_initialized, token_label |-> token_label,
              pin_initialized |-> pin_initialized, pin_hash |-> pin_hash]

TokenInfoIsSound == TokenInfoSound(TokenInfo) /\ TokenInfoSound(token_file)

\* What C_GetTokenInfo reports is what a login would meet: a PIN shown as
\* locked is refused as locked and not as missing, however tokens were
\* initialized and PINs spent before; likewise for the flags that tell who
\* has a PIN at all.
TokenFlagsTrue ==
    /\ "CKF_USER_PIN_LOCKED" \in TokenFlags <=> PinUsable(CKU_USER) = "CKR_PIN_LOCKED"
    /\ "CKF_USER_PIN_INITIALIZED" \in TokenFlags
         <=> PinUsable(CKU_USER) # "CKR_USER_PIN_NOT_INITIALIZED"
    /\ "CKF_TOKEN_INITIALIZED" \in TokenFlags
         <=> PinUsable(CKU_SO) # "CKR_USER_PIN_NOT_INITIALIZED"

\* A session acts for a user only while that user has a PIN: initializing
\* the token, which takes the user's PIN away, leaves nobody logged in.
LoggedInUserHasPin == \A i \in Open : LoggedIn(i) => pin_initialized[LoginType(i)]

\* Where files can be trusted, the file is what the running library knows:
\* every call that changes the token information saved it before it returned.
FileKeptUp == initialized /\ ~DiskFaults => token_file = TokenInfo

\* A handle is not issued twice while the process lives, not even across
\* C_Finalize and C_Initialize: a handle kept by mistake never comes to mean
\* another session.
HandleNotReused ==
    [][\A i \in Idx : sessions'[i].handle \notin {0, sessions[i].handle} =>
          /\ sessions'[i].handle = g_next_session_handle
          /\ g_next_session_handle' > g_next_session_handle]_vars

\* A call on one session leaves the others' login state alone: only the end
\* of all sessions changes more than one entry of the table.
SessionsIndependent ==
    [][\A i, j \in Open : i # j /\ sessions'[i] # sessions[i] /\ sessions'[j] # sessions[j]
          => ~initialized']_vars

\* A digest in use is replaced only by someone entitled to: the SO's by the
\* SO or by C_InitToken with no session open, the user's by the SO or by the
\* user who has just given the old PIN.  A wrong old PIN changes neither.
DigestChangeEntitled ==
    [][\A ut \in Users :
          initialized /\ initialized' /\ pin_hash'[ut] # pin_hash[ut] =>
            /\ rv' = "CKR_OK"
            /\ retry_count'[ut] = HSM_PIN_RETRY_COUNT
            /\ \/ ut = CKU_SO /\ Open = {}
               \/ \E i \in Open : sessions[i].so_logged_in
               \/ ut = CKU_USER /\ ~pin_locked[ut]
                    /\ \E i \in Open : sessions[i].user_logged_in]_vars

\* The PINs as PinPolicy promises them: the budget of a user is
\* retry_count, and a session acts for a user by its login flags.
Holders == [ut \in Users |->
              {sessions[i].handle : i \in {j \in Open : LoggedIn(j) /\ LoginType(j) = ut}}]

Policy == INSTANCE PinPolicy WITH SO <- CKU_SO, Sessions <- Handles, Budget <- HSM_PIN_RETRY_COUNT,
                                  attempts <- retry_count, holders <- Holders

\* The library keeps PinPolicy's promise: sessions log in, fail, log out and
\* change PINs only as it allows.
KeepsPinPolicy == Policy!Spec
=============================================================================
