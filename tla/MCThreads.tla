----------------------------- MODULE MCThreads ------------------------------
(***************************************************************************)
(* Small instances of HsmThreads: two threads on one slot.                 *)
(***************************************************************************)
EXTENDS HsmThreads, TLC

CONSTANTS pinA, zero

MCPinLen == [pin \in Pins |-> 4]
MCDigest == [pin \in Pins |-> pin]
MCDigests == Pins \cup {zero}

On(op, h) == [op |-> op, h |-> h]

\* The library's start and end, sessions, logins and PINs.
SessionThreadCalls ==
    {[op |-> "C_Initialize"], [op |-> "C_Finalize"], [op |-> "C_CloseAllSessions"],
     [op |-> "C_InitToken", pin |-> pinA], [op |-> "C_OpenSession", rw |-> TRUE],
     [op |-> "C_Login", h |-> 1, user |-> CKU_SO, pin |-> pinA],
     On("C_GetSessionInfo", 1), [op |-> "C_InitPIN", h |-> 1, pin |-> pinA],
     [op |-> "C_SetPIN", h |-> 1, pin |-> pinA, new |-> pinA]} \cup
    {On(op, h) : op \in {"C_CloseSession", "C_Logout"}, h \in 1 .. MaxHandle} \cup
    {[op |-> "C_Login", h |-> h, user |-> CKU_USER, pin |-> pinA] : h \in 1 .. MaxHandle}

Template(token) == [class |-> "none", token |-> token, label |-> NoLabel]

ThreadTemplates == {Template(TRUE), Template(FALSE)}

Handle(type, n) == hsm_generate_object_handle(type, n)

Key == Handle("OBJ_TYPE_PRIVATE_KEY", 2)

PublicHalf == Handle("OBJ_TYPE_PUBLIC_KEY", 1)

ThreadObjectHandles == {Key, PublicHalf, Handle("OBJ_TYPE_DATA", 1)}

\* Objects, searches, keys and signatures on one session.
ObjectThreadCalls ==
    {On(op, 1) : op \in {"C_CloseSession", "C_Logout", "C_FindObjectsInit", "C_FindObjectsFinal",
                         "C_Sign", "C_Verify", "C_GenerateRandom"}} \cup
    {[op |-> "C_FindObjects", h |-> 1, max |-> 1],
     [op |-> "C_CreateObject", h |-> 1, template |-> Template(TRUE)],
     [op |-> "C_VerifyInit", h |-> 1, object |-> PublicHalf, mechanism |-> "CKM_ECDSA"],
     [op |-> "C_GenerateKeyPair", h |-> 1, mechanism |-> "CKM_EC_KEY_PAIR_GEN",
      pub |-> Template(FALSE), priv |-> Template(FALSE)]} \cup
    {[op |-> "C_SignInit", h |-> 1, object |-> o, mechanism |-> "CKM_ECDSA"] :
        o \in {Key, PublicHalf}} \cup
    {[op |-> "C_SetAttributeValue", h |-> 1, object |-> o, label |-> "other"] :
        o \in ThreadObjectHandles \ {Key}} \cup
    {[op |-> op, h |-> 1, object |-> o] :
        op \in {"C_DestroyObject", "C_GetAttributeValue"}, o \in ThreadObjectHandles}

\* A library with the user logged in on a session, as C_Initialize,
\* C_InitToken, C_OpenSession, C_Login of the SO, C_InitPIN, C_Logout and
\* C_Login leave it.
LoggedInInit ==
    /\ initialized = TRUE
    /\ token_initialized = TRUE
    /\ token_label = 4
    /\ pin_initialized = [ut \in Users |-> TRUE]
    /\ pin_hash = [ut \in Users |-> pinA]
    /\ retry_count = [ut \in Users |-> HSM_PIN_RETRY_COUNT]
    /\ pin_locked = [ut \in Users |-> FALSE]
    /\ sessions = [i \in Idx |-> IF i > 0 THEN NoSession ELSE
          [handle |-> 1, is_read_write |-> TRUE, state |-> "RW_USER",
           user_logged_in |-> TRUE, so_logged_in |-> FALSE]]
    /\ session_count = 1
    /\ g_next_session_handle = 2
    /\ token_file = [token_initialized |-> TRUE, pin_initialized |-> pin_initialized,
                     token_label |-> 4, pin_hash |-> pin_hash]
    /\ hung = FALSE
    /\ rv = "CKR_OK"
    /\ objects = [k \in ObjIdx |-> NoObject]
    /\ object_count = 0
    /\ counter = 1
    /\ operation = [i \in Idx |-> NoOperation]
    /\ find = [i \in Idx |-> NoFind]
    /\ key_files = [h \in {} |-> Torn]
    /\ pc = [t \in Threads |-> "idle"]
    /\ local = [t \in Threads |-> NoLocals]
    /\ slots = TRUE
    /\ slot_lock = NoThread
    /\ session_lock = [i \in Idx |-> NoThread]
    /\ global_lock = NoThread
    /\ freed = {}
    /\ half = NoHalf

LoggedInSpec == LoggedInInit /\ [][ThreadsNext]_everything

\* Leaves out what nothing reads: rv, what an operation that is over last
\* named, and the results of a search that is over.
ThreadsView ==
    <<initialized, pinVars, retryVars, sessionVars, token_file, hung, tableVars, key_files, threadVars,
      [i \in Idx |-> IF operation[i].active THEN operation[i] ELSE NoOperation],
      [i \in Idx |-> IF find[i].active THEN find[i] ELSE NoFind]>>

ThreadSymmetry == Permutations(Threads)

\* A session looked at and closed, and another opened.
SafetyCalls ==
    {[op |-> "C_OpenSession", rw |-> TRUE], On("C_GetSessionInfo", 1), On("C_CloseSession", 1)}

\* "Thread safety", the comment on the locks of hsm_session_t and hsm_slot_t
\* (pkcs11_internal.h): they let threads make any calls at once, without
\* reading a session or an object that is gone.
ThreadSafety == \A t \in Threads : AccessSound(t)
=============================================================================
