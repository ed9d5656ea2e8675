-------------------------- MODULE HsmSession_proofs -------------------------
(***************************************************************************)
(* Theorems about HsmSession, for every size of its tables, every set of   *)
(* PINs and both values of DiskFaults.                                     *)
(*                                                                         *)
(* Most steps of the many calls are refusals, which change the returned    *)
(* code only.  CallEffects reduces a call to what it does to the rest of   *)
(* the state: one named effect for each way a call or the end of the       *)
(* process changes it.  Every invariant below is then proved by one step   *)
(* per effect.                                                             *)
(***************************************************************************)
EXTENDS HsmSession, FiniteSetTheorems, TLAPS

Idle == UNCHANGED <<initialized, pinVars, retryVars, sessionVars, token_file>>

Starts ==
    /\ ~initialized /\ initialized' = TRUE
    /\ hsm_init_slot
    /\ UNCHANGED <<g_next_session_handle, token_file>>

Ends ==
    /\ initialized' = FALSE
    /\ SlotHolds(Blank)
    /\ g_next_session_handle' \in {g_next_session_handle, 1}
    /\ token_file' \in {token_file, Blank}

Opens ==
    /\ initialized
    /\ session_count < HSM_MAX_SESSIONS
    /\ g_next_session_handle <= MaxHandle
    /\ \E i \in Idx, rw \in BOOLEAN : OpenNow(i, rw)

Closes == initialized /\ \E i \in Open : CloseNow(i)

LogsIn ==
    \E i \in Open, ut \in Users : LoginError(i, ut) = "CKR_OK" /\ LoginNow(i, ut)

FailsPin == \E ut \in Users : PinUsable(ut) = "CKR_OK" /\ WrongPin(ut)

LogsOut == \E i \in Open : LogoutNow(i)

InitsToken ==
    /\ initialized
    /\ Open = {}
    /\ \E pin \in Pins : PinLengthOK(pin) /\ InitTokenNow(pin)

InitsPin ==
    /\ initialized
    /\ \E i \in Open : sessions[i].so_logged_in
    /\ \E pin \in Pins : PinLengthOK(pin) /\ InitPinNow(pin)

SetsPin ==
    /\ initialized
    /\ \E i \in Open, pin \in Pins :
         PinLengthOK(pin) /\ SetPinError(i) = "CKR_OK" /\ SetPinNow(LoginType(i), pin)

Effect == Idle \/ Starts \/ Ends \/ Opens \/ Closes \/ LogsIn \/ FailsPin \/ LogsOut
             \/ InitsToken \/ InitsPin \/ SetsPin

LEMMA SizesFacts ==
    /\ HSM_MAX_SESSIONS \in Nat /\ HSM_MAX_SESSIONS > 0
    /\ HSM_PIN_RETRY_COUNT \in Nat /\ HSM_PIN_RETRY_COUNT > 0
    /\ Idx \subseteq Nat
  BY SizesAssumption DEF Idx

LEMMA ReturnIdle == ASSUME NEW code, Return(code) PROVE Idle
  BY DEF Return, Idle

LEMMA HangIdle == Hang => Idle
  BY DEF Hang, Idle

\* What a call does to the state besides rv and hung.
LEMMA CallEffects ==
    ASSUME \/ C_Initialize \/ C_Finalize \/ BadArguments \/ InfoCall
           \/ SessionCall \/ PinCall
    PROVE  Effect
<1>1. CASE C_Initialize
  BY <1>1, ReturnIdle DEF C_Initialize, StartNow, Effect, Starts
<1>2. CASE C_Finalize
  BY <1>2, ReturnIdle DEF C_Finalize, Effect, Ends
<1>3. CASE BadArguments
  BY <1>3, ReturnIdle DEF BadArguments, Effect
<1>4. CASE SessionCall
  <2>1. ASSUME NEW rw \in BOOLEAN, C_OpenSession(rw) PROVE Effect
    BY <2>1, ReturnIdle DEF C_OpenSession, Effect, Opens
  <2>2. ASSUME NEW h \in Handles, C_CloseSession(h) PROVE Effect
    BY <2>2, ReturnIdle DEF C_CloseSession, Owns, Effect, Closes
  <2>3. ASSUME NEW h \in Handles, C_GetSessionInfo(h) PROVE Effect
    BY <2>3, ReturnIdle DEF C_GetSessionInfo, Effect
  <2>4. ASSUME NEW h \in Handles, C_Logout(h) PROVE Effect
    BY <2>4, ReturnIdle DEF C_Logout, LogoutOn, Owns, Effect, LogsOut
  <2>5. ASSUME NEW h \in Handles, NEW ut \in Users, NEW pin \in Pins, C_Login(h, ut, pin)
        PROVE  Effect
    <3>1. CASE hsm_get_session(h) # "CKR_OK" /\ Return(hsm_get_session(h))
      BY <3>1, ReturnIdle DEF Effect
    <3>2. ASSUME NEW i \in Open, LoginOn(i, ut, pin) PROVE Effect
      <4>1. CASE LoginError(i, ut) # "CKR_OK" /\ Return(LoginError(i, ut))
        BY <4>1, ReturnIdle DEF Effect
      <4>2. CASE LoginError(i, ut) = "CKR_OK" /\ WrongPin(ut)
        BY <4>2 DEF LoginError, Effect, FailsPin
      <4>3. CASE LoginError(i, ut) = "CKR_OK" /\ LoginNow(i, ut)
        BY <4>3 DEF Effect, LogsIn
      <4> QED BY <3>2, <4>1, <4>2, <4>3 DEF LoginOn
    <3> QED BY <2>5, <3>1, <3>2 DEF C_Login, Owns
  <2>6. CASE C_CloseAllSessions
    BY <2>6, ReturnIdle, HangIdle DEF C_CloseAllSessions, Effect
  <2> QED BY <1>4, <2>1, <2>2, <2>3, <2>4, <2>5, <2>6 DEF SessionCall
<1>5. CASE PinCall
  <2>1. ASSUME NEW pin \in Pins, C_InitToken(pin) PROVE Effect
    BY <2>1, ReturnIdle, HangIdle DEF C_InitToken, Effect, InitsToken
  <2>2. ASSUME NEW h \in Handles, NEW pin \in Pins, C_InitPIN(h, pin) PROVE Effect
    BY <2>2, ReturnIdle DEF C_InitPIN, InitPinOn, Owns, Effect, InitsPin
  <2>3. ASSUME NEW h \in Handles, NEW old \in Pins, NEW new \in Pins, C_SetPIN(h, old, new)
        PROVE  Effect
    <3>1. ASSUME NEW code, Return(code) PROVE Effect
      BY <3>1, ReturnIdle DEF Effect
    <3>2. ASSUME NEW i \in Open, initialized, PinLengthOK(new), SetPinOn(i, old, new)
          PROVE  Effect
      <4>1. CASE SetPinError(i) = "CKR_OK" /\ WrongPin(LoginType(i))
        <5>1. LoginType(i) \in Users
          BY DEF LoginType, Users
        <5>2. PinUsable(LoginType(i)) = "CKR_OK"
          BY <4>1 DEF SetPinError
        <5> QED BY <4>1, <5>1, <5>2 DEF Effect, FailsPin
      <4>2. CASE SetPinError(i) = "CKR_OK" /\ SetPinNow(LoginType(i), new)
        BY <3>2, <4>2 DEF Effect, SetsPin
      <4> QED BY <3>1, <3>2, <4>1, <4>2 DEF SetPinOn
    <3> QED BY <2>3, <3>1, <3>2 DEF C_SetPIN, Owns
  <2> QED BY <1>5, <2>1, <2>2, <2>3 DEF PinCall
<1>6. CASE InfoCall
  BY <1>6, ReturnIdle DEF InfoCall, C_GetInfo, C_GetSlotInfo, C_GetTokenInfo, C_GetSlotList, Effect
<1> QED BY <1>1, <1>2, <1>3, <1>4, <1>5, <1>6

\* What a step of the specification does to it.
LEMMA StepEffects == [Next]_vars => Effect
<1> SUFFICES ASSUME [Next]_vars PROVE Effect
  OBVIOUS
<1>1. CASE UNCHANGED vars
  BY <1>1 DEF vars, Effect, Idle
<1>2. CASE Crash \/ CrashInSave
  BY <1>2 DEF Crash, CrashInSave, ProcessEnds, Effect, Ends
<1> QED BY <1>1, <1>2, CallEffects DEF Next, Call
-----------------------------------------------------------------------------
(* Types and the session table.  The bound on session_count is inductive   *)
(* only with the table: closing a session leaves a natural number because  *)
(* the entry it clears was counted.                                        *)

LEMMA OpenFinite == IsFiniteSet(Idx) /\ IsFiniteSet(Open)
<1>1. IsFiniteSet(Idx)
  BY SizesFacts, FS_Interval DEF Idx
<1> QED BY <1>1, FS_Subset DEF Open

LEMMA NoSessionType == NoSession \in Session /\ NoSession.handle = 0
  BY DEF NoSession, Session, SessionStates

LEMMA BlankType == Blank \in TokenFile
  BY PinsAssumption, SizesAssumption DEF Blank, TokenFile, Users

LEMMA StateNames ==
    \A rw \in BOOLEAN : UserState(rw) \in SessionStates /\ PublicState(rw) \in SessionStates
  BY DEF UserState, PublicState, SessionStates

\* What SlotHolds leaves is well typed.
LEMMA SlotHoldsType ==
    ASSUME NEW t \in TokenFile, SlotHolds(t)
    PROVE  /\ token_initialized' \in BOOLEAN
           /\ token_label' \in 0 .. LABEL_SIZE
           /\ pin_initialized' \in [Users -> BOOLEAN]
           /\ pin_hash' \in [Users -> Digests]
           /\ retry_count' \in [Users -> 0 .. HSM_PIN_RETRY_COUNT]
           /\ pin_locked' \in [Users -> BOOLEAN]
           /\ sessions' \in [Idx -> Session]
           /\ session_count' \in 0 .. HSM_MAX_SESSIONS
  BY NoSessionType, SizesFacts DEF SlotHolds, TokenFile

\* Filling one user's budget leaves well-typed counters.
LEMMA RefillType ==
    ASSUME retry_count \in [Users -> 0 .. HSM_PIN_RETRY_COUNT], NEW ut
    PROVE  [retry_count EXCEPT ![ut] = HSM_PIN_RETRY_COUNT]
             \in [Users -> 0 .. HSM_PIN_RETRY_COUNT]
<1>1. HSM_PIN_RETRY_COUNT \in 0 .. HSM_PIN_RETRY_COUNT
  BY SizesFacts
<1> QED BY <1>1

\* A save leaves a well-typed file.
LEMMA SaveType ==
    ASSUME token_file \in TokenFile, hsm_storage_save_token_info,
           token_initialized' \in BOOLEAN, token_label' \in 0 .. LABEL_SIZE,
           pin_initialized' \in [Users -> BOOLEAN], pin_hash' \in [Users -> Digests]
    PROVE  token_file' \in TokenFile
<1>1. NewTokenInfo \in TokenFile
  BY DEF NewTokenInfo, TokenFile
<1> QED BY <1>1, BlankType DEF hsm_storage_save_token_info

ControlOK == hung \in BOOLEAN /\ rv \in Codes

DataOK ==
    /\ initialized \in BOOLEAN
    /\ token_initialized \in BOOLEAN
    /\ token_label \in 0 .. LABEL_SIZE
    /\ pin_initialized \in [Users -> BOOLEAN]
    /\ pin_hash \in [Users -> Digests]
    /\ retry_count \in [Users -> 0 .. HSM_PIN_RETRY_COUNT]
    /\ pin_locked \in [Users -> BOOLEAN]
    /\ sessions \in [Idx -> Session]
    /\ session_count \in 0 .. HSM_MAX_SESSIONS
    /\ g_next_session_handle \in Nat \ {0}
    /\ token_file \in TokenFile

TableInv == DataOK /\ TableConsistent

LEMMA TableInit == Init => TableInv
<1> SUFFICES ASSUME Init PROVE TableInv
  OBVIOUS
<1>1. DataOK
  <2>1. pin_initialized \in [Users -> BOOLEAN] /\ pin_hash \in [Users -> Digests]
    BY BlankType DEF Init, TokenFile
  <2>2. /\ retry_count \in [Users -> 0 .. HSM_PIN_RETRY_COUNT]
        /\ pin_locked \in [Users -> BOOLEAN]
        /\ token_label \in 0 .. LABEL_SIZE /\ session_count \in 0 .. HSM_MAX_SESSIONS
    BY SizesFacts, SizesAssumption DEF Init
  <2>3. sessions \in [Idx -> Session]
    BY NoSessionType DEF Init
  <2>4. initialized \in BOOLEAN /\ token_initialized \in BOOLEAN
    BY DEF Init
  <2>5. g_next_session_handle \in Nat \ {0} /\ token_file \in TokenFile
    BY BlankType DEF Init
  <2> QED BY <2>1, <2>2, <2>3, <2>4, <2>5 DEF DataOK
<1>2. Open = {}
  BY DEF Init, Open
<1>3. TableConsistent
  BY <1>2, FS_EmptySet DEF Init, TableConsistent
<1> QED BY <1>1, <1>3 DEF TableInv

LEMMA TableEffect == TableInv /\ Effect => TableInv'
<1> SUFFICES ASSUME TableInv, Effect PROVE TableInv'
  OBVIOUS
<1> USE DEF TableInv
<1>1. CASE Idle
  BY <1>1 DEF Idle, DataOK, TableConsistent, Open, pinVars, retryVars, sessionVars
<1>2. CASE Starts \/ Ends
  <2>1. PICK t \in TokenFile : SlotHolds(t)
    BY <1>2, BlankType DEF Starts, Ends, hsm_init_slot, DataOK
  <2>2. DataOK'
    <3>1. initialized' \in BOOLEAN
      BY <1>2 DEF Starts, Ends
    <3>2. g_next_session_handle' \in Nat \ {0} /\ token_file' \in TokenFile
      BY <1>2, BlankType DEF Starts, Ends, DataOK
    <3> HIDE DEF TableInv
    <3> QED BY <2>1, <3>1, <3>2, SlotHoldsType DEF DataOK
  <2>3. Open' = {} /\ session_count' = 0
    BY <2>1 DEF SlotHolds, Open
  <2>4. TableConsistent'
    BY <2>3, FS_EmptySet DEF TableConsistent
  <2> QED BY <2>2, <2>4
<1>3. CASE Opens
  <2>1. PICK i \in Idx, rw \in BOOLEAN : OpenNow(i, rw)
    BY <1>3 DEF Opens
  <2> DEFINE new == [handle |-> g_next_session_handle, is_read_write |-> rw,
                     state |-> PublicState(rw),
                     user_logged_in |-> FALSE, so_logged_in |-> FALSE]
  <2>2. new \in Session /\ new # NoSession
    BY StateNames DEF DataOK, Session, NoSession
  <2>3. /\ i \in Idx \ Open
        /\ sessions' = [sessions EXCEPT ![i] = new]
        /\ session_count' = session_count + 1
        /\ g_next_session_handle' = g_next_session_handle + 1
        /\ UNCHANGED <<initialized, pinVars, retryVars, token_file>>
    BY <2>1 DEF OpenNow, Free, NextHandle
  <2>4. DataOK'
    BY <1>3, <2>2, <2>3, SizesFacts DEF DataOK, Opens, pinVars, retryVars
  <2>5. Open' = Open \cup {i}
    BY <2>2, <2>3 DEF Open, DataOK
  <2>6. Cardinality(Open') = Cardinality(Open) + 1
    BY <2>3, <2>5, OpenFinite, FS_AddElement
  <2>7. \A j \in Open : sessions'[j] = sessions[j]
    BY <2>3 DEF DataOK, Open
  <2>8. sessions'[i].handle = g_next_session_handle
    BY <2>3 DEF DataOK
  <2>9. TableConsistent'
    <3>1. \A j \in Open' : sessions'[j].handle \in 1 .. g_next_session_handle' - 1
      BY <2>3, <2>5, <2>7, <2>8 DEF TableConsistent, DataOK
    <3>2. \A j, k \in Open' : sessions'[j].handle = sessions'[k].handle => j = k
      BY <2>5, <2>7, <2>8 DEF TableConsistent, DataOK
    <3> QED BY <1>3, <2>3, <2>6, <3>1, <3>2 DEF TableConsistent, Opens
  <2> QED BY <2>4, <2>9
<1>4. CASE Closes
  <2>1. PICK i \in Open : CloseNow(i)
    BY <1>4 DEF Closes
  <2>2. /\ sessions' = [sessions EXCEPT ![i] = NoSession]
        /\ session_count' = session_count - 1
        /\ UNCHANGED <<initialized, pinVars, retryVars, g_next_session_handle, token_file>>
    BY <2>1 DEF CloseNow
  <2>3. Open' = Open \ {i}
    BY <2>2 DEF Open, DataOK
  <2>4. Cardinality(Open') = Cardinality(Open) - 1 /\ Cardinality(Open') \in Nat
    BY <2>3, OpenFinite, FS_RemoveElement, FS_Subset, FS_CardinalityType
  <2>5. DataOK'
    <3>1. session_count' \in 0 .. HSM_MAX_SESSIONS
      BY <2>2, <2>4, SizesFacts DEF DataOK, TableConsistent
    <3>2. sessions' \in [Idx -> Session]
      BY <2>2, NoSessionType DEF DataOK
    <3> QED BY <2>2, <3>1, <3>2 DEF DataOK, pinVars, retryVars
  <2>6. \A j \in Open' : sessions'[j] = sessions[j] /\ j \in Open
    BY <2>2, <2>3 DEF DataOK, Open
  <2>7. TableConsistent'
    BY <1>4, <2>2, <2>4, <2>6 DEF TableConsistent, Closes
  <2> QED BY <2>5, <2>7
<1>5. CASE LogsIn \/ LogsOut
  <2>1. PICK i \in Open, s \in Session :
           /\ s.handle = sessions[i].handle
           /\ sessions' = [sessions EXCEPT ![i] = s]
           /\ UNCHANGED <<initialized, pinVars, pin_locked, session_count,
                          g_next_session_handle, token_file>>
           /\ retry_count' \in [Users -> 0 .. HSM_PIN_RETRY_COUNT]
    <3>1. CASE LogsIn
      <4>1. PICK i \in Open, ut \in Users : LoginNow(i, ut)
        BY <3>1 DEF LogsIn
      <4> DEFINE s == [sessions[i] EXCEPT !.user_logged_in = (ut = CKU_USER),
                         !.so_logged_in = (ut = CKU_SO),
                         !.state = IF ut = CKU_SO THEN "RW_SO"
                                   ELSE UserState(sessions[i].is_read_write)]
      <4>2. sessions[i] \in Session
        BY DEF Open, DataOK
      <4>3. s \in Session /\ s.handle = sessions[i].handle
        BY <4>2, StateNames DEF Session, SessionStates
      <4>4. retry_count' \in [Users -> 0 .. HSM_PIN_RETRY_COUNT]
        BY <4>1, SizesFacts DEF LoginNow, DataOK
      <4> QED BY <4>1, <4>3, <4>4 DEF LoginNow
    <3>2. CASE LogsOut
      <4>1. PICK i \in Open : LogoutNow(i)
        BY <3>2 DEF LogsOut
      <4> DEFINE s == [sessions[i] EXCEPT !.user_logged_in = FALSE, !.so_logged_in = FALSE,
                         !.state = PublicState(sessions[i].is_read_write)]
      <4>2. sessions[i] \in Session
        BY DEF Open, DataOK
      <4>3. s \in Session /\ s.handle = sessions[i].handle
        BY <4>2, StateNames DEF Session
      <4> QED BY <4>1, <4>3 DEF LogoutNow, DataOK, retryVars
    <3> QED BY <1>5, <3>1, <3>2
  <2>2. DataOK'
    BY <2>1 DEF DataOK, pinVars
  <2>3. s # NoSession
    BY <2>1, NoSessionType DEF TableConsistent
  <2>4. Open' = Open
    BY <2>1, <2>3 DEF Open, DataOK
  <2>5. \A j \in Open : sessions'[j].handle = sessions[j].handle
    BY <2>1 DEF DataOK, Open
  <2>6. TableConsistent'
    BY <2>1, <2>4, <2>5 DEF TableConsistent
  <2> QED BY <2>2, <2>6
<1>6. CASE FailsPin
  <2>1. PICK ut \in Users : WrongPin(ut)
    BY <1>6 DEF FailsPin
  <2>2. /\ retry_count' \in [Users -> 0 .. HSM_PIN_RETRY_COUNT]
        /\ pin_locked' \in [Users -> BOOLEAN]
    BY <2>1, SizesFacts DEF WrongPin, DataOK
  <2>3. DataOK'
    BY <2>1, <2>2 DEF WrongPin, DataOK, pinVars, sessionVars
  <2> QED BY <2>1, <2>3 DEF WrongPin, TableConsistent, Open, sessionVars
<1>7. CASE InitsToken \/ InitsPin \/ SetsPin
  <2>1. /\ token_initialized' \in BOOLEAN /\ token_label' \in 0 .. LABEL_SIZE
        /\ pin_initialized' \in [Users -> BOOLEAN] /\ pin_hash' \in [Users -> Digests]
        /\ retry_count' \in [Users -> 0 .. HSM_PIN_RETRY_COUNT]
        /\ pin_locked' \in [Users -> BOOLEAN]
        /\ hsm_storage_save_token_info
        /\ UNCHANGED <<initialized, sessionVars>>
    <3>1. CASE InitsToken
      <4>1. PICK pin \in Pins : PinLengthOK(pin) /\ InitTokenNow(pin)
        BY <3>1 DEF InitsToken
      <4>2. PinLen[pin] \in Nat /\ Digest[pin] \in Digests
        BY PinsAssumption
      <4>3. token_label' \in 0 .. LABEL_SIZE
        BY <4>1, <4>2, SizesAssumption DEF InitTokenNow
      <4>4. token_initialized' \in BOOLEAN /\ pin_hash' \in [Users -> Digests]
        BY <4>1, <4>2 DEF InitTokenNow, DataOK
      <4>5. pin_initialized' \in [Users -> BOOLEAN] /\ pin_locked' \in [Users -> BOOLEAN]
        BY <4>1 DEF InitTokenNow, DataOK
      <4>6. retry_count' \in [Users -> 0 .. HSM_PIN_RETRY_COUNT]
        BY <4>1, SizesFacts DEF InitTokenNow, DataOK
      <4> QED BY <4>1, <4>3, <4>4, <4>5, <4>6 DEF InitTokenNow
    <3>2. CASE InitsPin
      <4>1. PICK pin \in Pins : InitPinNow(pin)
        BY <3>2 DEF InitsPin
      <4>2. Digest[pin] \in Digests
        BY PinsAssumption
      <4>3. token_label' \in 0 .. LABEL_SIZE
        BY <4>1 DEF InitPinNow, DataOK
      <4>4. token_initialized' \in BOOLEAN /\ pin_hash' \in [Users -> Digests]
        BY <4>1, <4>2 DEF InitPinNow, DataOK
      <4>5. pin_initialized' \in [Users -> BOOLEAN] /\ pin_locked' \in [Users -> BOOLEAN]
        BY <4>1 DEF InitPinNow, DataOK
      <4>6. retry_count' \in [Users -> 0 .. HSM_PIN_RETRY_COUNT]
        BY <4>1, RefillType DEF InitPinNow, DataOK
      <4> QED BY <4>1, <4>3, <4>4, <4>5, <4>6 DEF InitPinNow
    <3>3. CASE SetsPin
      <4>1. PICK i \in Open, pin \in Pins : SetPinNow(LoginType(i), pin)
        BY <3>3 DEF SetsPin
      <4>2. Digest[pin] \in Digests
        BY PinsAssumption
      <4>3. token_label' \in 0 .. LABEL_SIZE
        BY <4>1 DEF SetPinNow, DataOK
      <4>4. token_initialized' \in BOOLEAN /\ pin_hash' \in [Users -> Digests]
        BY <4>1, <4>2 DEF SetPinNow, DataOK
      <4>5. pin_initialized' \in [Users -> BOOLEAN] /\ pin_locked' \in [Users -> BOOLEAN]
        BY <4>1 DEF SetPinNow, DataOK
      <4>6. retry_count' \in [Users -> 0 .. HSM_PIN_RETRY_COUNT]
        BY <4>1, RefillType DEF SetPinNow, DataOK
      <4> QED BY <4>1, <4>3, <4>4, <4>5, <4>6 DEF SetPinNow
    <3> QED BY <1>7, <3>1, <3>2, <3>3
  <2>2. DataOK'
    BY <2>1, SaveType DEF DataOK, sessionVars
  <2> QED BY <2>1, <2>2 DEF TableConsistent, Open, sessionVars
<1> QED BY <1>1, <1>2, <1>3, <1>4, <1>5, <1>6, <1>7 DEF Effect

LEMMA TableStep == TableInv /\ [Next]_vars => TableInv'
  BY StepEffects, TableEffect
-----------------------------------------------------------------------------
(* Locks and budgets.                                                      *)

LEMMA LockInit == Init => LockedIffSpent
  BY SizesFacts DEF Init, LockedIffSpent

LEMMA LockStep == TableInv /\ LockedIffSpent /\ Effect => LockedIffSpent'
<1> SUFFICES ASSUME DataOK, LockedIffSpent, Effect PROVE LockedIffSpent'
  BY DEF TableInv
<1>1. CASE UNCHANGED retryVars
  BY <1>1 DEF LockedIffSpent, retryVars
<1>2. CASE Idle \/ Opens \/ Closes \/ LogsOut
  BY <1>1, <1>2 DEF Idle, Opens, Closes, LogsOut, OpenNow, CloseNow, LogoutNow
<1>3. CASE Starts \/ Ends
  BY <1>3, SizesFacts DEF Starts, Ends, hsm_init_slot, SlotHolds, LockedIffSpent
<1>4. CASE LogsIn
  <2>1. PICK i \in Open, ut \in Users : LoginError(i, ut) = "CKR_OK" /\ LoginNow(i, ut)
    BY <1>4 DEF LogsIn
  <2>2. ~pin_locked[ut]
    BY <2>1 DEF LoginError, PinUsable
  <2>3. retry_count'[ut] = HSM_PIN_RETRY_COUNT /\ pin_locked' = pin_locked
    BY <2>1 DEF LoginNow, DataOK
  <2>4. \A v \in Users : v # ut => retry_count'[v] = retry_count[v]
    BY <2>1 DEF LoginNow, DataOK
  <2> QED BY <2>2, <2>3, <2>4, SizesFacts DEF LockedIffSpent
<1>5. CASE FailsPin
  BY <1>5 DEF FailsPin, WrongPin, LockedIffSpent, DataOK
<1>6. CASE InitsToken
  BY <1>6, SizesFacts DEF InitsToken, InitTokenNow, LockedIffSpent
<1>7. CASE InitsPin
  BY <1>7, SizesFacts DEF InitsPin, InitPinNow, LockedIffSpent, DataOK
<1>8. CASE SetsPin
  <2>1. PICK i \in Open, pin \in Pins :
           SetPinError(i) = "CKR_OK" /\ SetPinNow(LoginType(i), pin)
    BY <1>8 DEF SetsPin
  <2> DEFINE ut == LoginType(i)
  <2>2. ut \in Users /\ ~pin_locked[ut]
    BY <2>1 DEF SetPinError, PinUsable, LoginType, Users
  <2>3. retry_count'[ut] = HSM_PIN_RETRY_COUNT /\ pin_locked' = pin_locked
    BY <2>1, <2>2 DEF SetPinNow, DataOK
  <2>4. \A v \in Users : v # ut => retry_count'[v] = retry_count[v]
    BY <2>1 DEF SetPinNow, DataOK
  <2> QED BY <2>2, <2>3, <2>4, SizesFacts DEF LockedIffSpent
<1> QED BY <1>2, <1>3, <1>4, <1>5, <1>6, <1>7, <1>8 DEF Effect
-----------------------------------------------------------------------------
(* Login state.  ReportedStateIsTrue is kept because the state of a session *)
(* is at all times a function of its three flags.                          *)

StateOf(s) ==
    IF s.so_logged_in THEN "RW_SO"
    ELSE IF s.user_logged_in THEN UserState(s.is_read_write)
    ELSE PublicState(s.is_read_write)

FlagsSound(s) ==
    /\ s.state = StateOf(s)
    /\ ~(s.user_logged_in /\ s.so_logged_in)
    /\ s.so_logged_in => s.is_read_write

LoginInv ==
    \A i \in Open : /\ FlagsSound(sessions[i])
                    /\ LoggedIn(i) => pin_initialized[LoginType(i)]

LEMMA LoginInit == Init => LoginInv
  BY DEF Init, LoginInv, Open

LEMMA LoginStep == TableInv /\ LoginInv /\ Effect => LoginInv'
<1> SUFFICES ASSUME TableInv, DataOK, LoginInv, Effect PROVE LoginInv'
  BY DEF TableInv
<1>1. ASSUME UNCHANGED <<sessions, pin_initialized>> PROVE LoginInv'
  BY <1>1 DEF LoginInv, Open, LoggedIn, LoginType
<1>2. CASE Idle \/ FailsPin
  BY <1>1, <1>2 DEF Idle, FailsPin, WrongPin, pinVars, sessionVars
<1>3. CASE Starts \/ Ends \/ InitsToken
  <2>1. Open' = {}
    BY <1>3 DEF Starts, Ends, hsm_init_slot, SlotHolds, InitsToken, InitTokenNow, Open, sessionVars
  <2> QED BY <2>1 DEF LoginInv
<1>4. CASE Opens
  <2>1. PICK i \in Idx, rw \in BOOLEAN : OpenNow(i, rw)
    BY <1>4 DEF Opens
  <2>2. FlagsSound(sessions'[i]) /\ ~LoggedIn(i)'
    BY <2>1 DEF OpenNow, FlagsSound, StateOf, LoggedIn, DataOK
  <2>3. \A j \in Open' : j # i => j \in Open /\ sessions'[j] = sessions[j]
    BY <2>1 DEF OpenNow, Open, DataOK
  <2>4. pin_initialized' = pin_initialized
    BY <2>1 DEF OpenNow, pinVars
  <2> QED BY <2>2, <2>3, <2>4 DEF LoginInv, LoggedIn, LoginType
<1>5. CASE Closes
  <2>1. PICK i \in Open : CloseNow(i)
    BY <1>5 DEF Closes
  <2>2. \A j \in Open' : j \in Open /\ sessions'[j] = sessions[j]
    BY <2>1 DEF CloseNow, Open, DataOK
  <2>3. pin_initialized' = pin_initialized
    BY <2>1 DEF CloseNow, pinVars
  <2> QED BY <2>2, <2>3 DEF LoginInv, LoggedIn, LoginType
<1>6. CASE LogsIn
  <2>1. PICK i \in Open, ut \in Users : LoginError(i, ut) = "CKR_OK" /\ LoginNow(i, ut)
    BY <1>6 DEF LogsIn
  <2>2. sessions[i] \in Session /\ i \in Idx
    BY DEF Open, DataOK
  <2>3. ut = CKU_SO => sessions[i].is_read_write
    BY <2>1, <2>2 DEF LoginError, Session
  <2>4. FlagsSound(sessions'[i]) /\ LoginType(i)' = ut
    BY <2>1, <2>2, <2>3 DEF LoginNow, FlagsSound, StateOf, LoginType, DataOK, Users, CKU_SO,
                            CKU_USER, Session
  <2>5. \A j \in Open' : j # i => j \in Open /\ sessions'[j] = sessions[j]
    BY <2>1 DEF LoginNow, Open, DataOK
  <2>6. pin_initialized' = pin_initialized /\ pin_initialized[ut]
    BY <2>1 DEF LoginNow, pinVars, LoginError, PinUsable
  <2> QED BY <2>4, <2>5, <2>6 DEF LoginInv, LoggedIn, LoginType
<1>7. CASE LogsOut
  <2>1. PICK i \in Open : LogoutNow(i)
    BY <1>7 DEF LogsOut
  <2>2. sessions[i] \in Session /\ i \in Idx
    BY DEF Open, DataOK
  <2>3. FlagsSound(sessions'[i]) /\ ~LoggedIn(i)'
    BY <2>1, <2>2 DEF LogoutNow, FlagsSound, StateOf, LoggedIn, DataOK, Session
  <2>4. \A j \in Open' : j # i => j \in Open /\ sessions'[j] = sessions[j]
    BY <2>1 DEF LogoutNow, Open, DataOK
  <2>5. pin_initialized' = pin_initialized
    BY <2>1 DEF LogoutNow, pinVars
  <2> QED BY <2>3, <2>4, <2>5 DEF LoginInv, LoggedIn, LoginType
<1>8. CASE InitsPin \/ SetsPin
  <2>1. sessions' = sessions
    BY <1>8 DEF InitsPin, InitPinNow, SetsPin, SetPinNow, sessionVars
  <2>2. \A v \in Users : pin_initialized[v] => pin_initialized'[v]
    BY <1>8 DEF InitsPin, InitPinNow, SetsPin, SetPinNow, DataOK
  <2>3. \A i \in Open : LoginType(i) \in Users
    BY DEF LoginType, Users
  <2> QED BY <2>1, <2>2, <2>3 DEF LoginInv, Open, LoggedIn, LoginType
<1> QED BY <1>2, <1>3, <1>4, <1>5, <1>6, <1>7, <1>8 DEF Effect

LEMMA LoginInvImplies == DataOK /\ LoginInv => ReportedStateIsTrue /\ LoggedInUserHasPin
<1> SUFFICES ASSUME DataOK, LoginInv, NEW i \in Open
             PROVE  /\ ReportedStateIsTrue!(i)
                    /\ LoggedIn(i) => pin_initialized[LoginType(i)]
  BY DEF ReportedStateIsTrue, LoggedInUserHasPin
<1>1. sessions[i] \in Session /\ FlagsSound(sessions[i])
  BY DEF Open, DataOK, LoginInv
<1>2. ReportedStateIsTrue!(i)
  BY <1>1 DEF FlagsSound, StateOf, UserState, PublicState, ReportedState, LoggedIn, Session
<1> QED BY <1>2 DEF LoginInv
-----------------------------------------------------------------------------
(* Return codes.                                                           *)

LEMMA ControlInit == Init => ControlOK
  BY DEF Init, ControlOK, Codes

LEMMA ReturnControl ==
    ASSUME ControlOK, NEW code \in Codes, Return(code) PROVE ControlOK'
  BY DEF Return, ControlOK

LEMMA HangControl == ControlOK /\ Hang => ControlOK'
  BY DEF Hang, ControlOK

LEMMA CodeTypes ==
    /\ \A h \in Handles : hsm_get_session(h) \in Codes
    /\ \A i, ut : PinUsable(ut) \in Codes /\ LoginError(i, ut) \in Codes /\ SetPinError(i) \in Codes
  BY DEF hsm_get_session, PinUsable, LoginError, SetPinError, Codes

LEMMA ControlStep == ControlOK /\ [Next]_vars => ControlOK'
<1> SUFFICES ASSUME ControlOK, [Next]_vars PROVE ControlOK'
  OBVIOUS
<1>1. CASE UNCHANGED vars
  BY <1>1 DEF vars, ControlOK
<1>2. CASE Crash \/ CrashInSave
  BY <1>2 DEF Crash, CrashInSave, ProcessEnds, ControlOK, Codes
<1>3. CASE C_Initialize \/ C_Finalize
  <2>1. ASSUME rv' = "CKR_OK", UNCHANGED hung PROVE ControlOK'
    BY <2>1 DEF ControlOK, Codes
  <2>2. ASSUME NEW code \in {"CKR_CRYPTOKI_ALREADY_INITIALIZED", "CKR_DEVICE_ERROR",
                             "CKR_HOST_MEMORY", "CKR_CRYPTOKI_NOT_INITIALIZED"},
               Return(code)
        PROVE  ControlOK'
    BY <2>2, ReturnControl DEF Codes
  <2> QED BY <1>3, <2>1, <2>2 DEF C_Initialize, StartNow, C_Finalize
<1>4. CASE BadArguments
  BY <1>4, ReturnControl DEF BadArguments, Codes
<1>5. CASE SessionCall
  <2>1. ASSUME NEW rw \in BOOLEAN, C_OpenSession(rw) PROVE ControlOK'
    <3>1. ASSUME NEW code \in {"CKR_CRYPTOKI_NOT_INITIALIZED", "CKR_SESSION_COUNT",
                               "CKR_HOST_MEMORY"}, Return(code)
          PROVE  ControlOK'
      BY <3>1, ReturnControl DEF Codes
    <3>2. ASSUME NEW i, OpenNow(i, rw) PROVE ControlOK'
      BY <3>2 DEF OpenNow, ControlOK, Codes
    <3> QED BY <2>1, <3>1, <3>2 DEF C_OpenSession
  <2>2. ASSUME NEW h \in Handles, C_CloseSession(h) PROVE ControlOK'
    BY <2>2, CodeTypes, ReturnControl DEF C_CloseSession, CloseNow, ControlOK, Codes
  <2>3. ASSUME NEW h \in Handles, C_GetSessionInfo(h) PROVE ControlOK'
    BY <2>3, CodeTypes, ReturnControl DEF C_GetSessionInfo
  <2>4. ASSUME NEW h \in Handles, C_Logout(h) PROVE ControlOK'
    <3>1. ASSUME NEW i, LogoutOn(i) PROVE ControlOK'
      BY <3>1, ReturnControl DEF LogoutOn, LogoutNow, ControlOK, Codes
    <3> QED BY <2>4, <3>1, CodeTypes, ReturnControl DEF C_Logout
  <2>5. ASSUME NEW h \in Handles, NEW ut \in Users, NEW pin \in Pins, C_Login(h, ut, pin)
        PROVE  ControlOK'
    <3>1. ASSUME NEW i, LoginOn(i, ut, pin) PROVE ControlOK'
      BY <3>1, CodeTypes, ReturnControl DEF LoginOn, LoginNow, WrongPin, ControlOK, Codes
    <3> QED BY <2>5, <3>1, CodeTypes, ReturnControl DEF C_Login
  <2>6. CASE C_CloseAllSessions
    BY <2>6, ReturnControl, HangControl DEF C_CloseAllSessions, Codes
  <2> QED BY <1>5, <2>1, <2>2, <2>3, <2>4, <2>5, <2>6 DEF SessionCall
<1>6. CASE PinCall
  <2>1. ASSUME NEW pin \in Pins, C_InitToken(pin) PROVE ControlOK'
    <3>1. ASSUME InitTokenNow(pin) PROVE ControlOK'
      BY <3>1 DEF InitTokenNow, ControlOK, Codes
    <3>2. ASSUME NEW code \in {"CKR_PIN_LEN_RANGE", "CKR_CRYPTOKI_NOT_INITIALIZED"},
                 Return(code)
          PROVE  ControlOK'
      BY <3>2, ReturnControl DEF Codes
    <3> QED BY <2>1, <3>1, <3>2, HangControl DEF C_InitToken
  <2>2. ASSUME Return("CKR_PIN_LEN_RANGE") \/ Return("CKR_USER_NOT_LOGGED_IN")
        PROVE  ControlOK'
    BY <2>2, ReturnControl DEF Codes
  <2>3. ASSUME NEW h \in Handles, NEW pin \in Pins, C_InitPIN(h, pin) PROVE ControlOK'
    <3>1. ASSUME InitPinNow(pin) PROVE ControlOK'
      BY <3>1 DEF InitPinNow, ControlOK, Codes
    <3> QED BY <2>2, <2>3, <3>1, CodeTypes, ReturnControl DEF C_InitPIN, InitPinOn
  <2>4. ASSUME NEW h \in Handles, NEW old \in Pins, NEW new \in Pins, C_SetPIN(h, old, new)
        PROVE  ControlOK'
    <3>1. ASSUME NEW i, SetPinOn(i, old, new) PROVE ControlOK'
      BY <3>1, CodeTypes, ReturnControl DEF SetPinOn, SetPinNow, WrongPin, ControlOK, Codes
    <3> QED BY <2>2, <2>4, <3>1, CodeTypes, ReturnControl DEF C_SetPIN
  <2> QED BY <1>6, <2>1, <2>3, <2>4 DEF PinCall
<1>7. CASE InfoCall
  <2>1. Up \in Codes
    BY DEF Up, Codes
  <2>2. ASSUME NEW code \in {"CKR_CRYPTOKI_NOT_INITIALIZED", "CKR_BUFFER_TOO_SMALL", "CKR_OK"},
               Return(code)
        PROVE  ControlOK'
    BY <2>2, ReturnControl DEF Codes
  <2> QED BY <1>7, <2>1, <2>2, ReturnControl DEF InfoCall, C_GetInfo, C_GetSlotInfo,
                                                  C_GetTokenInfo, C_GetSlotList
<1> QED BY <1>1, <1>2, <1>3, <1>4, <1>5, <1>6, <1>7 DEF Next, Call
-----------------------------------------------------------------------------
(* Token information.  TokenInfoIsSound is inductive by itself: memory is  *)
(* filled from the file, the file from memory.                             *)

LEMMA BlankSound == TokenInfoSound(Blank)
  BY DEF Blank, TokenInfoSound, Users, CKU_SO, CKU_USER

\* A save leaves a sound file when the slot was left sound.
LEMMA SaveSound ==
    ASSUME hsm_storage_save_token_info, TokenInfoSound(TokenInfo)', TokenInfoSound(token_file)
    PROVE  TokenInfoSound(token_file)'
<1>1. NewTokenInfo = TokenInfo'
  BY DEF NewTokenInfo, TokenInfo
<1>2. token_file' \in {TokenInfo', token_file, Blank}
  BY <1>1 DEF hsm_storage_save_token_info
<1> QED BY <1>2, BlankSound DEF TokenInfoSound

LEMMA TokenInfoInit == Init => TokenInfoIsSound
<1> SUFFICES ASSUME Init PROVE TokenInfoIsSound
  OBVIOUS
<1>1. TokenInfo = Blank /\ token_file = Blank
  BY DEF Init, TokenInfo, Blank
<1> QED BY <1>1, BlankSound DEF TokenInfoIsSound

LEMMA TokenInfoStep == DataOK /\ TokenInfoIsSound /\ LoginInv /\ Effect => TokenInfoIsSound'
<1> SUFFICES ASSUME DataOK, TokenInfoIsSound, LoginInv, Effect PROVE TokenInfoIsSound'
  OBVIOUS
<1>1. ASSUME UNCHANGED <<pinVars, token_file>> PROVE TokenInfoIsSound'
  BY <1>1 DEF TokenInfoIsSound, TokenInfoSound, TokenInfo, pinVars
<1>2. CASE Idle \/ Opens \/ Closes \/ LogsIn \/ FailsPin \/ LogsOut
  BY <1>1, <1>2 DEF Idle, Opens, OpenNow, Closes, CloseNow, LogsIn, LoginNow, FailsPin, WrongPin,
                    LogsOut, LogoutNow
<1>3. CASE Starts \/ Ends
  <2>1. PICK t \in {token_file, Blank} : SlotHolds(t) /\ TokenInfoSound(t)
    BY <1>3, BlankSound DEF Starts, Ends, hsm_init_slot, TokenInfoIsSound
  <2>2. TokenInfoSound(TokenInfo)'
    BY <2>1 DEF SlotHolds, TokenInfo, TokenInfoSound
  <2>3. TokenInfoSound(token_file)'
    BY <1>3, BlankSound DEF Starts, Ends, TokenInfoIsSound, TokenInfoSound
  <2> QED BY <2>2, <2>3 DEF TokenInfoIsSound
<1>4. CASE InitsToken
  <2>1. PICK pin \in Pins : PinLengthOK(pin) /\ InitTokenNow(pin)
    BY <1>4 DEF InitsToken
  <2>2. /\ token_initialized' /\ pin_initialized'[CKU_SO] /\ ~pin_initialized'[CKU_USER]
        /\ pin_hash'[CKU_SO] = Digest[pin]
    BY <2>1 DEF InitTokenNow, DataOK, Users, CKU_SO, CKU_USER
  <2>3. TokenInfoSound(TokenInfo)'
    BY <2>1, <2>2 DEF TokenInfo, TokenInfoSound, Users, PinLengthOK
  <2> QED BY <2>1, <2>3, SaveSound DEF InitTokenNow, TokenInfoIsSound
<1>5. CASE InitsPin
  <2>1. PICK pin \in Pins : PinLengthOK(pin) /\ InitPinNow(pin)
    BY <1>5 DEF InitsPin
  <2>2. /\ token_initialized' = token_initialized
        /\ pin_initialized'[CKU_SO] = pin_initialized[CKU_SO]
        /\ pin_initialized'[CKU_USER]
        /\ pin_hash'[CKU_SO] = pin_hash[CKU_SO]
        /\ pin_hash'[CKU_USER] = Digest[pin]
    BY <2>1 DEF InitPinNow, DataOK, Users, CKU_SO, CKU_USER
  <2>3. PICK i \in Open : sessions[i].so_logged_in
    BY <1>5 DEF InitsPin
  <2>4. ~sessions[i].user_logged_in
    BY <2>3 DEF LoginInv, FlagsSound
  <2>5. pin_initialized[CKU_SO]
    BY <2>3, <2>4 DEF LoginInv, LoggedIn, LoginType
  <2>6. TokenInfoSound(TokenInfo)
    BY DEF TokenInfoIsSound
  <2>7. TokenInfoSound(TokenInfo)'
    BY <2>1, <2>2, <2>5, <2>6 DEF TokenInfo, TokenInfoSound, Users, PinLengthOK
  <2> QED BY <2>1, <2>7, SaveSound DEF InitPinNow, TokenInfoIsSound
<1>6. CASE SetsPin
  <2>1. PICK i \in Open, pin \in Pins : PinLengthOK(pin) /\ SetPinNow(LoginType(i), pin)
    BY <1>6 DEF SetsPin
  <2>2. LoginType(i) \in Users
    BY DEF LoginType, Users
  <2>3. /\ UNCHANGED <<token_initialized, pin_initialized>>
        /\ \A ut \in Users : pin_hash'[ut] = pin_hash[ut] \/ pin_hash'[ut] = Digest[pin]
    BY <2>1, <2>2 DEF SetPinNow, DataOK
  <2>4. TokenInfoSound(TokenInfo)
    BY DEF TokenInfoIsSound
  <2>5. TokenInfoSound(TokenInfo)'
    BY <2>1, <2>3, <2>4 DEF TokenInfo, TokenInfoSound, PinLengthOK
  <2> QED BY <2>1, <2>5, SaveSound DEF SetPinNow, TokenInfoIsSound
<1> QED BY <1>2, <1>3, <1>4, <1>5, <1>6 DEF Effect
-----------------------------------------------------------------------------
(* The flags of C_GetTokenInfo.                                            *)

\* A PIN is locked by wrong attempts, which need the PIN, and nothing takes a
\* PIN away without its lock.
LockedHasPin == \A ut \in Users : pin_locked[ut] => pin_initialized[ut]

LEMMA LockedHasPinInit == Init => LockedHasPin
  BY DEF Init, LockedHasPin

LEMMA LockedHasPinStep == DataOK /\ LockedHasPin /\ Effect => LockedHasPin'
<1> SUFFICES ASSUME DataOK, LockedHasPin, Effect PROVE LockedHasPin'
  OBVIOUS
<1>1. ASSUME UNCHANGED <<pin_locked, pin_initialized>> PROVE LockedHasPin'
  BY <1>1 DEF LockedHasPin
<1>2. CASE Idle \/ Opens \/ Closes \/ LogsIn \/ LogsOut \/ SetsPin
  BY <1>1, <1>2 DEF Idle, Opens, OpenNow, Closes, CloseNow, LogsIn, LoginNow, LogsOut, LogoutNow,
                    SetsPin, SetPinNow, pinVars, retryVars
<1>3. CASE Starts \/ Ends
  BY <1>3 DEF Starts, Ends, hsm_init_slot, SlotHolds, LockedHasPin
<1>4. CASE FailsPin
  BY <1>4 DEF FailsPin, PinUsable, WrongPin, pinVars, LockedHasPin, DataOK
<1>5. CASE InitsToken
  BY <1>5 DEF InitsToken, InitTokenNow, LockedHasPin
<1>6. CASE InitsPin
  BY <1>6 DEF InitsPin, InitPinNow, LockedHasPin, DataOK
<1> QED BY <1>2, <1>3, <1>4, <1>5, <1>6 DEF Effect

LEMMA FlagsFollow == TokenInfoIsSound /\ LockedHasPin => TokenFlagsTrue
<1> SUFFICES ASSUME TokenInfoIsSound, LockedHasPin PROVE TokenFlagsTrue
  OBVIOUS
<1>1. /\ "CKF_USER_PIN_LOCKED" \in TokenFlags <=> pin_locked[CKU_USER]
      /\ "CKF_USER_PIN_INITIALIZED" \in TokenFlags <=> pin_initialized[CKU_USER]
      /\ "CKF_TOKEN_INITIALIZED" \in TokenFlags <=> token_initialized
  BY DEF TokenFlags
<1>2. token_initialized <=> pin_initialized[CKU_SO]
  BY DEF TokenInfoIsSound, TokenInfoSound, TokenInfo
<1>3. pin_locked[CKU_USER] => pin_initialized[CKU_USER]
  BY DEF LockedHasPin, Users
<1> QED BY <1>1, <1>2, <1>3 DEF TokenFlagsTrue, PinUsable
-----------------------------------------------------------------------------
(* The file, where files can be trusted.                                   *)

LEMMA FileInit == Init => FileKeptUp
  BY DEF Init, FileKeptUp

LEMMA FileStep == DataOK /\ FileKeptUp /\ Effect => FileKeptUp'
<1> SUFFICES ASSUME DataOK, FileKeptUp, Effect, initialized', ~DiskFaults
             PROVE  token_file' = TokenInfo'
  BY DEF FileKeptUp
<1>1. ASSUME UNCHANGED <<initialized, pinVars, token_file>> PROVE token_file' = TokenInfo'
  BY <1>1 DEF FileKeptUp, TokenInfo, pinVars
<1>2. CASE Idle \/ Opens \/ Closes \/ LogsIn \/ FailsPin \/ LogsOut
  BY <1>1, <1>2 DEF Idle, Opens, OpenNow, Closes, CloseNow, LogsIn, LoginNow, FailsPin, WrongPin,
                    LogsOut, LogoutNow
<1>3. CASE Starts
  BY <1>3 DEF Starts, hsm_init_slot, SlotHolds, TokenInfo, DataOK, TokenFile
<1>4. CASE InitsToken \/ InitsPin \/ SetsPin
  <2>1. token_file' = NewTokenInfo
    BY <1>4 DEF InitsToken, InitTokenNow, InitsPin, InitPinNow, SetsPin, SetPinNow,
                hsm_storage_save_token_info
  <2> QED BY <2>1 DEF NewTokenInfo, TokenInfo
<1> QED BY <1>2, <1>3, <1>4 DEF Effect, Ends
-----------------------------------------------------------------------------
(* Action properties.                                                      *)

LEMMA HandleStep ==
    DataOK /\ Effect =>
      \A i \in Idx : sessions'[i].handle \notin {0, sessions[i].handle} =>
          /\ sessions'[i].handle = g_next_session_handle
          /\ g_next_session_handle' > g_next_session_handle
<1> SUFFICES ASSUME DataOK, Effect, NEW i \in Idx,
                    sessions'[i].handle \notin {0, sessions[i].handle}
             PROVE  /\ sessions'[i].handle = g_next_session_handle
                    /\ g_next_session_handle' > g_next_session_handle
  OBVIOUS
<1>1. sessions[i] \in Session
  BY DEF DataOK
<1>2. CASE Opens
  BY <1>2 DEF Opens, OpenNow, NextHandle, DataOK
<1>3. CASE Idle \/ FailsPin \/ InitsToken \/ InitsPin \/ SetsPin
  BY <1>3 DEF Idle, FailsPin, WrongPin, InitsToken, InitTokenNow, InitsPin, InitPinNow, SetsPin,
              SetPinNow, sessionVars
<1>4. CASE Starts \/ Ends
  BY <1>4, NoSessionType DEF Starts, Ends, hsm_init_slot, SlotHolds
<1>5. CASE Closes
  BY <1>5, NoSessionType DEF Closes, CloseNow, DataOK
<1>6. CASE LogsIn
  BY <1>1, <1>6 DEF LogsIn, LoginNow, DataOK, Session
<1>7. CASE LogsOut
  BY <1>1, <1>7 DEF LogsOut, LogoutNow, DataOK, Session
<1> QED BY <1>2, <1>3, <1>4, <1>5, <1>6, <1>7 DEF Effect

\* A call changes one entry of the table at most; only the start and the end
\* of the library clear it as a whole, and the start finds it empty.
LEMMA IndependenceStep ==
    TableInv /\ Effect =>
      \A i, j \in Open : i # j /\ sessions'[i] # sessions[i] /\ sessions'[j] # sessions[j]
          => ~initialized'
<1> SUFFICES ASSUME DataOK, TableConsistent, Effect, initialized',
                    NEW i \in Open, NEW j \in Open, i # j, sessions'[i] # sessions[i]
             PROVE  sessions'[j] = sessions[j]
  BY DEF TableInv
<1>1. i \in Idx /\ j \in Idx
  BY DEF Open
<1>2. CASE Idle \/ FailsPin \/ InitsToken \/ InitsPin \/ SetsPin
  BY <1>2 DEF Idle, FailsPin, WrongPin, InitsToken, InitTokenNow, InitsPin, InitPinNow, SetsPin,
              SetPinNow, sessionVars
<1>3. CASE Starts \/ Ends
  BY <1>3 DEF Starts, Ends, TableConsistent
<1>4. ASSUME NEW k, NEW s, sessions' = [sessions EXCEPT ![k] = s]
      PROVE  sessions'[j] = sessions[j]
  BY <1>1, <1>4 DEF DataOK
<1>5. CASE Opens \/ Closes
  BY <1>4, <1>5 DEF Opens, OpenNow, Closes, CloseNow
<1>6. CASE LogsIn
  <2>1. PICK k \in Open, ut \in Users : LoginNow(k, ut)
    BY <1>6 DEF LogsIn
  <2>2. \E s : sessions' = [sessions EXCEPT ![k] = s]
    BY <2>1 DEF LoginNow
  <2> QED BY <2>2, <1>4
<1>7. CASE LogsOut
  <2>1. PICK k \in Open : LogoutNow(k)
    BY <1>7 DEF LogsOut
  <2>2. \E s : sessions' = [sessions EXCEPT ![k] = s]
    BY <2>1 DEF LogoutNow
  <2> QED BY <2>2, <1>4
<1> QED BY <1>2, <1>3, <1>5, <1>6, <1>7 DEF Effect

Entitled(ut) ==
    /\ rv' = "CKR_OK"
    /\ retry_count'[ut] = HSM_PIN_RETRY_COUNT
    /\ \/ ut = CKU_SO /\ Open = {}
       \/ \E i \in Open : sessions[i].so_logged_in
       \/ ut = CKU_USER /\ ~pin_locked[ut] /\ \E i \in Open : sessions[i].user_logged_in

LEMMA DigestStep ==
    DataOK /\ Effect =>
      \A ut \in Users :
          initialized /\ initialized' /\ pin_hash'[ut] # pin_hash[ut] => Entitled(ut)
<1> SUFFICES ASSUME DataOK, Effect, NEW ut \in Users, initialized, initialized',
                    pin_hash'[ut] # pin_hash[ut]
             PROVE  Entitled(ut)
  OBVIOUS
<1>1. CASE InitsToken
  BY <1>1 DEF InitsToken, InitTokenNow, DataOK, Entitled
<1>2. CASE InitsPin
  BY <1>2 DEF InitsPin, InitPinNow, DataOK, Entitled
<1>3. CASE SetsPin
  <2>1. PICK i \in Open, pin \in Pins : SetPinError(i) = "CKR_OK" /\ SetPinNow(LoginType(i), pin)
    BY <1>3 DEF SetsPin
  <2>2. ut = LoginType(i)
    BY <2>1 DEF SetPinNow, DataOK
  <2>3. LoggedIn(i) /\ ~pin_locked[ut]
    BY <2>1, <2>2 DEF SetPinError, PinUsable
  <2>4. rv' = "CKR_OK" /\ retry_count'[ut] = HSM_PIN_RETRY_COUNT
    BY <2>1, <2>2 DEF SetPinNow, DataOK
  <2> QED BY <2>2, <2>3, <2>4 DEF Entitled, LoggedIn, LoginType
<1>4. CASE Idle \/ Opens \/ Closes \/ LogsIn \/ FailsPin \/ LogsOut
  BY <1>4 DEF Idle, Opens, OpenNow, Closes, CloseNow, LogsIn, LoginNow, FailsPin, WrongPin,
              LogsOut, LogoutNow, pinVars
<1> QED BY <1>1, <1>2, <1>3, <1>4 DEF Effect, Starts, Ends
-----------------------------------------------------------------------------
(* The step of PinPolicy each effect is.                                   *)

HandlesNamed == \A i \in Open : sessions[i].handle \in Handles

PolicyInv == TableInv /\ LockedIffSpent /\ LoginInv /\ HandlesNamed

LEMMA PolicyInvInit == Init => PolicyInv
<1>1. Init => HandlesNamed
  BY DEF Init, Open, HandlesNamed
<1> QED BY <1>1, TableInit, LockInit, LoginInit DEF PolicyInv

LEMMA PolicyInvStep == PolicyInv /\ Effect => PolicyInv'
<1> SUFFICES ASSUME PolicyInv, Effect PROVE PolicyInv'
  OBVIOUS
<1>1. TableInv' /\ LockedIffSpent' /\ LoginInv'
  BY TableEffect, LockStep, LoginStep DEF PolicyInv
<1>2. HandlesNamed'
  <2> SUFFICES ASSUME DataOK, HandlesNamed, Effect, NEW i \in Open', sessions'[i].handle # 0
               PROVE  sessions'[i].handle \in Handles
    BY <1>1, SizesAssumption DEF PolicyInv, TableInv, HandlesNamed, Handles,
                                              TableConsistent
  <2>1. i \in Idx
    BY DEF Open
  <2>2. CASE sessions'[i].handle = sessions[i].handle
    <3>1. sessions[i] # NoSession
      BY <2>2, NoSessionType
    <3> QED BY <2>1, <2>2, <3>1 DEF HandlesNamed, Open
  <2>3. CASE sessions'[i].handle # sessions[i].handle
    <3>1. sessions'[i].handle = g_next_session_handle
      BY <2>1, <2>3, HandleStep, <1>1 DEF PolicyInv, TableInv
    <3>2. Opens
      <4>1. CASE Idle \/ FailsPin \/ InitsToken \/ InitsPin \/ SetsPin
        BY <2>3, <4>1 DEF Idle, FailsPin, WrongPin, InitsToken, InitTokenNow, InitsPin,
                          InitPinNow, SetsPin, SetPinNow, sessionVars
      <4>2. CASE Starts \/ Ends
        BY <2>1, <4>2, NoSessionType DEF Starts, Ends, hsm_init_slot, SlotHolds
      <4>3. CASE Closes
        BY <2>1, <2>3, <4>3, NoSessionType DEF Closes, CloseNow, DataOK
      <4>4. sessions[i] \in Session
        BY <2>1 DEF DataOK
      <4>5. CASE LogsIn
        BY <2>1, <2>3, <4>4, <4>5 DEF LogsIn, LoginNow, DataOK, Session
      <4>6. CASE LogsOut
        BY <2>1, <2>3, <4>4, <4>6 DEF LogsOut, LogoutNow, DataOK, Session
      <4> QED BY <4>1, <4>2, <4>3, <4>5, <4>6 DEF Effect
    <3> QED BY <3>1, <3>2, SizesAssumption DEF Opens, Handles, DataOK
  <2> QED BY <2>2, <2>3
<1> QED BY <1>1, <1>2 DEF PolicyInv

\* The sessions that act for ut.
HoldersOf(ut) == {sessions[i].handle : i \in {j \in Open : LoggedIn(j) /\ LoginType(j) = ut}}

LEMMA HoldersFacts ==
    /\ Holders = [ut \in Users |-> HoldersOf(ut)]
    /\ Holders' = [ut \in Users |-> HoldersOf(ut)']
  BY DEF Holders, HoldersOf

\* A step that changes no login leaves the holders alone.
LEMMA HoldersSame == ASSUME UNCHANGED sessions PROVE UNCHANGED Holders
  BY DEF Holders, Open, LoggedIn, LoginType

\* Logging out or closing entry i releases its handle, since no other entry
\* has it.
LEMMA HoldersRelease ==
    ASSUME TableConsistent, NEW i \in Open,
           \A j \in Idx : j # i => sessions'[j] = sessions[j],
           i \in Open' => ~LoggedIn(i)'
    PROVE  Holders' = [ut \in Users |-> Holders[ut] \ {sessions[i].handle}]
<1>1. ASSUME NEW ut \in Users PROVE HoldersOf(ut)' = HoldersOf(ut) \ {sessions[i].handle}
  <2>1. ASSUME NEW h \in HoldersOf(ut)' PROVE h \in HoldersOf(ut) \ {sessions[i].handle}
    <3>1. PICK j \in Open' : h = sessions'[j].handle /\ LoggedIn(j)' /\ LoginType(j)' = ut
      BY <2>1 DEF HoldersOf
    <3>2. j # i /\ j \in Open /\ sessions'[j] = sessions[j]
      BY <3>1 DEF Open
    <3>3. h # sessions[i].handle
      BY <3>1, <3>2 DEF TableConsistent
    <3> QED BY <3>1, <3>2, <3>3 DEF HoldersOf, LoggedIn, LoginType
  <2>2. ASSUME NEW h \in HoldersOf(ut) \ {sessions[i].handle} PROVE h \in HoldersOf(ut)'
    <3>1. PICK j \in Open : h = sessions[j].handle /\ LoggedIn(j) /\ LoginType(j) = ut
      BY <2>2 DEF HoldersOf
    <3>2. j # i /\ j \in Open' /\ sessions'[j] = sessions[j]
      BY <2>2, <3>1 DEF Open
    <3> QED BY <3>1, <3>2 DEF HoldersOf, LoggedIn, LoginType
  <2> QED BY <2>1, <2>2
<1> QED BY <1>1, HoldersFacts

LEMMA PolicyStep == PolicyInv /\ Effect => [Policy!Next]_(Policy!vars)
<1> SUFFICES ASSUME PolicyInv, DataOK, TableConsistent, LockedIffSpent, LoginInv, HandlesNamed,
                    Effect
             PROVE  Policy!Next \/ UNCHANGED <<retry_count, Holders>>
  BY DEF PolicyInv, TableInv, Policy!vars
<1>1. CASE Idle
  BY <1>1, HoldersSame DEF Idle, retryVars, sessionVars
<1>2. CASE Starts \/ Ends \/ InitsToken
  <2>1. Open' = {} /\ retry_count' = [ut \in Users |-> HSM_PIN_RETRY_COUNT]
    BY <1>2 DEF Starts, Ends, hsm_init_slot, SlotHolds, InitsToken, InitTokenNow, Open, sessionVars
  <2>2. Holders' = [ut \in Users |-> {}]
    BY <2>1, HoldersFacts DEF HoldersOf
  <2> QED BY <2>1, <2>2 DEF Policy!Next, Policy!Reset, Policy!Full, Policy!Nobody
<1>3. CASE Opens
  <2>1. PICK i \in Idx, rw \in BOOLEAN : OpenNow(i, rw)
    BY <1>3 DEF Opens
  <2>2. /\ i \notin Open /\ ~LoggedIn(i)'
        /\ \A j \in Idx : j # i => sessions'[j] = sessions[j]
        /\ retry_count' = retry_count
    BY <2>1 DEF OpenNow, Free, LoggedIn, DataOK, retryVars
  <2>3. ASSUME NEW ut \in Users PROVE HoldersOf(ut)' = HoldersOf(ut)
    <3>1. {j \in Open : LoggedIn(j) /\ LoginType(j) = ut}'
            = {j \in Open : LoggedIn(j) /\ LoginType(j) = ut}
      BY <2>2 DEF Open, LoggedIn, LoginType
    <3>2. \A j \in Open : sessions'[j].handle = sessions[j].handle
      BY <2>2 DEF Open
    <3> QED BY <3>1, <3>2 DEF HoldersOf
  <2> QED BY <2>2, <2>3, HoldersFacts
<1>4. CASE Closes
  <2>1. PICK i \in Open : CloseNow(i)
    BY <1>4 DEF Closes
  <2>2. /\ i \notin Open' /\ retry_count' = retry_count
        /\ \A j \in Idx : j # i => sessions'[j] = sessions[j]
    BY <2>1 DEF CloseNow, Open, DataOK, retryVars
  <2>3. Holders' = [ut \in Users |-> Holders[ut] \ {sessions[i].handle}]
    BY <2>2, HoldersRelease
  <2> QED BY <2>2, <2>3 DEF Policy!Next, Policy!Release, HandlesNamed
<1>5. CASE LogsOut
  <2>1. PICK i \in Open : LogoutNow(i)
    BY <1>5 DEF LogsOut
  <2>2. sessions[i] \in Session /\ i \in Idx
    BY DEF Open, DataOK
  <2>3. /\ ~LoggedIn(i)' /\ retry_count' = retry_count
        /\ \A j \in Idx : j # i => sessions'[j] = sessions[j]
    BY <2>1, <2>2 DEF LogoutNow, LoggedIn, DataOK, retryVars, Session
  <2>4. Holders' = [ut \in Users |-> Holders[ut] \ {sessions[i].handle}]
    BY <2>3, HoldersRelease
  <2> QED BY <2>3, <2>4 DEF Policy!Next, Policy!Release, HandlesNamed
<1>6. CASE FailsPin
  <2>1. PICK ut \in Users : PinUsable(ut) = "CKR_OK" /\ WrongPin(ut)
    BY <1>6 DEF FailsPin
  <2>2. retry_count[ut] > 0
    BY <2>1 DEF PinUsable, LockedIffSpent, DataOK
  <2>3. retry_count' = [retry_count EXCEPT ![ut] = @ - 1]
    BY <2>1, <2>2 DEF WrongPin
  <2>4. UNCHANGED Holders
    BY <2>1, HoldersSame DEF WrongPin, sessionVars
  <2> QED BY <2>2, <2>3, <2>4 DEF Policy!Next, Policy!Reject
<1>7. CASE LogsIn
  <2>1. PICK i \in Open, ut \in Users : LoginError(i, ut) = "CKR_OK" /\ LoginNow(i, ut)
    BY <1>7 DEF LogsIn
  <2> DEFINE h == sessions[i].handle
  <2>2. sessions[i] \in Session /\ i \in Idx /\ h \in Handles
    BY DEF Open, DataOK, HandlesNamed
  <2>3. ~LoggedIn(i) /\ PinUsable(ut) = "CKR_OK"
    BY <2>1 DEF LoginError
  <2>4. retry_count[ut] > 0
    BY <2>3 DEF PinUsable, LockedIffSpent, DataOK
  <2>5. \A v \in Users : h \notin Holders[v]
    BY <2>3, HoldersFacts DEF HoldersOf, TableConsistent
  <2>6. i \in Open' /\ LoggedIn(i)' /\ LoginType(i)' = ut /\ sessions'[i].handle = h
    <3>1. sessions'[i].handle = h /\ h # 0
      BY <2>1, <2>2 DEF LoginNow, DataOK, Session, TableConsistent
    <3>2. sessions'[i].user_logged_in = (ut = CKU_USER) /\ sessions'[i].so_logged_in = (ut = CKU_SO)
      BY <2>1, <2>2 DEF LoginNow, DataOK, Session
    <3> QED BY <2>2, <3>1, <3>2, NoSessionType DEF Open, LoggedIn, LoginType, Users
  <2>7. \A j \in Idx : j # i => sessions'[j] = sessions[j]
    BY <2>1 DEF LoginNow, DataOK
  <2>8. ASSUME NEW v \in Users
        PROVE  HoldersOf(v)' = IF v = ut THEN HoldersOf(v) \cup {h} ELSE HoldersOf(v)
    <3>1. {j \in Open : LoggedIn(j) /\ LoginType(j) = v}'
            = IF v = ut THEN {j \in Open : LoggedIn(j) /\ LoginType(j) = v} \cup {i}
              ELSE {j \in Open : LoggedIn(j) /\ LoginType(j) = v}
      BY <2>2, <2>3, <2>6, <2>7 DEF Open, LoggedIn, LoginType
    <3>2. \A j \in Open : sessions'[j].handle = sessions[j].handle
      BY <2>6, <2>7 DEF Open
    <3> QED BY <3>1, <3>2, <2>6 DEF HoldersOf
  <2>9. Holders' = [Holders EXCEPT ![ut] = @ \cup {h}]
    BY <2>8, HoldersFacts
  <2>10. retry_count' = [retry_count EXCEPT ![ut] = HSM_PIN_RETRY_COUNT]
    BY <2>1 DEF LoginNow
  <2> QED BY <2>2, <2>4, <2>5, <2>9, <2>10 DEF Policy!Next, Policy!Accept
<1>8. CASE InitsPin
  <2>1. retry_count' = [retry_count EXCEPT ![CKU_USER] = HSM_PIN_RETRY_COUNT]
    BY <1>8 DEF InitsPin, InitPinNow
  <2>2. UNCHANGED Holders
    BY <1>8, HoldersSame DEF InitsPin, InitPinNow, sessionVars
  <2>3. Holders[CKU_SO] # {}
    <3>1. PICK i \in Open : sessions[i].so_logged_in
      BY <1>8 DEF InitsPin
    <3>2. LoggedIn(i) /\ LoginType(i) = CKU_SO
      BY <3>1 DEF LoginInv, FlagsSound, LoggedIn, LoginType
    <3>3. sessions[i].handle \in HoldersOf(CKU_SO)
      BY <3>2 DEF HoldersOf
    <3> QED BY <3>3, HoldersFacts DEF Users
  <2> QED BY <2>1, <2>2, <2>3 DEF Policy!Next, Policy!Renew, Users, CKU_SO, CKU_USER
<1>9. CASE SetsPin
  <2>1. PICK i \in Open, pin \in Pins : SetPinError(i) = "CKR_OK" /\ SetPinNow(LoginType(i), pin)
    BY <1>9 DEF SetsPin
  <2> DEFINE ut == LoginType(i)
  <2>2. ut \in Users /\ LoggedIn(i) /\ ~pin_locked[ut]
    BY <2>1 DEF SetPinError, PinUsable, LoginType, Users
  <2>3. retry_count[ut] > 0
    BY <2>2 DEF LockedIffSpent, DataOK
  <2>4. Holders[ut] # {}
    BY <2>2, HoldersFacts DEF HoldersOf
  <2>5. UNCHANGED Holders /\ retry_count' = [retry_count EXCEPT ![ut] = HSM_PIN_RETRY_COUNT]
    BY <2>1, HoldersSame DEF SetPinNow, sessionVars
  <2> QED BY <2>2, <2>3, <2>4, <2>5 DEF Policy!Next, Policy!Confirm
<1> QED BY <1>1, <1>2, <1>3, <1>4, <1>5, <1>6, <1>7, <1>8, <1>9 DEF Effect

LEMMA PolicyInit == Init => Policy!Init
<1> SUFFICES ASSUME Init PROVE Policy!Init
  OBVIOUS
<1>1. Open = {}
  BY DEF Init, Open
<1>2. Holders = [ut \in Users |-> {}]
  BY <1>1, HoldersFacts DEF HoldersOf
<1> QED BY <1>2 DEF Init, Policy!Init, Policy!Full, Policy!Nobody
-----------------------------------------------------------------------------
(* The theorems: every behaviour of the specification has the properties.  *)

LEMMA TableAlways == Spec => []TableInv
  BY TableInit, TableStep, PTL DEF Spec

\* Every variable keeps its type: the table holds session records, the
\* counters stay between nothing and their limits, the file stays readable.
THEOREM TypeCorrect == Spec => []TypeOK
<1>1. Spec => []ControlOK
  BY ControlInit, ControlStep, PTL DEF Spec
<1>2. TableInv /\ ControlOK => TypeOK
  BY DEF TableInv, DataOK, ControlOK, TypeOK
<1> QED BY TableAlways, <1>1, <1>2, PTL

\* The session table: the count is the number of entries in use, whatever
\* sequence of C_OpenSession, C_CloseSession and C_Finalize came before, and
\* no two entries have the same handle.
THEOREM TableCorrect == Spec => []TableConsistent
<1>1. TableInv => TableConsistent
  BY DEF TableInv
<1> QED BY TableAlways, <1>1, PTL

\* hsm_verify_pin's locked flag and its retry counter never disagree, through
\* wrong PINs, logins, PIN changes, initializations and restarts.
THEOREM LocksCorrect == Spec => []LockedIffSpent
<1>1. TableInv /\ LockedIffSpent /\ [Next]_vars => LockedIffSpent'
  BY LockStep, StepEffects
<1> QED BY TableAlways, LockInit, <1>1, PTL DEF Spec

LEMMA LoginAlways == Spec => []LoginInv
<1>1. TableInv /\ LoginInv /\ [Next]_vars => LoginInv'
  BY LoginStep, StepEffects
<1> QED BY TableAlways, LoginInit, <1>1, PTL DEF Spec

\* What C_GetSessionInfo says of a session is what its login flags say.
THEOREM ReportedStateCorrect == Spec => []ReportedStateIsTrue
<1>1. TableInv /\ LoginInv => ReportedStateIsTrue
  BY LoginInvImplies DEF TableInv
<1> QED BY TableAlways, LoginAlways, <1>1, PTL

\* Nobody acts for a user without a PIN: C_InitToken, which takes the user
\* PIN away, finds nobody logged in.
THEOREM LoginNeedsPin == Spec => []LoggedInUserHasPin
<1>1. TableInv /\ LoginInv => LoggedInUserHasPin
  BY LoginInvImplies DEF TableInv
<1> QED BY TableAlways, LoginAlways, <1>1, PTL

\* The token information is sound in memory and in token.dat, also when a
\* save fails or the process dies in one.
THEOREM TokenInfoCorrect == Spec => []TokenInfoIsSound
<1>1. TableInv => DataOK
  BY DEF TableInv
<1> QED BY TableAlways, LoginAlways, <1>1, TokenInfoInit, TokenInfoStep, StepEffects, PTL DEF Spec

\* The flags C_GetTokenInfo reports foretell what a login would meet.
THEOREM TokenFlagsCorrect == Spec => []TokenFlagsTrue
<1>1. Spec => []LockedHasPin
  <2>1. TableInv => DataOK
    BY DEF TableInv
  <2> QED BY TableAlways, <2>1, LockedHasPinInit, LockedHasPinStep, StepEffects, PTL DEF Spec
<1> QED BY TokenInfoCorrect, <1>1, FlagsFollow, PTL

\* Where files can be trusted, token.dat is what the library knows.
THEOREM FileCorrect == Spec => []FileKeptUp
<1>1. TableInv => DataOK
  BY DEF TableInv
<1> QED BY TableAlways, <1>1, FileInit, FileStep, StepEffects, PTL DEF Spec

\* A handle C_OpenSession issues is a fresh one.
THEOREM HandlesFresh == Spec => HandleNotReused
<1>1. TableInv /\ [Next]_vars =>
        [\A i \in Idx : sessions'[i].handle \notin {0, sessions[i].handle} =>
           /\ sessions'[i].handle = g_next_session_handle
           /\ g_next_session_handle' > g_next_session_handle]_vars
  BY HandleStep, StepEffects DEF TableInv
<1> QED BY TableAlways, <1>1, PTL DEF Spec, HandleNotReused

\* A call changes the session it names and no other.
THEOREM CallsIndependent == Spec => SessionsIndependent
<1>1. TableInv /\ [Next]_vars =>
        [\A i, j \in Open : i # j /\ sessions'[i] # sessions[i] /\ sessions'[j] # sessions[j]
           => ~initialized']_vars
  BY IndependenceStep, StepEffects
<1> QED BY TableAlways, <1>1, PTL DEF Spec, SessionsIndependent

\* A PIN in use is replaced only by someone entitled to replace it.
THEOREM DigestChanges == Spec => DigestChangeEntitled
<1>1. TableInv /\ [Next]_vars =>
        [\A ut \in Users :
          initialized /\ initialized' /\ pin_hash'[ut] # pin_hash[ut] =>
            /\ rv' = "CKR_OK"
            /\ retry_count'[ut] = HSM_PIN_RETRY_COUNT
            /\ \/ ut = CKU_SO /\ Open = {}
               \/ \E i \in Open : sessions[i].so_logged_in
               \/ ut = CKU_USER /\ ~pin_locked[ut]
                    /\ \E i \in Open : sessions[i].user_logged_in]_vars
  BY DigestStep, StepEffects DEF TableInv, Entitled
<1> QED BY TableAlways, <1>1, PTL DEF Spec, DigestChangeEntitled

\* HsmSession implements PinPolicy: every step is one of the policy's or
\* leaves its state alone.
THEOREM PolicyKept == Spec => KeepsPinPolicy
<1>1. Spec => []PolicyInv
  BY PolicyInvInit, PolicyInvStep, StepEffects, PTL DEF Spec
<1> QED BY PolicyInit, PolicyStep, StepEffects, <1>1, PTL DEF Spec, KeepsPinPolicy, Policy!Spec
=============================================================================
