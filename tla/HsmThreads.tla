----------------------------- MODULE HsmThreads -----------------------------
(***************************************************************************)
(* The calls of HsmObjects made by several threads at once.  A call is a   *)
(* sequence of steps that end where the code takes or gives back a lock,   *)
(* or where it reads or writes what no lock of its own protects: the       *)
(* `initialized' flag, the session table in hsm_get_session, the object    *)
(* table in hsm_get_object and hsm_find_objects, and the moment between    *)
(* free() and the clearing of the table entry.  A call starts when its     *)
(* arguments have been looked at.  Crashes are left to HsmObjects: they    *)
(* end every thread at once.                                               *)
(***************************************************************************)
EXTENDS HsmObjects

CONSTANTS
    Threads,
    NoThread,       \* the owner of a lock that is free
    Calls,          \* the calls threads make, with their arguments
    Apart           \* pairs of functions the application keeps from overlapping

SlotCalls      == {"C_OpenSession", "C_CloseSession", "C_CloseAllSessions", "C_InitToken"}
PinCalls       == {"C_Login", "C_InitPIN", "C_SetPIN"}
KeyCalls       == {"C_SignInit", "C_Sign", "C_VerifyInit", "C_Verify"}
AttributeCalls == {"C_GetAttributeValue", "C_SetAttributeValue"}
TableCalls     == {"C_CreateObject", "C_DestroyObject"}
LibraryCalls   == {"C_Initialize", "C_Finalize"}

\* The calls that look a session up.
SessionUsers == PinCalls \cup KeyCalls \cup AttributeCalls \cup TableCalls \cup
    {"C_GetSessionInfo", "C_Logout", "C_FindObjectsInit", "C_FindObjects", "C_FindObjectsFinal",
     "C_GenerateKeyPair", "C_GenerateRandom"}

Functions == SlotCalls \cup SessionUsers \cup LibraryCalls

ASSUME ThreadsAssumption ==
    /\ NoThread \notin Threads
    /\ \A c \in Calls : c.op \in Functions

\* The arguments of the calls, as they have been looked at before.
ASSUME ArgumentsAssumption ==
    \A c \in Calls :
        /\ c.op \in SessionUsers \cup {"C_CloseSession"} => c.h \in Handles
        /\ c.op = "C_OpenSession" => c.rw \in BOOLEAN
        /\ c.op = "C_Login" => c.user \in Users /\ c.pin \in Pins
        /\ c.op \in {"C_InitToken", "C_InitPIN"} => c.pin \in Pins /\ PinLengthOK(c.pin)
        /\ c.op = "C_SetPIN" => c.pin \in Pins /\ c.new \in Pins /\ PinLengthOK(c.new)
        /\ c.op = "C_CreateObject" => c.template \in Templates
        /\ c.op \in {"C_DestroyObject", "C_SignInit", "C_VerifyInit"} \cup AttributeCalls =>
             c.object \in ObjectHandles
        /\ c.op = "C_SetAttributeValue" => c.label \in Labels
        /\ c.op = "C_FindObjects" => c.max \in 0 .. HSM_MAX_FIND_OBJECTS
        /\ c.op \in {"C_SignInit", "C_VerifyInit", "C_GenerateKeyPair"} => c.mechanism \in Mechanisms
        /\ c.op = "C_GenerateKeyPair" => c.pub \in Templates /\ c.priv \in Templates

\* What the code leaves to the application: it does not guard these pairs
\* from each other.  The `initialized' flag is written and read in one order
\* by all threads here: where the hardware does not give that, C_Initialize
\* has to be kept apart from the other calls too.
Discipline ==
    {{"C_CloseSession", op} : op \in SessionUsers} \cup
    {{"C_DestroyObject", op} : op \in KeyCalls \cup AttributeCalls \cup
                                      {"C_CreateObject", "C_FindObjectsInit"}} \cup
    {{"C_GenerateKeyPair", op} : op \in {"C_SignInit", "C_VerifyInit"} \cup AttributeCalls} \cup
    {{"C_SetAttributeValue", op} : op \in AttributeCalls \cup {"C_CreateObject"}} \cup
    {{"C_FindObjectsInit", op} : op \in {"C_CreateObject", "C_GenerateKeyPair"}} \cup
    {{"C_Logout", "C_GenerateKeyPair"}} \cup
    {{"C_Finalize", op} : op \in SlotCalls \cup SessionUsers} \cup
    {{"C_Initialize", op} : op \in LibraryCalls}

\* No pair is half stored.
NoHalf == [k \in {} |-> NoObject]

\* What a thread remembers between its steps: the call, the entry of the
\* session it found, the entry and the handle of an object, and the handles
\* it has collected.
NoLocals == [call |-> [op |-> "none"], entry |-> 0, item |-> 0, handle |-> 0, seen |-> <<>>]

VARIABLES
    pc,             \* of each thread: where it is
    local,          \* of each thread: what it remembers
    slots,          \* is g_hsm_context.slots allocated?
    slot_lock,      \* the owner of slot->lock
    session_lock,   \* of each session entry: the owner of session->lock
    global_lock,    \* the owner of g_hsm_context.global_lock
    freed,          \* what was freed and can still be reached from a table
    half            \* what C_GenerateKeyPair has stored of a pair, by entry

lockVars    == <<slot_lock, session_lock>>
threadVars  == <<pc, local, slots, lockVars, global_lock, freed, half>>
everything  == <<allVars, threadVars>>

ThreadsInit ==
    /\ ObjectsInit
    /\ pc = [t \in Threads |-> "idle"]
    /\ local = [t \in Threads |-> NoLocals]
    /\ slots = FALSE
    /\ slot_lock = NoThread
    /\ session_lock = [i \in Idx |-> NoThread]
    /\ global_lock = NoThread
    /\ freed = {}
    /\ half = NoHalf
-----------------------------------------------------------------------------
(* What the steps are made of.                                             *)

CallOf(t)  == local[t].call
Entry(t)  == local[t].entry

Go(t, label) == pc' = [pc EXCEPT ![t] = label]

\* Mutant: slot->lock is kept.
LeaveLocked(t) ==
    /\ pc' = [pc EXCEPT ![t] = "idle"]
    /\ local' = [local EXCEPT ![t] = NoLocals]
    /\ UNCHANGED slot_lock
    /\ session_lock' = [i \in Idx |-> IF session_lock[i] = t THEN NoThread ELSE session_lock[i]]

\* The call returns and has unlocked what it had locked.
Leave(t) ==
    /\ pc' = [pc EXCEPT ![t] = "idle"]
    /\ local' = [local EXCEPT ![t] = NoLocals]
    /\ slot_lock' = IF slot_lock = t THEN NoThread ELSE slot_lock
    /\ session_lock' = [i \in Idx |-> IF session_lock[i] = t THEN NoThread ELSE session_lock[i]]

\* The call returns code and has changed nothing.
Fail(t, code) == Refuse(code) /\ Leave(t) /\ UNCHANGED <<slots, global_lock, freed, half>>

\* The whole of call c on the session of entry i, as HsmObjects has it.
WholeOn(i, c) ==
    CASE c.op = "C_Login"             -> LoginOn(i, c.user, c.pin) /\ UNCHANGED objectVars
      [] c.op = "C_Logout"            -> LogoutOn(i) /\ UNCHANGED objectVars
      [] c.op = "C_InitPIN"           -> InitPinOn(i, c.pin) /\ UNCHANGED objectVars
      [] c.op = "C_SetPIN"            -> SetPinOn(i, c.pin, c.new) /\ UNCHANGED objectVars
      [] c.op = "C_GetSessionInfo"    -> Refuse("CKR_OK")
      [] c.op = "C_CreateObject"      -> C_CreateObject(i, c.template)
      [] c.op = "C_DestroyObject"     -> C_DestroyObject(i, c.object)
      [] c.op = "C_GetAttributeValue" -> C_GetAttributeValue(i, c.object)
      [] c.op = "C_SetAttributeValue" -> C_SetAttributeValue(i, c.object, c.label)
      [] c.op = "C_FindObjectsInit"   -> C_FindObjectsInit(i)
      [] c.op = "C_FindObjects"       -> C_FindObjects(i, c.max)
      [] c.op = "C_FindObjectsFinal"  -> C_FindObjectsFinal(i)
      [] c.op = "C_GenerateKeyPair"   -> C_GenerateKeyPair(i, c.mechanism, c.pub, c.priv)
      [] c.op = "C_SignInit"          -> C_SignInit(i, c.object, c.mechanism)
      [] c.op = "C_Sign"              -> C_Sign(i)
      [] c.op = "C_VerifyInit"        -> C_VerifyInit(i, c.object, c.mechanism)
      [] c.op = "C_Verify"            -> C_Verify(i)
      [] c.op = "C_GenerateRandom"    -> C_GenerateRandom(i)

\* A call of HsmSession, with what it does to the operations and searches.
OnSessions(A) == A /\ OperationsFollow /\ UNCHANGED <<tableVars, key_files>>

\* The whole of call c.
Whole(c) ==
    \/ /\ c.op \in SessionUsers
       /\ \/ hsm_get_session(c.h) # "CKR_OK" /\ Refuse(hsm_get_session(c.h))
          \/ initialized /\ \E i \in Idx : Owns(i, c.h) /\ WholeOn(i, c)
    \/ c.op = "C_OpenSession" /\ OnSessions(C_OpenSession(c.rw))
    \/ c.op = "C_CloseSession" /\ OnSessions(C_CloseSession(c.h))
    \/ c.op = "C_CloseAllSessions" /\ OnSessions(C_CloseAllSessions)
    \/ c.op = "C_InitToken" /\ C_InitToken(c.pin) /\ UNCHANGED objectVars
    \/ c.op = "C_Initialize" /\ C_Initialize /\ UNCHANGED objectVars
    \/ c.op = "C_Finalize" /\ C_Finalize /\ ObjectsGone /\ UNCHANGED counter
-----------------------------------------------------------------------------
(* A call begins; its first steps.                                         *)

FirstLabel(op) ==
    IF op \in SlotCalls THEN "check" ELSE IF op \in LibraryCalls THEN "lockGlobal" ELSE "find"

\* Bound of the model: the calls under way and c take the handle counter no
\* further than one past MaxObject.
Room(c) ==
    LET makers(op) == Cardinality({t \in Threads : CallOf(t).op = op})
        demand(op) == IF op = "C_GenerateKeyPair" THEN 2 ELSE IF op = "C_CreateObject" THEN 1 ELSE 0
    IN  demand(c.op) > 0 =>
          counter + 2 * makers("C_GenerateKeyPair") + makers("C_CreateObject") + demand(c.op)
            <= MaxObject + 1

Begin(t, c) ==
    /\ pc[t] = "idle"
    /\ Room(c)
    /\ \A u \in Threads \ {t} : pc[u] # "idle" => {c.op, CallOf(u).op} \notin Apart
    /\ Go(t, FirstLabel(c.op))
    /\ local' = [local EXCEPT ![t].call = c]
    /\ UNCHANGED <<allVars, slots, lockVars, global_lock, freed, half>>

\* `initialized' is read without a lock.
Check(t) ==
    /\ pc[t] = "check"
    /\ \/ ~initialized /\ Fail(t, "CKR_CRYPTOKI_NOT_INITIALIZED")
       \/ /\ initialized
          /\ Go(t, "lockSlot")
          /\ UNCHANGED <<allVars, local, slots, lockVars, global_lock, freed, half>>

\* The calls that look at the session's own state before they go on.
Decides == PinCalls \cup KeyCalls \cup {"C_FindObjectsInit", "C_GenerateKeyPair"}

\* Mutant: the session is looked at before it is locked.
DecideBeforeLock(op) ==
    CASE op \in TableCalls          -> "slot"
      [] op \in AttributeCalls      -> "lookup"
      [] op = "C_GenerateRandom"    -> "work"
      [] op \in Decides             -> "decide"
      [] OTHER                      -> "lockSession"

AfterFind(op) ==
    CASE op \in TableCalls          -> "slot"
      [] op \in AttributeCalls      -> "lookup"
      [] op = "C_GenerateRandom"    -> "work"
      [] OTHER                      -> "lockSession"

\* hsm_get_session: the scan of the table takes no lock.
FindSession(t) ==
    /\ pc[t] = "find"
    /\ \/ hsm_get_session(CallOf(t).h) # "CKR_OK" /\ Fail(t, hsm_get_session(CallOf(t).h))
       \/ /\ initialized
          /\ \E i \in Idx : Owns(i, CallOf(t).h) /\ local' = [local EXCEPT ![t].entry = i]
          /\ Go(t, AfterFind(CallOf(t).op))
          /\ UNCHANGED <<allVars, slots, lockVars, global_lock, freed, half>>
-----------------------------------------------------------------------------
(* Under session->lock.                                                    *)

LockSession(t) ==
    /\ pc[t] = "lockSession"
    /\ session_lock[Entry(t)] = NoThread
    /\ session_lock' = [session_lock EXCEPT ![Entry(t)] = t]
    /\ Go(t, IF CallOf(t).op \in Decides THEN "decide" ELSE "work")
    /\ UNCHANGED <<allVars, local, slots, slot_lock, global_lock, freed, half>>

\* What the call refuses by what the session says.
SessionRefuses(i, c) ==
    CASE c.op = "C_Login" ->
           IF LoggedIn(i) THEN "CKR_USER_ALREADY_LOGGED_IN"
           ELSE IF c.user = CKU_SO /\ ~sessions[i].is_read_write THEN "CKR_SESSION_READ_ONLY"
           ELSE "CKR_OK"
      [] c.op = "C_InitPIN" -> IF sessions[i].so_logged_in THEN "CKR_OK" ELSE "CKR_USER_NOT_LOGGED_IN"
      [] c.op = "C_SetPIN" -> IF LoggedIn(i) THEN "CKR_OK" ELSE "CKR_USER_NOT_LOGGED_IN"
      [] c.op = "C_GenerateKeyPair" ->
           IF sessions[i].user_logged_in THEN "CKR_OK" ELSE "CKR_USER_NOT_LOGGED_IN"
      [] c.op = "C_FindObjectsInit" -> IF find[i].active THEN "CKR_OPERATION_ACTIVE" ELSE "CKR_OK"
      [] c.op \in {"C_SignInit", "C_VerifyInit"} ->
           IF operation[i].active THEN "CKR_OPERATION_ACTIVE" ELSE "CKR_OK"
      [] c.op \in {"C_Sign", "C_Verify"} ->
           IF operation[i].active /\ operation[i].type = (IF c.op = "C_Sign" THEN "OP_SIGN" ELSE "OP_VERIFY")
           THEN "CKR_OK" ELSE "CKR_OPERATION_NOT_INITIALIZED"

AfterDecide(op) ==
    CASE op \in PinCalls            -> "lockSlot"
      [] op \in KeyCalls            -> "lookup"
      [] op = "C_FindObjectsInit"   -> "scan"
      [] op = "C_GenerateKeyPair"   -> "generate"

\* C_GenerateKeyPair gives the session's lock back before it goes on.
Decide(t) ==
    LET code == SessionRefuses(Entry(t), CallOf(t))
        keep == CallOf(t).op # "C_GenerateKeyPair"
    IN  /\ pc[t] = "decide"
        /\ \/ code # "CKR_OK" /\ Fail(t, code)
           \/ /\ code = "CKR_OK"
              /\ Go(t, AfterDecide(CallOf(t).op))
              /\ session_lock' = IF keep THEN session_lock
                                 ELSE [session_lock EXCEPT ![Entry(t)] = NoThread]
              /\ UNCHANGED <<allVars, local, slots, slot_lock, global_lock, freed, half>>

\* The calls that are done in one go: C_GenerateRandom without a lock.
Work(t) ==
    /\ pc[t] = "work"
    /\ WholeOn(Entry(t), CallOf(t))
    /\ Leave(t)
    /\ UNCHANGED <<slots, global_lock, freed, half>>
-----------------------------------------------------------------------------
(* Objects read without slot->lock.                                        *)

\* The object table as it is: HsmObjects knows a pair once it is complete.
Table == [k \in ObjIdx |-> IF k \in DOMAIN half THEN half[k] ELSE objects[k]]

Holding(h) == {k \in ObjIdx : Table[k] # NoObject /\ Table[k].handle = h}

KeyOf(i, c) == IF c.op \in {"C_Sign", "C_Verify"} THEN operation[i].key_handle ELSE c.object

\* The call ends without the object.
WithoutObject(i, c) ==
    IF c.op \in {"C_Sign", "C_Verify"} THEN LoseKey(i) ELSE Refuse("CKR_OBJECT_HANDLE_INVALID")

\* What the call does with the object o, when it changes no object.
WithObject(i, c, o) ==
    \/ c.op = "C_SignInit" /\ BeginSign(i, c.object, o, c.mechanism)
    \/ c.op = "C_VerifyInit" /\ BeginVerify(i, c.object, o, c.mechanism)
    \/ c.op = "C_Sign" /\ EndWith(i, "OP_SIGN", o)
    \/ c.op = "C_Verify" /\ EndWith(i, "OP_VERIFY", o)
    \/ c.op = "C_GetAttributeValue" /\ AttributeRead
    \/ c.op = "C_SetAttributeValue" /\ \E code \in AttributeSet : Refuse(code)

\* hsm_get_object: the scan of the table, up to the first match, and the end
\* of the call when there is none.
Lookup(t) ==
    LET h == KeyOf(Entry(t), CallOf(t))
    IN  /\ pc[t] = "lookup"
        /\ \/ /\ Holding(h) = {}
              /\ WithoutObject(Entry(t), CallOf(t))
              /\ Leave(t)
              /\ UNCHANGED <<slots, global_lock, freed, half>>
           \/ /\ \E k \in ObjIdx :
                   First(k, Holding(h)) /\ local' = [local EXCEPT ![t].item = k, ![t].handle = h]
              /\ Go(t, "use")
              /\ UNCHANGED <<allVars, slots, lockVars, global_lock, freed, half>>

\* The label is written through the pointer, also into a key that is half of
\* a pair.
WriteLabel(k, label) ==
    \/ k \notin DOMAIN half /\ SetLabel(k, label) /\ UNCHANGED half
    \/ /\ k \in DOMAIN half
       /\ half' = [half EXCEPT ![k].label = label]
       /\ \E code \in AttributeSet : Refuse(code)

\* The object is read or written through the pointer.
Use(t) ==
    /\ pc[t] = "use"
    /\ \/ WithObject(Entry(t), CallOf(t), Table[local[t].item]) /\ UNCHANGED half
       \/ CallOf(t).op = "C_SetAttributeValue" /\ WriteLabel(local[t].item, CallOf(t).label)
    /\ Leave(t)
    /\ UNCHANGED <<slots, global_lock, freed>>

\* hsm_find_objects, an entry of the object table at a time.
Scan(t) ==
    LET n    == local[t].item
        seen == local[t].seen
    IN  /\ pc[t] = "scan"
        /\ \/ /\ n < HSM_MAX_OBJECTS
              /\ local' = [local EXCEPT ![t].item = n + 1, ![t].seen =
                    IF Table[n] # NoObject /\ Len(seen) < HSM_MAX_FIND_OBJECTS
                    THEN Append(seen, Table[n].handle) ELSE seen]
              /\ UNCHANGED <<allVars, pc, slots, lockVars, global_lock, freed, half>>
           \/ /\ n = HSM_MAX_OBJECTS
              /\ SetFind(Entry(t), [active |-> TRUE, results |-> seen, index |-> 0], "CKR_OK")
              /\ Leave(t)
              /\ UNCHANGED <<slots, global_lock, freed, half>>

\* The pair is generated, or not, without any lock.
Generate(t) ==
    /\ pc[t] = "generate"
    /\ \/ GenerateFails(CallOf(t).mechanism) /\ Leave(t) /\ UNCHANGED <<slots, global_lock, freed, half>>
       \/ /\ CallOf(t).mechanism \in DOMAIN KeyPairGen
          /\ Go(t, "slot")
          /\ UNCHANGED <<allVars, local, slots, lockVars, global_lock, freed, half>>
-----------------------------------------------------------------------------
(* Under slot->lock.                                                       *)

\* slot = &g_hsm_context.slots[session->slot_id]
ReadSlotId(t) ==
    /\ pc[t] = "slot"
    /\ Go(t, "lockSlot")
    /\ UNCHANGED <<allVars, local, slots, lockVars, global_lock, freed, half>>

\* Mutant: the lock is not waited for.
LockSlotAtOnce(t) ==
    /\ pc[t] = "lockSlot"
    /\ slot_lock' = t
    /\ Go(t, "body")
    /\ UNCHANGED <<allVars, local, slots, session_lock, global_lock, freed, half>>

LockSlot(t) ==
    /\ pc[t] = "lockSlot"
    /\ slot_lock = NoThread
    /\ slot_lock' = t
    /\ Go(t, "body")
    /\ UNCHANGED <<allVars, local, slots, session_lock, global_lock, freed, half>>

\* hsm_verify_pin, and what follows when the PIN is right.
WithPin(ut, pin, Granted) ==
    \/ PinUsable(ut) # "CKR_OK" /\ Return(PinUsable(ut))
    \/ PinUsable(ut) = "CKR_OK" /\ ~PinMatches(ut, pin) /\ WrongPin(ut)
    \/ PinUsable(ut) = "CKR_OK" /\ PinMatches(ut, pin) /\ Granted

\* What a call does in one go under slot->lock.
SlotWork(i, c) ==
    \/ c.op = "C_Login" /\ WithPin(c.user, c.pin, LoginNow(i, c.user)) /\ UNCHANGED objectVars
    \/ c.op = "C_InitPIN" /\ InitPinNow(c.pin) /\ UNCHANGED objectVars
    \/ c.op = "C_SetPIN" /\ WithPin(LoginType(i), c.pin, SetPinNow(LoginType(i), c.new))
         /\ UNCHANGED objectVars
    \/ c.op = "C_OpenSession" /\ initialized /\ OnSessions(C_OpenSession(c.rw))
    \/ c.op = "C_CloseAllSessions" /\ Open = {} /\ Refuse("CKR_OK")
    \/ c.op = "C_InitToken" /\ Open = {} /\ InitTokenNow(c.pin) /\ UNCHANGED objectVars
    \/ c.op = "C_GenerateKeyPair" /\ Cardinality(Unused) < 2 /\ Refuse("CKR_HOST_MEMORY")
    \/ c.op = "C_CreateObject" /\ Refuse("CKR_HOST_MEMORY")
    \/ c.op = "C_DestroyObject" /\ ~Known(c.object) /\ Refuse("CKR_OBJECT_HANDLE_INVALID")
    \/ c.op = "C_CloseSession" /\ (\A j \in Open : sessions[j].handle # c.h)
         /\ Refuse("CKR_SESSION_HANDLE_INVALID")

\* Closing the sessions locks slot->lock again.
Relock(t) ==
    /\ CallOf(t).op \in {"C_CloseAllSessions", "C_InitToken"}
    /\ Open # {}
    /\ Hang /\ UNCHANGED objectVars
    /\ Go(t, "hang")
    /\ UNCHANGED <<local, slots, lockVars, global_lock, freed, half>>

\* The new object is stored, and who scans the table finds it; its file,
\* which no call reads, is that of the template until Save writes it.
Create(t) ==
    LET k == CHOOSE k \in Unused : First(k, Unused)
    IN  /\ CallOf(t).op = "C_CreateObject"
        /\ Unused # {}
        /\ C_CreateObject(Entry(t), CallOf(t).template)
        /\ objects' # objects
        /\ local' = [local EXCEPT ![t].item = k, ![t].handle = Created(CallOf(t).template).handle]
        /\ Go(t, "save")
        /\ UNCHANGED <<lockVars, slots, global_lock, freed, half>>

\* The file gets the label the object has when it is written: not the
\* template's, if another thread has set one since.
Save(t) ==
    LET o == objects[local[t].item]
    IN  /\ pc[t] = "save"
        /\ IF o.label = CallOf(t).template.label THEN UNCHANGED key_files
           ELSE hsm_storage_save_object({o})
        /\ slot_lock' = NoThread
        /\ Go(t, "log")
        /\ UNCHANGED <<vars, tableVars, operation, find, local, session_lock, slots, global_lock,
                       freed, half>>

\* The public key is stored: who scans the table now finds half a pair.
FirstKey(t) ==
    LET c == CallOf(t)
    IN  /\ c.op = "C_GenerateKeyPair"
        /\ c.mechanism \in DOMAIN KeyPairGen
        /\ counter < MaxObject
        /\ Cardinality(Unused) >= 2
        /\ \E k \in ObjIdx :
             /\ First(k, Unused)
             /\ local' = [local EXCEPT ![t].item = k]
             /\ half' = [j \in {k} |-> PublicKey(c.pub, KeyPairGen[c.mechanism])]
        /\ Go(t, "pair")
        /\ UNCHANGED <<allVars, slots, lockVars, global_lock, freed>>

\* Then the private key, the count and the files.
SecondKey(t) ==
    LET c == CallOf(t)
    IN  /\ pc[t] = "pair"
        /\ AddPair(half[local[t].item], PrivateKey(c.priv, KeyPairGen[c.mechanism]))
        /\ half' = NoHalf
        /\ Leave(t)
        /\ UNCHANGED <<slots, global_lock, freed>>

\* free(session), free(object): the table entry is cleared by the next step.
FreeEntry(t) ==
    /\ \/ /\ CallOf(t).op = "C_CloseSession"
          /\ \E i \in Idx : /\ Owns(i, CallOf(t).h)
                            /\ local' = [local EXCEPT ![t].entry = i]
                            /\ freed' = freed \cup {<<"session", i>>}
       \/ /\ CallOf(t).op = "C_DestroyObject"
          /\ \E k \in ObjIdx : /\ Finds(k, CallOf(t).object)
                               /\ local' = [local EXCEPT ![t].item = k]
                               /\ freed' = freed \cup {<<"object", k>>}
    /\ Go(t, "clear")
    /\ UNCHANGED <<allVars, slots, lockVars, global_lock, half>>

Body(t) ==
    /\ pc[t] = "body"
    /\ \/ SlotWork(Entry(t), CallOf(t)) /\ Leave(t) /\ UNCHANGED <<slots, global_lock, freed, half>>
       \/ Relock(t)
       \/ Create(t)
       \/ FirstKey(t)
       \/ FreeEntry(t)

Clear(t) ==
    /\ pc[t] = "clear"
    /\ \/ /\ CallOf(t).op = "C_CloseSession"
          /\ OnSessions(CloseNow(Entry(t)))
          /\ freed' = freed \ {<<"session", Entry(t)>>}
       \/ /\ CallOf(t).op = "C_DestroyObject"
          /\ DestroyNow(local[t].item)
          /\ freed' = freed \ {<<"object", local[t].item>>}
    /\ Leave(t)
    /\ UNCHANGED <<slots, global_lock, half>>

\* C_CreateObject reads the new object once more after it has unlocked.
Log(t) ==
    /\ pc[t] = "log"
    /\ Leave(t)
    /\ UNCHANGED <<allVars, slots, global_lock, freed, half>>
-----------------------------------------------------------------------------
(* C_Initialize and C_Finalize, under global_lock.                         *)

LockGlobal(t) ==
    /\ pc[t] = "lockGlobal"
    /\ global_lock = NoThread
    /\ global_lock' = t
    /\ Go(t, "test")
    /\ UNCHANGED <<allVars, local, slots, lockVars, freed, half>>

Test(t) ==
    LET start == CallOf(t).op = "C_Initialize"
    IN  /\ pc[t] = "test"
        /\ \/ /\ initialized = start
              /\ Refuse(IF start THEN "CKR_CRYPTOKI_ALREADY_INITIALIZED"
                        ELSE "CKR_CRYPTOKI_NOT_INITIALIZED")
              /\ Leave(t)
              /\ global_lock' = NoThread
              /\ UNCHANGED <<slots, freed, half>>
           \/ /\ initialized # start
              /\ Go(t, IF start THEN "reset" ELSE "cleanup")
              /\ UNCHANGED <<allVars, local, slots, lockVars, global_lock, freed, half>>

\* hsm_init_context: memset and pthread_mutex_init of the context, with
\* global_lock, which the thread holds, in it.  A slot that was there is lost.
Reset(t) ==
    /\ pc[t] = "reset"
    /\ global_lock' = NoThread
    /\ initialized' = FALSE
    /\ slots' = FALSE
    /\ freed' = {} /\ half' = NoHalf
    /\ SlotHolds(Blank) /\ ObjectsGone
    /\ UNCHANGED <<counter, g_next_session_handle, token_file, hung, rv>>
    /\ Go(t, "start")
    /\ UNCHANGED <<local, lockVars>>

\* The end of C_Initialize: it unlocks global_lock, whoever holds it now.
Start(t) ==
    /\ pc[t] = "start"
    /\ \/ StartNow /\ slots' = TRUE /\ UNCHANGED objectVars
       \/ /\ \E code \in {"CKR_HOST_MEMORY"} \cup (IF DiskFaults THEN {"CKR_DEVICE_ERROR"} ELSE {}) :
                Refuse(code)
          /\ UNCHANGED slots
    /\ Leave(t)
    /\ global_lock' = NoThread
    /\ UNCHANGED <<freed, half>>

\* hsm_cleanup_slot closes the sessions, each under slot->lock, and frees the
\* objects; then the slots are freed.
Cleanup(t) ==
    /\ pc[t] = "cleanup"
    /\ Open # {} => slot_lock = NoThread
    /\ slots' = FALSE
    /\ Go(t, "end")
    /\ UNCHANGED <<allVars, local, lockVars, global_lock, freed, half>>

End(t) ==
    /\ pc[t] = "end"
    /\ initialized /\ C_Finalize /\ ObjectsGone /\ UNCHANGED counter
    /\ Leave(t)
    /\ global_lock' = NoThread
    /\ UNCHANGED <<slots, freed, half>>
-----------------------------------------------------------------------------
(* Which memory the next step of a thread reads or writes, and whether it  *)
(* is there.                                                               *)

\* Does the scan for handle h read the entry of session j?
Scans(h, j) == \A i \in Open : sessions[i].handle = h => j <= i

TableReadable(h) == \A j \in Open : <<"session", j>> \in freed => ~Scans(h, j)

ObjectsReadable(h) ==
    \A j \in InUse : <<"object", j>> \in freed => \E k \in InUse : objects[k].handle = h /\ k < j

SessionThere(t) ==
    /\ slots
    /\ sessions[Entry(t)].handle = CallOf(t).h
    /\ <<"session", Entry(t)>> \notin freed

ObjectThere(t) ==
    /\ slots
    /\ Table[local[t].item].handle = local[t].handle
    /\ <<"object", local[t].item>> \notin freed

ReadsSession(t) ==
    \/ pc[t] \in {"lockSession", "decide", "slot", "scan"}
    \/ pc[t] = "lookup"
    \/ pc[t] = "work" /\ CallOf(t).op # "C_GenerateRandom"
    \/ pc[t] = "use" /\ CallOf(t).op \in KeyCalls
    \/ pc[t] \in {"lockSlot", "body"} /\ CallOf(t).op \in PinCalls

AccessSound(t) ==
    /\ pc[t] \in {"lockSlot", "body", "pair", "clear", "lookup", "scan"} => slots
    /\ pc[t] = "cleanup" /\ initialized => slots
    /\ pc[t] = "find" /\ initialized => slots /\ TableReadable(CallOf(t).h)
    /\ pc[t] = "body" /\ CallOf(t).op = "C_CloseSession" => TableReadable(CallOf(t).h)
    /\ pc[t] = "body" /\ CallOf(t).op = "C_DestroyObject" => ObjectsReadable(CallOf(t).object)
    /\ pc[t] = "lookup" => ObjectsReadable(KeyOf(Entry(t), CallOf(t)))
    /\ pc[t] = "scan" => <<"object", local[t].item>> \notin freed
    /\ pc[t] \in {"use", "save", "log"} => ObjectThere(t)
    /\ ReadsSession(t) => SessionThere(t)

\* The next step of the thread's call.  What a step does that reads freed
\* memory is undefined: the model has none.
Step(t) ==
    /\ AccessSound(t)
    /\ \/ Check(t) \/ FindSession(t) \/ LockSession(t) \/ Decide(t) \/ Work(t)
       \/ Lookup(t) \/ Use(t) \/ Scan(t) \/ Generate(t)
       \/ ReadSlotId(t) \/ LockSlot(t) \/ Body(t) \/ SecondKey(t) \/ Save(t) \/ Clear(t) \/ Log(t)
       \/ LockGlobal(t) \/ Test(t) \/ Reset(t) \/ Start(t) \/ Cleanup(t) \/ End(t)

ThreadsNext == \E t \in Threads : Step(t) \/ \E c \in Calls : Begin(t, c)

\* The scheduler runs every thread that can run; whether a thread makes
\* another call is the application's affair.
ThreadsSpec ==
    /\ ThreadsInit
    /\ [][ThreadsNext]_everything
    /\ \A t \in Threads : WF_everything(Step(t))
-----------------------------------------------------------------------------
(* Properties.                                                             *)

UnderSlotLock    == {"body", "pair", "save", "clear", "hang"}
UnderSessionLock(t) ==
    \/ pc[t] \in {"decide", "scan"}
    \/ pc[t] = "work" /\ CallOf(t).op # "C_GenerateRandom"
    \/ pc[t] \in {"lookup", "use"} /\ CallOf(t).op \in KeyCalls
    \/ pc[t] \in {"lockSlot", "body"} /\ CallOf(t).op \in PinCalls

\* A thread is between lock and unlock exactly when it owns the lock: no two
\* threads are inside the same slot or the same session.
LocksHeld ==
    \A t \in Threads :
        /\ slot_lock = t <=> pc[t] \in UnderSlotLock
        /\ \A i \in Idx : session_lock[i] = t <=> UnderSessionLock(t) /\ Entry(t) = i

\* No thread is about to read or write freed memory, and nobody else uses an
\* object whose label is being written: while the application keeps the
\* pairs of Apart from overlapping, the pointers hsm_get_session and
\* hsm_get_object hand out without a lock stay good.
AccessesSound ==
    /\ \A t \in Threads : AccessSound(t)
    /\ \A t, u \in Threads :
         /\ pc[t] = "use" /\ CallOf(t).op = "C_SetAttributeValue"
         /\ t # u /\ pc[u] = "use" /\ CallOf(u).op \in AttributeCalls
         => local[t].item # local[u].item

\* A call has done what it does when it is at one of these.
Over == {"idle", "save", "log", "hang"}

\* Each call takes effect at one of its steps, and its effect is the whole
\* call as HsmObjects has it: whatever the other threads did between its
\* check of `initialized', its lookup, its checks and its work, the outcome
\* is that of the calls made one after the other.
CallsAtomic ==
    [][\A t \in Threads : pc'[t] # pc[t] \/ local'[t] # local[t] =>
         IF pc[t] \notin Over /\ pc'[t] \in Over THEN Whole(CallOf(t)) ELSE UNCHANGED allVars]_everything

\* Whoever has slot->lock gives it back, unless it waits for itself: the lock
\* is never kept while its owner waits for another.
SlotLockGivenBack == \A t \in Threads : slot_lock = t ~> slot_lock # t \/ hung

\* Some call always returns, or all have, or a thread hangs: the threads
\* never wait for one another in a circle.
SomeCallReturns ==
    \/ []<><<\E t \in Threads : pc[t] # "idle" /\ pc'[t] = "idle">>_everything
    \/ <>[](\A t \in Threads : pc[t] = "idle")
    \/ <>hung
=============================================================================
