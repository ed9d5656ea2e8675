--------------------------- MODULE HsmObjects_proofs --------------------------
(***************************************************************************)
(* Theorems about HsmObjects, for every size of its tables, every set of   *)
(* templates and mechanisms, and with or without file failures.            *)
(*                                                                         *)
(* As in HsmSession_proofs, a step is first reduced to what it does:       *)
(* ObjectEffects names the ways a step changes the objects and operations, *)
(* and that it does to the slot and the sessions what some step of         *)
(* HsmSession does, or nothing.  Each invariant then has one step per way. *)
(***************************************************************************)
EXTENDS HsmObjects, HsmSession_proofs, SequenceTheorems

\* A new object is placed in an unused entry, under the next handle.
Creates ==
    /\ initialized /\ counter <= MaxObject
    /\ \E t \in Templates, k \in Unused :
         /\ objects' = [objects EXCEPT ![k] = Created(t)]
         /\ hsm_storage_save_object({Created(t)})
    /\ object_count' = object_count + 1
    /\ counter' = counter + 1
    /\ UNCHANGED <<operation, find>>

CreatesPair ==
    /\ initialized /\ counter < MaxObject
    /\ \E pubT, privT \in Templates, key_type \in KeyTypes :
         AddPair(PublicKey(pubT, key_type), PrivateKey(privT, key_type))

Destroys == initialized /\ \E k \in InUse : DestroyNow(k)

Relabels ==
    /\ initialized
    /\ \E k \in InUse, label \in Labels : objects' = [objects EXCEPT ![k].label = label]
    /\ UNCHANGED <<object_count, counter, operation, find, key_files>>

\* The key and its checks are those of C_SignInit or C_VerifyInit.
Accepts(type, h) ==
    /\ Known(h)
    /\ \A k \in InUse : Finds(k, h) =>
         IF type = "OP_SIGN" THEN objects[k].type = "OBJ_TYPE_PRIVATE_KEY" /\ objects[k].can_sign
         ELSE objects[k].type = "OBJ_TYPE_PUBLIC_KEY"

Begins ==
    /\ \E i \in Open, type \in {"OP_SIGN", "OP_VERIFY"}, h \in ObjectHandles, m \in Mechanisms :
         /\ Accepts(type, h)
         /\ operation' = [operation EXCEPT ![i] =
               [active |-> TRUE, type |-> type, key_handle |-> h, mechanism |-> m]]
    /\ UNCHANGED <<tableVars, find, key_files>>

EndsOperation ==
    /\ \E i \in Open : \E type \in {"OP_NONE", operation[i].type} :
         operation' = [operation EXCEPT ![i] =
            [operation[i] EXCEPT !.active = FALSE, !.type = type]]
    /\ UNCHANGED <<tableVars, find, key_files>>

\* A search begins with what the table holds, ends, or hands out up to max
\* more of its handles.
HandsOut(f, max) ==
    LET left == Len(f.results) - f.index IN IF left < max THEN left ELSE max

SearchGoes(i, f) ==
    \/ f \in {NoFind, [active |-> TRUE, results |-> hsm_find_objects, index |-> 0]}
    \/ /\ find[i].active
       /\ \E max \in 0 .. HSM_MAX_FIND_OBJECTS :
            f = [find[i] EXCEPT !.index = @ + HandsOut(find[i], max)]

Searches ==
    /\ \E i \in Open : \E f : SearchGoes(i, f) /\ find' = [find EXCEPT ![i] = f]
    /\ UNCHANGED <<tableVars, operation, key_files>>

\* An object call does one of these, and nothing to the slot or the sessions.
Works == Creates \/ CreatesPair \/ Destroys \/ Relabels \/ Begins \/ EndsOperation \/ Searches

\* Calls that leave the objects and the sessions alone but may start the library.
Leaves ==
    /\ UNCHANGED objectVars
    /\ initialized => initialized' = TRUE /\ UNCHANGED sessions
    /\ ~initialized => \A i \in Idx : sessions'[i] \in {NoSession, sessions[i]}

\* Sessions come and go, and their operations with them.
SessionsMove ==
    /\ initialized' = initialized
    /\ OperationsFollow
    /\ UNCHANGED <<tableVars, key_files>>

Clears == initialized' = FALSE /\ ObjectsGone /\ counter' \in {counter, 1}

ObjectEffect == (Idle /\ Works) \/ Leaves \/ SessionsMove \/ Clears

LEMMA ObjectSizes ==
    /\ HSM_MAX_OBJECTS \in Nat /\ MaxObject \in Nat /\ BaseGap \in Nat /\ MaxObject < BaseGap
    /\ ObjIdx \subseteq Nat
  BY ObjectSizesAssumption DEF ObjIdx

LEMMA DoneIdle == ASSUME NEW code, Done(code) PROVE Idle
  BY DEF Done, Idle

\* A refusal leaves everything but the code.
LEMMA RefuseLeaves == ASSUME NEW code, Refuse(code) PROVE Idle /\ Leaves
  BY ReturnIdle DEF Refuse, Idle, Leaves, sessionVars

\* hsm_get_object finds one entry.
LEMMA FindsOne ==
    ASSUME NEW h, NEW j, NEW k, Finds(j, h), Finds(k, h)
    PROVE  j = k
  BY DEF Finds, InUse, ObjIdx

\* The object calls on session i.
LEMMA CallOnEffect ==
    ASSUME initialized, NEW i \in Open, CallOn(i)
    PROVE  Idle /\ (Works \/ Leaves)
<1>1. ASSUME NEW code, Refuse(code) PROVE Idle /\ (Works \/ Leaves)
  BY <1>1, RefuseLeaves
<1>2. ASSUME NEW t \in Templates, C_CreateObject(i, t) PROVE Idle /\ (Works \/ Leaves)
  <2>1. CASE Refuse("CKR_HOST_MEMORY")
    BY <2>1, <1>1
  <2>2. CASE ~Refuse("CKR_HOST_MEMORY")
    <3>1. Creates /\ Done("CKR_OK")
      BY <1>2, <2>2 DEF C_CreateObject, Creates
    <3> QED BY <3>1, DoneIdle DEF Works
  <2> QED BY <2>1, <2>2
<1>3. ASSUME NEW h \in ObjectHandles, C_DestroyObject(i, h) PROVE Idle /\ (Works \/ Leaves)
  <2>1. CASE \E k \in ObjIdx : Finds(k, h) /\ DestroyNow(k)
    <3>1. Destroys
      BY <2>1 DEF Destroys, Finds
    <3>2. Done("CKR_OK")
      BY <2>1 DEF DestroyNow
    <3> QED BY <3>1, <3>2, DoneIdle DEF Works
  <2> QED BY <1>1, <1>3, <2>1 DEF C_DestroyObject
<1>4. ASSUME NEW h \in ObjectHandles, C_GetAttributeValue(i, h) PROVE Idle /\ (Works \/ Leaves)
  BY <1>1, <1>4 DEF C_GetAttributeValue, AttributeRead
<1>5. ASSUME NEW h \in ObjectHandles, NEW label \in Labels, C_SetAttributeValue(i, h, label)
      PROVE  Idle /\ (Works \/ Leaves)
  <2>1. ASSUME NEW k \in ObjIdx, Finds(k, h), SetLabel(k, label)
        PROVE  Idle /\ (Works \/ Leaves)
    <3>1. Relabels
      BY <2>1 DEF Relabels, Finds, SetLabel
    <3> QED BY <2>1, <3>1, DoneIdle DEF Works, SetLabel
  <2> QED BY <1>1, <1>5, <2>1 DEF C_SetAttributeValue
<1>6. ASSUME NEW f, NEW code, SearchGoes(i, f), SetFind(i, f, code)
      PROVE  Idle /\ (Works \/ Leaves)
  BY <1>6, DoneIdle DEF SetFind, Searches, Works
<1>7. ASSUME C_FindObjectsInit(i) \/ C_FindObjectsFinal(i) PROVE Idle /\ (Works \/ Leaves)
  BY <1>1, <1>6, <1>7 DEF C_FindObjectsInit, C_FindObjectsFinal, SearchGoes
<1>8. ASSUME NEW max \in 0 .. HSM_MAX_FIND_OBJECTS, C_FindObjects(i, max)
      PROVE  Idle /\ (Works \/ Leaves)
  BY <1>1, <1>6, <1>8 DEF C_FindObjects, SearchGoes, HandsOut
<1>9. ASSUME NEW m \in Mechanisms, NEW pubT \in Templates, NEW privT \in Templates,
             C_GenerateKeyPair(i, m, pubT, privT)
      PROVE  Idle /\ (Works \/ Leaves)
  <2>1. CASE GenerateFails(m)
    BY <1>1, <2>1 DEF GenerateFails
  <2>2. CASE PlaceKeys(m, pubT, privT)
    <3>1. ASSUME m \in DOMAIN KeyPairGen, counter < MaxObject,
                 AddPair(PublicKey(pubT, KeyPairGen[m]), PrivateKey(privT, KeyPairGen[m]))
          PROVE  Idle /\ (Works \/ Leaves)
      <4>1. KeyPairGen[m] \in KeyTypes
        BY <3>1 DEF KeyPairGen, KeyTypes
      <4>2. CreatesPair
        BY <3>1, <4>1 DEF CreatesPair
      <4>3. Done("CKR_OK")
        BY <3>1 DEF AddPair, PlacePair
      <4> QED BY <4>2, <4>3, DoneIdle DEF Works
    <3> QED BY <1>1, <2>2, <3>1 DEF PlaceKeys
  <2> QED BY <1>1, <1>9, <2>1, <2>2 DEF C_GenerateKeyPair
<1>10. ASSUME NEW type \in {"OP_SIGN", "OP_VERIFY"}, NEW code, NEW h \in ObjectHandles,
              NEW m \in Mechanisms, code = "CKR_OK" => Accepts(type, h),
              BeginOperation(i, type, code, h, m)
       PROVE  Idle /\ (Works \/ Leaves)
  <2>1. CASE Refuse(code)
    BY <1>1, <2>1
  <2>2. CASE ~Refuse(code)
    <3>1. /\ code = "CKR_OK"
          /\ SetOperation(i, [active |-> TRUE, type |-> type, key_handle |-> h, mechanism |-> m],
                          "CKR_OK")
      BY <1>10, <2>2 DEF BeginOperation
    <3>2. Begins
      BY <1>10, <3>1 DEF SetOperation, Begins
    <3> QED BY <3>1, <3>2, DoneIdle DEF SetOperation, Works
  <2> QED BY <2>1, <2>2
<1>11. ASSUME NEW h \in ObjectHandles, NEW m \in Mechanisms, C_SignInit(i, h, m)
       PROVE  Idle /\ (Works \/ Leaves)
  <2>1. ASSUME NEW k \in ObjIdx, Finds(k, h), BeginSign(i, h, objects[k], m)
        PROVE  Idle /\ (Works \/ Leaves)
    <3>1. SignKeyError(objects[k], m) = "CKR_OK" => Accepts("OP_SIGN", h)
      BY <2>1, FindsOne DEF SignKeyError, Accepts, Finds, Known
    <3> QED BY <1>10, <2>1, <3>1 DEF BeginSign
  <2> QED BY <1>1, <1>11, <2>1 DEF C_SignInit
<1>12. ASSUME NEW h \in ObjectHandles, NEW m \in Mechanisms, C_VerifyInit(i, h, m)
       PROVE  Idle /\ (Works \/ Leaves)
  <2>1. ASSUME NEW k \in ObjIdx, Finds(k, h), BeginVerify(i, h, objects[k], m)
        PROVE  Idle /\ (Works \/ Leaves)
    <3>1. VerifyKeyError(objects[k]) = "CKR_OK" => Accepts("OP_VERIFY", h)
      BY <2>1, FindsOne DEF VerifyKeyError, Accepts, Finds, Known
    <3> QED BY <1>10, <2>1, <3>1 DEF BeginVerify
  <2> QED BY <1>1, <1>12, <2>1 DEF C_VerifyInit
<1>13. ASSUME NEW type, UseKey(i, type) PROVE Idle /\ (Works \/ Leaves)
  <2>1. ASSUME NEW o, NEW code, SetOperation(i, o, code),
               \E ty \in {"OP_NONE", operation[i].type} :
                  o = [operation[i] EXCEPT !.active = FALSE, !.type = ty]
        PROVE  Idle /\ (Works \/ Leaves)
    <3>1. EndsOperation
      BY <2>1 DEF SetOperation, EndsOperation
    <3> QED BY <2>1, <3>1, DoneIdle DEF SetOperation, Works
  <2> QED BY <1>1, <1>13, <2>1 DEF UseKey, EndOperation, LoseKey, EndWith
<1>14. ASSUME C_GenerateRandom(i) PROVE Idle /\ (Works \/ Leaves)
  BY <1>1, <1>14 DEF C_GenerateRandom
<1> QED BY <1>2, <1>3, <1>4, <1>5, <1>7, <1>8, <1>9, <1>11, <1>12, <1>13, <1>14
        DEF CallOn, C_Sign, C_Verify

\* The calls of HsmSession that are told apart by ObjectsNext.
LEMMA SlotCallsLeave ==
    ASSUME C_Initialize \/ BadArguments \/ InfoCall \/ PinCall, UNCHANGED objectVars
    PROVE  Leaves
<1>1. ASSUME UNCHANGED <<initialized, sessions>> PROVE Leaves
  BY <1>1 DEF Leaves
<1>2. ASSUME NEW code, Return(code) PROVE Leaves
  BY <1>1, <1>2 DEF Return, sessionVars
<1>3. ASSUME Hang PROVE Leaves
  BY <1>1, <1>3 DEF Hang, sessionVars
<1>4. CASE C_Initialize
  <2>1. ASSUME ~initialized, StartNow PROVE Leaves
    BY <2>1 DEF StartNow, hsm_init_slot, SlotHolds, Leaves
  <2> QED BY <1>2, <1>4, <2>1 DEF C_Initialize
<1>5. CASE BadArguments
  BY <1>2, <1>5 DEF BadArguments
<1>6. CASE InfoCall
  BY <1>2, <1>6 DEF InfoCall, C_GetInfo, C_GetSlotInfo, C_GetTokenInfo, C_GetSlotList
<1>7. CASE PinCall
  <2>1. ASSUME NEW ut, WrongPin(ut) PROVE Leaves
    BY <1>1, <2>1 DEF WrongPin, sessionVars
  <2>2. ASSUME NEW pin \in Pins, C_InitToken(pin) PROVE Leaves
    BY <1>1, <1>2, <1>3, <2>2 DEF C_InitToken, InitTokenNow, sessionVars
  <2>3. ASSUME NEW h \in Handles, NEW pin \in Pins, C_InitPIN(h, pin) PROVE Leaves
    BY <1>1, <1>2, <2>3 DEF C_InitPIN, InitPinOn, InitPinNow, sessionVars
  <2>4. ASSUME NEW h \in Handles, NEW old \in Pins, NEW new \in Pins, C_SetPIN(h, old, new)
        PROVE  Leaves
    BY <1>1, <1>2, <2>1, <2>4 DEF C_SetPIN, SetPinOn, SetPinNow, sessionVars
  <2> QED BY <1>7, <2>2, <2>3, <2>4 DEF PinCall
<1> QED BY <1>4, <1>5, <1>6, <1>7

LEMMA SessionCallKeepsLibrary == SessionCall => UNCHANGED initialized
<1> SUFFICES ASSUME SessionCall PROVE UNCHANGED initialized
  OBVIOUS
<1>1. ASSUME NEW code, Return(code) PROVE UNCHANGED initialized
  BY <1>1 DEF Return
<1>2. ASSUME NEW rw \in BOOLEAN, C_OpenSession(rw) PROVE UNCHANGED initialized
  BY <1>1, <1>2 DEF C_OpenSession, OpenNow
<1>3. ASSUME NEW h \in Handles, C_CloseSession(h) \/ C_GetSessionInfo(h) \/ C_Logout(h)
      PROVE  UNCHANGED initialized
  BY <1>1, <1>3 DEF C_CloseSession, CloseNow, C_GetSessionInfo, C_Logout, LogoutOn, LogoutNow
<1>4. ASSUME NEW h \in Handles, NEW ut \in Users, NEW pin \in Pins, C_Login(h, ut, pin)
      PROVE  UNCHANGED initialized
  BY <1>1, <1>4 DEF C_Login, LoginOn, LoginNow, WrongPin
<1>5. CASE C_CloseAllSessions
  BY <1>1, <1>5 DEF C_CloseAllSessions, Hang
<1> QED BY <1>2, <1>3, <1>4, <1>5 DEF SessionCall

\* What a call does: to the slot and the sessions, and to the objects.
LEMMA AnyCallEffects == AnyCall => Effect /\ ObjectEffect
<1> SUFFICES ASSUME AnyCall PROVE Effect /\ ObjectEffect
  OBVIOUS
<1>1. CASE (C_Initialize \/ BadArguments \/ InfoCall \/ PinCall) /\ UNCHANGED objectVars
  BY <1>1, CallEffects, SlotCallsLeave DEF ObjectEffect
<1>2. CASE SessionCall /\ OperationsFollow /\ UNCHANGED <<tableVars, key_files>>
  BY <1>2, CallEffects, SessionCallKeepsLibrary DEF ObjectEffect, SessionsMove
<1>3. CASE C_Finalize /\ ObjectsGone /\ UNCHANGED counter
  <2>1. initialized' = FALSE
    BY <1>3 DEF C_Finalize, Return
  <2> QED BY <1>3, <2>1, CallEffects DEF ObjectEffect, Clears
<1>4. CASE ObjectCall \/ MechanismCall \/ Stub
  <2>1. ASSUME NEW code, Refuse(code) PROVE Effect /\ ObjectEffect
    BY <2>1, RefuseLeaves DEF Effect, ObjectEffect
  <2>2. ASSUME NEW i \in Open, initialized, CallOn(i) PROVE Effect /\ ObjectEffect
    BY <2>2, CallOnEffect DEF Effect, ObjectEffect
  <2>3. CASE ObjectCall
    BY <2>1, <2>2, <2>3 DEF ObjectCall, Owns
  <2>4. CASE MechanismCall
    BY <2>1, <2>4 DEF MechanismCall, C_GetMechanismList, C_GetMechanismInfo
  <2>5. CASE Stub
    BY <2>1, <2>5 DEF Stub
  <2> QED BY <1>4, <2>3, <2>4, <2>5
<1> QED BY <1>1, <1>2, <1>3, <1>4 DEF AnyCall

LEMMA UnchangedEffects == UNCHANGED allVars => Effect /\ ObjectEffect
  BY DEF allVars, vars, Effect, Idle, ObjectEffect, Leaves, sessionVars

LEMMA ObjectEffects == [ObjectsNext]_allVars => Effect /\ ObjectEffect
<1> SUFFICES ASSUME [ObjectsNext]_allVars PROVE Effect /\ ObjectEffect
  OBVIOUS
<1>1. CASE (Crash \/ CrashInSave) /\ ObjectsGone /\ counter' = 1
  <2>1. [Next]_vars
    BY <1>1 DEF Next
  <2> QED BY <1>1, <2>1, StepEffects DEF Crash, CrashInSave, ProcessEnds, ObjectEffect, Clears
<1> QED BY <1>1, AnyCallEffects, UnchangedEffects DEF ObjectsNext
-----------------------------------------------------------------------------
(* Handles.  The bases lie BaseGap apart and the numbers stay below it, so *)
(* a handle tells its number and is issued once.                           *)

LEMMA BaseValues == \A type \in Types : HandleBase[type] \in {0, 1, 2, 3, 4}
  BY DEF HandleBase, Types

LEMMA HandleApart ==
    ASSUME NEW type \in Types, NEW other \in Types,
           NEW n \in 1 .. BaseGap - 1, NEW m \in 1 .. BaseGap - 1,
           hsm_generate_object_handle(type, n) = hsm_generate_object_handle(other, m)
    PROVE  n = m
<1>1. HandleBase[type] * BaseGap + n = HandleBase[other] * BaseGap + m
  BY DEF hsm_generate_object_handle
<1>2. HandleBase[type] \in {0, 1, 2, 3, 4} /\ HandleBase[other] \in {0, 1, 2, 3, 4}
  BY BaseValues
<1> QED BY <1>1, <1>2, ObjectSizes

LEMMA HandleNumbers ==
    ASSUME NEW type \in Types, NEW n \in Nat \ {0}
    PROVE  hsm_generate_object_handle(type, n) \in Nat \ {0}
<1>1. HandleBase[type] \in {0, 1, 2, 3, 4}
  BY BaseValues
<1> QED BY <1>1, ObjectSizes DEF hsm_generate_object_handle

\* The handles of the next two objects are new, and not the same.
LEMMA FreshHandle ==
    ASSUME counter \in 1 .. MaxObject + 1, NEW type \in Types, NEW other \in Types,
           NEW n \in counter .. MaxObject
    PROVE  /\ hsm_generate_object_handle(type, n) \notin Issued
           /\ n > counter => hsm_generate_object_handle(type, n)
                                # hsm_generate_object_handle(other, counter)
<1>1. n \in 1 .. BaseGap - 1 /\ 1 .. counter - 1 \subseteq 1 .. BaseGap - 1
  BY ObjectSizes
<1>2. hsm_generate_object_handle(type, n) \notin Issued
  BY <1>1, HandleApart DEF Issued
<1>3. n > counter => counter \in 1 .. BaseGap - 1
  BY ObjectSizes
<1> QED BY <1>1, <1>2, <1>3, HandleApart
-----------------------------------------------------------------------------
(* The objects the calls make.                                             *)

LEMMA ParseType ==
    ASSUME NEW t \in Templates, NEW o \in Object
    PROVE  hsm_parse_template(t, o) \in Object
  BY TemplatesAssumption DEF hsm_parse_template, Object

LEMMA NoObjectType == NoObject \in Object /\ NoObject.handle = 0
  BY DEF NoObject, Object, Types, KeyTypes, NoLabel

LEMMA CreatedType ==
    ASSUME counter \in Nat \ {0}, NEW t \in Templates
    PROVE  /\ Created(t) \in Object
           /\ \E type \in Types :
                Created(t).handle = hsm_generate_object_handle(type, counter)
<1> DEFINE o == hsm_parse_template(t, [NoObject EXCEPT !.type = "OBJ_TYPE_DATA"])
<1>1. o \in Object
  <2>1. [NoObject EXCEPT !.type = "OBJ_TYPE_DATA"] \in Object
    BY NoObjectType DEF Object, Types
  <2> QED BY <2>1, ParseType
<1>2. o.type \in Types
  BY <1>1 DEF Object
<1>3. hsm_generate_object_handle(o.type, counter) \in Nat
  BY <1>2, HandleNumbers
<1>4. Created(t) = [o EXCEPT !.handle = hsm_generate_object_handle(o.type, counter)]
  BY DEF Created
<1> HIDE DEF o
<1> QED BY <1>1, <1>2, <1>3, <1>4 DEF Object

LEMMA PairType ==
    ASSUME counter \in Nat \ {0}, NEW pubT \in Templates, NEW privT \in Templates,
           NEW key_type \in KeyTypes
    PROVE  /\ PublicKey(pubT, key_type) \in Object
           /\ PublicKey(pubT, key_type).handle
                = hsm_generate_object_handle("OBJ_TYPE_PUBLIC_KEY", counter)
           /\ PrivateKey(privT, key_type) \in Object
           /\ PrivateKey(privT, key_type).handle
                = hsm_generate_object_handle("OBJ_TYPE_PRIVATE_KEY", counter + 1)
<1>1. "OBJ_TYPE_PUBLIC_KEY" \in Types /\ "OBJ_TYPE_PRIVATE_KEY" \in Types
  BY DEF Types
<1> DEFINE pub  == hsm_parse_template(pubT, [NoObject EXCEPT !.type = "OBJ_TYPE_PUBLIC_KEY",
                                                             !.key_type = key_type])
           priv == hsm_parse_template(privT, [NoObject EXCEPT !.type = "OBJ_TYPE_PRIVATE_KEY",
                                                !.can_sign = TRUE, !.key_type = key_type])
<1>2. pub \in Object /\ priv \in Object
  <2>1. /\ [NoObject EXCEPT !.type = "OBJ_TYPE_PUBLIC_KEY", !.key_type = key_type] \in Object
        /\ [NoObject EXCEPT !.type = "OBJ_TYPE_PRIVATE_KEY", !.can_sign = TRUE,
                            !.key_type = key_type] \in Object
    BY <1>1, NoObjectType DEF Object
  <2> QED BY <2>1, ParseType
<1>3. /\ PublicKey(pubT, key_type)
           = [pub EXCEPT !.handle = hsm_generate_object_handle("OBJ_TYPE_PUBLIC_KEY", counter)]
      /\ PrivateKey(privT, key_type)
           = [priv EXCEPT !.handle = hsm_generate_object_handle("OBJ_TYPE_PRIVATE_KEY", counter + 1)]
  BY DEF PublicKey, PrivateKey
<1>4. /\ hsm_generate_object_handle("OBJ_TYPE_PUBLIC_KEY", counter) \in Nat
      /\ hsm_generate_object_handle("OBJ_TYPE_PRIVATE_KEY", counter + 1) \in Nat
  BY <1>1, HandleNumbers
<1> HIDE DEF pub, priv
<1> QED BY <1>2, <1>3, <1>4 DEF Object
-----------------------------------------------------------------------------
(* The object table.  The count is the number of entries in use, and the   *)
(* handles in the table are issued ones, so that a new one is like none.   *)

ObjectData ==
    /\ objects \in [ObjIdx -> Object]
    /\ object_count \in Nat
    /\ counter \in 1 .. MaxObject + 1
    /\ operation \in [Idx -> Operation]

ObjectTableInv == ObjectData /\ ObjectTable

LEMMA InUseFinite == IsFiniteSet(ObjIdx) /\ IsFiniteSet(InUse)
<1>1. IsFiniteSet(ObjIdx)
  BY ObjectSizes, FS_Interval DEF ObjIdx
<1> QED BY <1>1, FS_Subset DEF InUse

LEMMA RangeGrows ==
    ASSUME NEW c \in Nat, NEW d \in Nat, c <= d, NEW n \in 1 .. c - 1
    PROVE  n \in 1 .. d - 1
  OBVIOUS

LEMMA IssuedGrows ==
    ASSUME counter \in Nat, counter' \in Nat, counter <= counter'
    PROVE  /\ Issued \subseteq Issued'
           /\ \A type \in Types, n \in 1 .. counter' - 1 :
                hsm_generate_object_handle(type, n) \in Issued'
<1>1. \A n \in 1 .. counter - 1 : n \in 1 .. counter' - 1
  BY RangeGrows
<1>2. \A type, n : hsm_generate_object_handle(type, n)' = hsm_generate_object_handle(type, n)
  BY DEF hsm_generate_object_handle
<1> QED BY <1>1, <1>2 DEF Issued

\* What AddPair does to the table.
LEMMA PairPlaced ==
    ASSUME ObjectData, ObjectTable, CreatesPair
    PROVE  \E pub, priv \in Object, k, l \in Unused :
             /\ k # l
             /\ objects' = [objects EXCEPT ![k] = pub, ![l] = priv]
             /\ pub.handle = hsm_generate_object_handle("OBJ_TYPE_PUBLIC_KEY", counter)
             /\ priv.handle = hsm_generate_object_handle("OBJ_TYPE_PRIVATE_KEY", counter + 1)
             /\ pub.handle \notin Issued /\ priv.handle \notin Issued
             /\ pub.handle # priv.handle
             /\ pub # NoObject /\ priv # NoObject
             /\ object_count' = object_count + 2 /\ counter' = counter + 2
             /\ UNCHANGED <<operation, find>>
             /\ hsm_storage_save_object({pub, priv})
<1>1. PICK pubT \in Templates, privT \in Templates, key_type \in KeyTypes :
         AddPair(PublicKey(pubT, key_type), PrivateKey(privT, key_type))
  BY DEF CreatesPair
<1> DEFINE pub == PublicKey(pubT, key_type)
           priv == PrivateKey(privT, key_type)
<1>2. /\ pub \in Object /\ priv \in Object
      /\ pub.handle = hsm_generate_object_handle("OBJ_TYPE_PUBLIC_KEY", counter)
      /\ priv.handle = hsm_generate_object_handle("OBJ_TYPE_PRIVATE_KEY", counter + 1)
  BY PairType DEF ObjectData
<1>3. "OBJ_TYPE_PUBLIC_KEY" \in Types /\ "OBJ_TYPE_PRIVATE_KEY" \in Types
  BY DEF Types
<1>4. counter \in counter .. MaxObject /\ counter + 1 \in counter .. MaxObject
  BY ObjectSizes DEF ObjectData, CreatesPair
<1>5. /\ pub.handle \notin Issued /\ priv.handle \notin Issued
      /\ pub.handle # priv.handle
  BY <1>2, <1>3, <1>4, FreshHandle DEF ObjectData
<1>6. pub # NoObject /\ priv # NoObject
  BY <1>2, <1>3, HandleNumbers, NoObjectType DEF ObjectData
<1> HIDE DEF pub, priv
<1>7. AddPair(pub, priv)
  BY <1>1 DEF pub, priv
<1> QED BY <1>2, <1>5, <1>6, <1>7 DEF AddPair, PlacePair, First

\* What C_CreateObject does to the table.
LEMMA ObjectPlaced ==
    ASSUME ObjectData, ObjectTable, Creates
    PROVE  \E o \in Object, k \in Unused :
             /\ objects' = [objects EXCEPT ![k] = o]
             /\ \E type \in Types : o.handle = hsm_generate_object_handle(type, counter)
             /\ o.handle \notin Issued
             /\ o # NoObject
             /\ object_count' = object_count + 1 /\ counter' = counter + 1
             /\ UNCHANGED <<operation, find>>
             /\ hsm_storage_save_object({o})
<1>1. PICK t \in Templates, k \in Unused :
         objects' = [objects EXCEPT ![k] = Created(t)] /\ hsm_storage_save_object({Created(t)})
  BY DEF Creates
<1>2. /\ Created(t) \in Object
      /\ \E type \in Types : Created(t).handle = hsm_generate_object_handle(type, counter)
  BY CreatedType DEF ObjectData
<1>3. counter \in counter .. MaxObject
  BY ObjectSizes DEF ObjectData, Creates
<1>4. Created(t).handle \notin Issued
  BY <1>2, <1>3, FreshHandle DEF ObjectData
<1>5. Created(t) # NoObject
  BY <1>2, HandleNumbers, NoObjectType DEF ObjectData
<1> QED BY <1>1, <1>2, <1>4, <1>5 DEF Creates

LEMMA ObjectTableInit == ObjectsInit => ObjectTableInv
<1> SUFFICES ASSUME ObjectsInit PROVE ObjectTableInv
  OBVIOUS
<1>1. InUse = {}
  BY DEF ObjectsInit, InUse
<1>2. ObjectTable
  BY <1>1, FS_EmptySet DEF ObjectsInit, ObjectTable
<1>3. NoOperation \in Operation
  BY DEF NoOperation, Operation
<1>4. ObjectData
  BY <1>3, NoObjectType, ObjectSizes DEF ObjectsInit, ObjectData
<1> QED BY <1>2, <1>4 DEF ObjectTableInv

LEMMA ObjectTableStep ==
    TableInv /\ ObjectTableInv /\ ObjectEffect => ObjectTableInv'
<1> SUFFICES ASSUME DataOK, ObjectData, ObjectTable, ObjectEffect
             PROVE  ObjectData' /\ ObjectTable'
  BY DEF TableInv, ObjectTableInv
<1>1. NoOperation \in Operation
  BY DEF NoOperation, Operation
<1>2. ASSUME UNCHANGED tableVars, operation' \in [Idx -> Operation],
             initialized' = initialized \/ initialized' = TRUE
      PROVE  ObjectData' /\ ObjectTable'
  BY <1>2 DEF tableVars, ObjectData, ObjectTable, InUse, Issued
<1>3. CASE Leaves
  <2>1. CASE initialized
    BY <1>2, <1>3, <2>1 DEF Leaves, ObjectData, objectVars
  <2>2. CASE ~initialized
    <3>1. InUse = {} /\ InUse' = {}
      BY <1>3, <2>2 DEF Leaves, ObjectTable, objectVars, tableVars, InUse
    <3> QED BY <1>3, <3>1 DEF Leaves, objectVars, tableVars, ObjectData, ObjectTable, Issued
  <2> QED BY <2>1, <2>2
<1>4. CASE SessionsMove
  <2>1. operation' \in [Idx -> Operation]
    BY <1>1, <1>4 DEF SessionsMove, OperationsFollow, ObjectData
  <2> QED BY <1>2, <1>4, <2>1 DEF SessionsMove
<1>5. CASE Clears
  <2>1. InUse' = {}
    BY <1>5 DEF Clears, ObjectsGone, InUse
  <2>2. ObjectTable'
    BY <1>5, <2>1, FS_EmptySet DEF Clears, ObjectsGone, ObjectTable
  <2>3. counter' \in 1 .. MaxObject + 1
    BY <1>5, ObjectSizes DEF Clears, ObjectData
  <2> QED BY <1>1, <1>5, <2>2, <2>3, NoObjectType DEF Clears, ObjectsGone, ObjectData
<1>6. CASE Idle /\ Creates
  <2>1. PICK o \in Object, k \in Unused :
             /\ objects' = [objects EXCEPT ![k] = o]
             /\ \E type \in Types : o.handle = hsm_generate_object_handle(type, counter)
             /\ o.handle \notin Issued
             /\ o # NoObject
             /\ object_count' = object_count + 1 /\ counter' = counter + 1
             /\ UNCHANGED operation
    BY <1>6, ObjectPlaced
  <2>2. InUse' = InUse \cup {k} /\ k \notin InUse
    BY <2>1 DEF InUse, Unused, ObjectData
  <2>3. Cardinality(InUse') = Cardinality(InUse) + 1
    BY <2>2, InUseFinite, FS_AddElement
  <2>4. \A j \in InUse : objects'[j] = objects[j] /\ objects[j].handle \in Issued
    BY <2>1, <2>2 DEF InUse, ObjectData, ObjectTable
  <2>5. objects'[k] = o
    BY <2>1 DEF Unused, ObjectData
  <2>6. Issued \subseteq Issued' /\ o.handle \in Issued'
    BY <2>1, IssuedGrows DEF ObjectData
  <2>7. ObjectTable'
    BY <1>6, <2>1, <2>2, <2>3, <2>4, <2>5, <2>6 DEF ObjectTable, Idle, Creates
  <2>8. ObjectData'
    BY <1>6, <2>1, ObjectSizes DEF ObjectData, Unused, Creates
  <2> QED BY <2>7, <2>8
<1>7. CASE Idle /\ CreatesPair
  <2>1. PICK pub \in Object, priv \in Object, k \in Unused, l \in Unused :
             /\ k # l
             /\ objects' = [objects EXCEPT ![k] = pub, ![l] = priv]
             /\ pub.handle = hsm_generate_object_handle("OBJ_TYPE_PUBLIC_KEY", counter)
             /\ priv.handle = hsm_generate_object_handle("OBJ_TYPE_PRIVATE_KEY", counter + 1)
             /\ pub.handle \notin Issued /\ priv.handle \notin Issued
             /\ pub.handle # priv.handle
             /\ pub # NoObject /\ priv # NoObject
             /\ object_count' = object_count + 2 /\ counter' = counter + 2
             /\ UNCHANGED operation
    BY <1>7, PairPlaced
  <2>2. /\ InUse' = (InUse \cup {k}) \cup {l}
        /\ k \notin InUse /\ l \notin InUse \cup {k}
    BY <2>1 DEF InUse, Unused, ObjectData
  <2>3. Cardinality(InUse') = Cardinality(InUse) + 2
    <3>1. /\ Cardinality(InUse \cup {k}) = Cardinality(InUse) + 1
          /\ IsFiniteSet(InUse \cup {k})
      BY <2>2, InUseFinite, FS_AddElement
    <3>2. Cardinality((InUse \cup {k}) \cup {l}) = Cardinality(InUse \cup {k}) + 1
      BY <2>2, <3>1, FS_AddElement
    <3>3. Cardinality(InUse) \in Nat
      BY InUseFinite, FS_CardinalityType
    <3> QED BY <2>2, <3>1, <3>2, <3>3
  <2>4. \A j \in InUse : objects'[j] = objects[j] /\ objects[j].handle \in Issued
    BY <2>1, <2>2 DEF InUse, ObjectData, ObjectTable
  <2>5. objects'[k] = pub /\ objects'[l] = priv
    BY <2>1 DEF Unused, ObjectData
  <2>6. Issued \subseteq Issued' /\ pub.handle \in Issued' /\ priv.handle \in Issued'
    BY <2>1, IssuedGrows DEF ObjectData, Types
  <2>7. ObjectTable'
    <3>1. \A i, j \in InUse' : objects'[j].handle = objects'[i].handle => j = i
      BY <2>1, <2>2, <2>4, <2>5 DEF ObjectTable
    <3>2. \A j \in InUse' : objects'[j].handle \in Issued'
      BY <2>2, <2>4, <2>5, <2>6
    <3>3. initialized'
      BY <1>7 DEF Idle, CreatesPair
    <3> QED BY <2>1, <2>3, <3>1, <3>2, <3>3 DEF ObjectTable
  <2>8. ObjectData'
    BY <1>7, <2>1, ObjectSizes DEF ObjectData, Unused, CreatesPair
  <2> QED BY <2>7, <2>8
<1>8. CASE Idle /\ Destroys
  <2>1. PICK k \in InUse : DestroyNow(k)
    BY <1>8 DEF Destroys
  <2>2. /\ objects' = [objects EXCEPT ![k] = NoObject]
        /\ object_count' = object_count - 1
        /\ UNCHANGED <<counter, operation>>
    BY <2>1 DEF DestroyNow
  <2>3. InUse' = InUse \ {k}
    BY <2>2 DEF InUse, ObjectData
  <2>4. Cardinality(InUse') = Cardinality(InUse) - 1 /\ Cardinality(InUse') \in Nat
    BY <2>3, InUseFinite, FS_RemoveElement, FS_Subset, FS_CardinalityType
  <2>5. ObjectData'
    BY <2>2, <2>4, NoObjectType DEF ObjectData, ObjectTable
  <2>6. \A j \in InUse' : objects'[j] = objects[j] /\ j \in InUse
    BY <2>2, <2>3 DEF InUse, ObjectData
  <2>7. Issued' = Issued
    BY <2>2 DEF Issued, hsm_generate_object_handle
  <2>8. ObjectTable'
    BY <1>8, <2>2, <2>4, <2>6, <2>7 DEF ObjectTable, Idle, Destroys
  <2> QED BY <2>5, <2>8
<1>9. CASE Idle /\ Relabels
  <2>1. PICK k \in InUse, label \in Labels : objects' = [objects EXCEPT ![k].label = label]
    BY <1>9 DEF Relabels
  <2>2. k \in ObjIdx /\ objects[k] \in Object
    BY DEF InUse, ObjectData
  <2>3. objects[k].handle # 0
    BY HandleNumbers DEF ObjectTable, Issued
  <2>4. [objects[k] EXCEPT !.label = label] \in Object
    BY <2>2 DEF Object
  <2>5. /\ objects' \in [ObjIdx -> Object]
        /\ \A j \in ObjIdx : objects'[j].handle = objects[j].handle
    BY <2>1, <2>2, <2>4 DEF ObjectData, Object
  <2>6. InUse' = InUse
    <3>1. objects'[k] # NoObject
      BY <2>2, <2>3, <2>5, NoObjectType
    <3>2. \A j \in ObjIdx : j # k => objects'[j] = objects[j]
      BY <2>1 DEF ObjectData
    <3> QED BY <3>1, <3>2 DEF InUse
  <2>7. Issued' = Issued
    BY <1>9 DEF Relabels, Issued, hsm_generate_object_handle
  <2>8. InUse \subseteq ObjIdx
    BY DEF InUse
  <2> QED BY <1>9, <2>5, <2>6, <2>7, <2>8 DEF Relabels, Idle, ObjectData, ObjectTable
<1>10. CASE Idle /\ (Begins \/ EndsOperation \/ Searches)
  <2>1. operation' \in [Idx -> Operation]
    <3>1. ASSUME Begins PROVE operation' \in [Idx -> Operation]
      BY <3>1, ObjectSizesAssumption DEF Begins, ObjectData, Operation, Open
    <3>2. ASSUME EndsOperation PROVE operation' \in [Idx -> Operation]
      <4>1. PICK i \in Open : \E type \in {"OP_NONE", operation[i].type} :
               operation' = [operation EXCEPT ![i] =
                  [operation[i] EXCEPT !.active = FALSE, !.type = type]]
        BY <3>2 DEF EndsOperation
      <4>2. PICK type \in {"OP_NONE", operation[i].type} :
               operation' = [operation EXCEPT ![i] =
                  [operation[i] EXCEPT !.active = FALSE, !.type = type]]
        BY <4>1
      <4> DEFINE op == [operation[i] EXCEPT !.active = FALSE, !.type = type]
      <4>3. operation[i] \in Operation
        BY DEF Open, ObjectData
      <4>4. type \in {"OP_NONE", "OP_SIGN", "OP_VERIFY"}
        BY <4>3 DEF Operation
      <4>5. op \in Operation
        BY <4>3, <4>4 DEF Operation
      <4> HIDE DEF op
      <4>6. operation' = [operation EXCEPT ![i] = op]
        BY <4>2 DEF op
      <4> QED BY <4>5, <4>6 DEF ObjectData
    <3>3. ASSUME Searches PROVE operation' \in [Idx -> Operation]
      BY <3>3 DEF Searches, ObjectData
    <3> QED BY <1>10, <3>1, <3>2, <3>3
  <2> QED BY <1>2, <1>10, <2>1 DEF Begins, EndsOperation, Searches, Idle
<1> QED BY <1>3, <1>4, <1>5, <1>6, <1>7, <1>8, <1>9, <1>10 DEF ObjectEffect, Works

\* What the two calls that make objects do to the table.
LEMMA Added ==
    ASSUME ObjectData, ObjectTable, Creates \/ CreatesPair
    PROVE  \E new \in SUBSET Object :
             /\ InUse \subseteq InUse' /\ \A j \in InUse : objects'[j] = objects[j]
             /\ \A j \in InUse' \ InUse : objects'[j] \in new
             /\ \A o \in new : \E j \in InUse' \ InUse : objects'[j] = o
             /\ \A o \in new : o.handle \notin Issued /\ o.handle \in Issued'
             /\ \A o, p \in new : o.handle = p.handle => o = p
             /\ Issued \subseteq Issued'
             /\ UNCHANGED <<operation, find>>
             /\ hsm_storage_save_object(new)
<1>1. CASE Creates
  <2>1. PICK o \in Object, k \in Unused :
             /\ objects' = [objects EXCEPT ![k] = o]
             /\ \E type \in Types : o.handle = hsm_generate_object_handle(type, counter)
             /\ o.handle \notin Issued
             /\ o # NoObject
             /\ counter' = counter + 1
             /\ UNCHANGED <<operation, find>>
             /\ hsm_storage_save_object({o})
    BY <1>1, ObjectPlaced
  <2>2. /\ InUse' = InUse \cup {k} /\ k \notin InUse
        /\ objects'[k] = o /\ \A j \in InUse : objects'[j] = objects[j]
    BY <2>1 DEF InUse, Unused, ObjectData
  <2>3. Issued \subseteq Issued' /\ o.handle \in Issued'
    BY <2>1, IssuedGrows DEF ObjectData
  <2> WITNESS {o} \in SUBSET Object
  <2> QED BY <2>1, <2>2, <2>3
<1>2. CASE CreatesPair
  <2>1. PICK pub \in Object, priv \in Object, k \in Unused, l \in Unused :
             /\ k # l
             /\ objects' = [objects EXCEPT ![k] = pub, ![l] = priv]
             /\ pub.handle = hsm_generate_object_handle("OBJ_TYPE_PUBLIC_KEY", counter)
             /\ priv.handle = hsm_generate_object_handle("OBJ_TYPE_PRIVATE_KEY", counter + 1)
             /\ pub.handle \notin Issued /\ priv.handle \notin Issued
             /\ pub.handle # priv.handle
             /\ pub # NoObject /\ priv # NoObject
             /\ counter' = counter + 2
             /\ UNCHANGED <<operation, find>>
             /\ hsm_storage_save_object({pub, priv})
    BY <1>2, PairPlaced
  <2>2. /\ InUse' = InUse \cup {k, l} /\ k \notin InUse /\ l \notin InUse
        /\ objects'[k] = pub /\ objects'[l] = priv
        /\ \A j \in InUse : objects'[j] = objects[j]
    BY <2>1 DEF InUse, Unused, ObjectData
  <2>3. Issued \subseteq Issued' /\ pub.handle \in Issued' /\ priv.handle \in Issued'
    BY <2>1, IssuedGrows DEF ObjectData, Types
  <2> WITNESS {pub, priv} \in SUBSET Object
  <2> QED BY <2>1, <2>2, <2>3
<1> QED BY <1>1, <1>2

\* What C_DestroyObject does to it: the other objects have other handles.
LEMMA Destroyed ==
    ASSUME ObjectData, ObjectTable, Destroys
    PROVE  \E k \in InUse :
             /\ InUse' = InUse \ {k} /\ k \notin InUse'
             /\ \A j \in InUse' : j \in InUse /\ objects'[j] = objects[j]
                                    /\ objects[j].handle # objects[k].handle
             /\ Issued' = Issued
             /\ UNCHANGED <<operation, find>>
             /\ IF objects[k].is_token THEN hsm_storage_delete_object(objects[k].handle)
                ELSE UNCHANGED key_files
<1>1. PICK k \in InUse : DestroyNow(k)
  BY DEF Destroys
<1>2. InUse' = InUse \ {k} /\ \A j \in InUse' : objects'[j] = objects[j]
  BY <1>1 DEF DestroyNow, InUse, ObjectData
<1>3. Issued' = Issued
  BY <1>1 DEF DestroyNow, Issued, hsm_generate_object_handle
<1>4. \A j \in InUse' : objects[j].handle # objects[k].handle
  BY <1>2 DEF ObjectTable
<1> QED BY <1>1, <1>2, <1>3, <1>4 DEF DestroyNow

\* What C_SetAttributeValue does to it: the label is all that changes.
LEMMA Relabelled ==
    ASSUME ObjectData, ObjectTable, Relabels
    PROVE  \E k \in InUse, label \in Labels :
             /\ InUse' = InUse /\ Issued' = Issued
             /\ objects'[k] = [objects[k] EXCEPT !.label = label]
             /\ \A j \in InUse : j # k => objects'[j] = objects[j]
             /\ \A j \in InUse : /\ objects'[j].handle = objects[j].handle
                                 /\ objects'[j].type = objects[j].type
                                 /\ objects'[j].can_sign = objects[j].can_sign
                                 /\ objects'[j].is_token = objects[j].is_token
             /\ UNCHANGED <<operation, find, key_files>>
<1>1. PICK k \in InUse, label \in Labels : objects' = [objects EXCEPT ![k].label = label]
  BY DEF Relabels
<1>2. k \in ObjIdx /\ objects[k] \in Object
  BY DEF InUse, ObjectData
<1>3. /\ objects'[k] = [objects[k] EXCEPT !.label = label]
      /\ \A j \in ObjIdx : j # k => objects'[j] = objects[j]
  BY <1>1, <1>2 DEF ObjectData
<1>4. objects'[k].handle = objects[k].handle /\ objects[k].handle # 0
  <2>1. objects[k].handle # 0
    BY HandleNumbers DEF ObjectTable, Issued
  <2> QED BY <1>2, <1>3, <2>1 DEF Object
<1>5. InUse' = InUse
  BY <1>2, <1>3, <1>4, NoObjectType DEF InUse
<1>6. Issued' = Issued
  BY DEF Relabels, Issued, hsm_generate_object_handle
<1>7. \A j \in InUse : j \in ObjIdx /\ objects[j] \in Object
  BY DEF InUse, ObjectData
<1> QED BY <1>3, <1>5, <1>6, <1>7 DEF Relabels, Object
-----------------------------------------------------------------------------
(* Operations.  The key of an active one has a handle the counter has      *)
(* passed, so that no object made later can take its place.                *)

OperationsNamed ==
    \A i \in Idx : operation[i].active => operation[i].key_handle \in Issued

OperationInv == OperationsNamed /\ OperationKeyFits

LEMMA OperationInit == ObjectsInit => OperationInv
  BY DEF ObjectsInit, OperationInv, OperationsNamed, OperationKeyFits, NoOperation

\* While no object appears and none changes its kind, an operation keeps a
\* key that fits.
LEMMA FewerObjects ==
    ASSUME OperationInv, operation' = operation, Issued \subseteq Issued',
           \A k \in InUse' : k \in InUse /\ objects'[k].handle = objects[k].handle
              /\ objects'[k].type = objects[k].type /\ objects'[k].can_sign = objects[k].can_sign
    PROVE  OperationInv'
  BY DEF OperationInv, OperationsNamed, OperationKeyFits

\* An object with a new handle is no operation's key.
LEMMA NewObjects ==
    ASSUME OperationInv, operation' = operation, Issued \subseteq Issued',
           \A k \in InUse' : objects'[k].handle \notin Issued
                               \/ (k \in InUse /\ objects'[k] = objects[k])
    PROVE  OperationInv'
  BY DEF OperationInv, OperationsNamed, OperationKeyFits

\* Changing an operation that is not active afterwards disturbs nothing.
LEMMA OperationsEnd ==
    ASSUME OperationInv, Issued \subseteq Issued', objects' = objects,
           \A i \in Idx : operation'[i] = operation[i] \/ ~operation'[i].active
    PROVE  OperationInv'
  BY DEF OperationInv, OperationsNamed, OperationKeyFits, InUse

LEMMA OperationStep ==
    TableInv /\ ObjectTableInv /\ OperationInv /\ ObjectEffect => OperationInv'
<1> SUFFICES ASSUME DataOK, ObjectData, ObjectTable, OperationInv, ObjectEffect
             PROVE  OperationInv'
  BY DEF TableInv, ObjectTableInv
<1>1. ~NoOperation.active
  BY DEF NoOperation
<1>2. UNCHANGED tableVars => Issued' = Issued
  BY DEF tableVars, Issued, hsm_generate_object_handle
<1>3. CASE Leaves
  BY <1>2, <1>3, OperationsEnd DEF Leaves, objectVars, tableVars
<1>4. CASE SessionsMove
  BY <1>1, <1>2, <1>4, OperationsEnd DEF SessionsMove, OperationsFollow, tableVars
<1>5. CASE Clears
  BY <1>1, <1>5 DEF Clears, ObjectsGone, OperationInv, OperationsNamed, OperationKeyFits
<1>6. CASE Creates \/ CreatesPair
  <2>1. /\ \A k \in InUse' : objects'[k].handle \notin Issued
                               \/ (k \in InUse /\ objects'[k] = objects[k])
        /\ UNCHANGED operation /\ Issued \subseteq Issued'
    BY <1>6, Added
  <2> QED BY <2>1, NewObjects
<1>7. CASE Destroys
  <2>1. /\ \A j \in InUse' : j \in InUse /\ objects'[j] = objects[j]
        /\ UNCHANGED operation /\ Issued' = Issued
    BY <1>7, Destroyed
  <2> QED BY <2>1, FewerObjects
<1>8. CASE Relabels
  <2>1. /\ InUse' = InUse /\ Issued' = Issued /\ UNCHANGED operation
        /\ \A j \in InUse : /\ objects'[j].handle = objects[j].handle
                            /\ objects'[j].type = objects[j].type
                            /\ objects'[j].can_sign = objects[j].can_sign
    BY <1>8, Relabelled
  <2> QED BY <2>1, FewerObjects
<1>9. CASE Begins
  <2>1. PICK i \in Open, type \in {"OP_SIGN", "OP_VERIFY"}, h \in ObjectHandles, m \in Mechanisms :
           /\ Accepts(type, h)
           /\ operation' = [operation EXCEPT ![i] =
                 [active |-> TRUE, type |-> type, key_handle |-> h, mechanism |-> m]]
    BY <1>9 DEF Begins
  <2>2. /\ UNCHANGED objects /\ Issued' = Issued
        /\ InUse' = InUse
    BY <1>2, <1>9 DEF Begins, tableVars, InUse
  <2>3. h \in Issued
    BY <2>1 DEF Accepts, Known, ObjectTable
  <2>4. \A k \in InUse : objects[k].handle = h => Finds(k, h)
    <3>1. \A k \in InUse : k \in Nat
      BY ObjectSizes DEF InUse
    <3> QED BY <3>1 DEF Finds, ObjectTable
  <2>5. i \in Idx /\ \A j \in Idx : j # i => operation'[j] = operation[j]
    BY <2>1 DEF Open, ObjectData
  <2>6. /\ operation'[i].type = type /\ operation'[i].key_handle = h
    BY <2>1, <2>5 DEF ObjectData
  <2>7. OperationsNamed'
    BY <2>2, <2>3, <2>5, <2>6 DEF OperationInv, OperationsNamed
  <2>8. OperationKeyFits'
    <3> SUFFICES ASSUME NEW j \in Idx, NEW k \in InUse, operation'[j].active,
                        objects[k].handle = operation'[j].key_handle
                 PROVE  IF operation'[j].type = "OP_SIGN"
                        THEN objects[k].type = "OBJ_TYPE_PRIVATE_KEY" /\ objects[k].can_sign
                        ELSE objects[k].type = "OBJ_TYPE_PUBLIC_KEY"
      BY <2>2 DEF OperationKeyFits
    <3>1. CASE j = i
      BY <2>1, <2>4, <2>6, <3>1 DEF Accepts
    <3>2. CASE j # i
      BY <2>5, <3>2 DEF OperationInv, OperationKeyFits
    <3> QED BY <3>1, <3>2
  <2> QED BY <2>7, <2>8 DEF OperationInv
<1>10. CASE EndsOperation
  <2>1. PICK i \in Open : \E type \in {"OP_NONE", operation[i].type} :
           operation' = [operation EXCEPT ![i] =
              [operation[i] EXCEPT !.active = FALSE, !.type = type]]
    BY <1>10 DEF EndsOperation
  <2>2. operation[i] \in Operation /\ i \in Idx
    BY DEF Open, ObjectData
  <2>3. \A j \in Idx : operation'[j] = operation[j] \/ ~operation'[j].active
    BY <2>1, <2>2 DEF ObjectData, Operation
  <2> QED BY <1>2, <1>10, <2>3, OperationsEnd DEF EndsOperation, tableVars
<1>11. CASE Searches
  BY <1>2, <1>11, OperationsEnd DEF Searches, tableVars
<1> QED BY <1>3, <1>4, <1>5, <1>6, <1>7, <1>8, <1>9, <1>10, <1>11 DEF ObjectEffect, Works
-----------------------------------------------------------------------------
(* Files.                                                                  *)

\* A save removes no file and touches none but those of what it saves.
LEMMA WriteFrame ==
    ASSUME NEW os, Write(os)
    PROVE  /\ DOMAIN key_files \subseteq DOMAIN key_files'
           /\ \A h \in DOMAIN key_files' :
                (\E o \in os : o.handle = h)
                  \/ (h \in DOMAIN key_files /\ key_files'[h] = key_files[h])
           /\ \A h \in DOMAIN key_files :
                (\A o \in os : o.handle # h) => key_files'[h] = key_files[h]
  BY DEF Write

\* Where files can be trusted, what is saved is found in its file.
LEMMA WriteSaves ==
    ASSUME NEW os, Write(os), ~DiskFaults,
           \A o, p \in os : o.handle = p.handle => o = p
    PROVE  \A o \in os : o.handle \in DOMAIN key_files' /\ key_files'[o.handle] = Saved(o)
<1>1. PICK outcome \in [os -> {"whole"}] :
         LET written == {o \in os : outcome[o] # "lost"}
             names == {o.handle : o \in written}
             object(h) == CHOOSE o \in written : o.handle = h
         IN  key_files' = [h \in DOMAIN key_files \cup names |->
                             IF h \notin names THEN key_files[h]
                             ELSE IF outcome[object(h)] = "torn" THEN Torn
                             ELSE Saved(object(h))]
  BY DEF Write, Outcomes
<1> DEFINE names == {o.handle : o \in os}
           object(h) == CHOOSE o \in os : o.handle = h
<1>2. \A o \in os : object(o.handle) = o
  OBVIOUS
<1>3. {o \in os : outcome[o] # "lost"} = os /\ \A o \in os : outcome[o] # "torn"
  OBVIOUS
<1>4. key_files' = [h \in DOMAIN key_files \cup names |->
                      IF h \notin names THEN key_files[h]
                      ELSE IF outcome[object(h)] = "torn" THEN Torn ELSE Saved(object(h))]
  BY <1>1, <1>3
<1> SUFFICES ASSUME NEW o \in os
             PROVE  o.handle \in DOMAIN key_files' /\ key_files'[o.handle] = Saved(o)
  OBVIOUS
<1>5. o.handle \in names
  OBVIOUS
<1> HIDE DEF names, object
<1> QED BY <1>2, <1>3, <1>4, <1>5

LEMMA SavedInit == ObjectsInit => TokenObjectsSaved
  BY DEF ObjectsInit, TokenObjectsSaved, InUse

\* Relabelling an object relabels what a file of it would hold.
LEMMA LabelSaved ==
    ASSUME NEW f, NEW o \in Object, NEW a, [f EXCEPT !.label = o.label] = Saved(o)
    PROVE  [f EXCEPT !.label = a] = Saved([o EXCEPT !.label = a])
<1>1. [f EXCEPT !.label = a] = [Saved(o) EXCEPT !.label = a]
  OBVIOUS
<1>2. [Saved(o) EXCEPT !.label = a] = Saved([o EXCEPT !.label = a])
  BY DEF Saved, Object
<1> QED BY <1>1, <1>2

LEMMA OwnLabel == ASSUME NEW o PROVE [Saved(o) EXCEPT !.label = o.label] = Saved(o)
  BY DEF Saved

LEMMA SavedStep ==
    TableInv /\ ObjectTableInv /\ TokenObjectsSaved /\ ObjectEffect
      => TokenObjectsSaved'
<1> SUFFICES ASSUME ObjectData, ObjectTable, TokenObjectsSaved, ~DiskFaults, ObjectEffect,
                    NEW k \in InUse', objects'[k].is_token
             PROVE  /\ objects'[k].handle \in DOMAIN key_files'
                    /\ [key_files'[objects'[k].handle] EXCEPT !.label = objects'[k].label]
                         = Saved(objects'[k])
  BY DEF TableInv, ObjectTableInv, TokenObjectsSaved
<1>1. ASSUME k \in InUse, objects'[k] = objects[k],
             objects[k].handle \in DOMAIN key_files => objects[k].handle \in DOMAIN key_files'
               /\ key_files'[objects[k].handle] = key_files[objects[k].handle]
      PROVE  /\ objects'[k].handle \in DOMAIN key_files'
             /\ [key_files'[objects'[k].handle] EXCEPT !.label = objects'[k].label]
                  = Saved(objects'[k])
  BY <1>1 DEF TokenObjectsSaved
<1>2. CASE Leaves \/ SessionsMove \/ Begins \/ EndsOperation \/ Searches
  <2>1. UNCHANGED <<objects, key_files>>
    BY <1>2 DEF Leaves, SessionsMove, Begins, EndsOperation, Searches, objectVars, tableVars
  <2> QED BY <1>1, <2>1 DEF InUse
<1>3. CASE Clears
  BY <1>3 DEF Clears, ObjectsGone, InUse
<1>4. CASE Creates \/ CreatesPair
  <2>1. PICK new \in SUBSET Object :
             /\ \A j \in InUse : objects'[j] = objects[j]
             /\ \A j \in InUse' \ InUse : objects'[j] \in new
             /\ \A o \in new : o.handle \notin Issued
             /\ \A o, p \in new : o.handle = p.handle => o = p
             /\ hsm_storage_save_object(new)
    BY <1>4, Added
  <2>2. Write({o \in new : o.is_token})
    BY <2>1 DEF hsm_storage_save_object
  <2>3. CASE k \in InUse
    <3>1. \A o \in new : o.handle # objects[k].handle
      BY <2>1, <2>3 DEF ObjectTable
    <3> QED BY <1>1, <2>1, <2>2, <2>3, <3>1, WriteFrame
  <2>4. CASE k \notin InUse
    <3> DEFINE o == objects'[k]
    <3>1. o \in Object /\ o \in {p \in new : p.is_token}
      BY <2>1, <2>4
    <3>2. o.handle \in DOMAIN key_files' /\ key_files'[o.handle] = Saved(o)
      BY <2>1, <2>2, <3>1, WriteSaves
    <3>3. [Saved(o) EXCEPT !.label = o.label] = Saved(o)
      BY OwnLabel
    <3> QED BY <3>2, <3>3
  <2> QED BY <2>3, <2>4
<1>5. CASE Destroys
  <2>1. PICK d \in InUse :
             /\ k \in InUse /\ objects'[k] = objects[k]
             /\ objects[k].handle # objects[d].handle
             /\ IF objects[d].is_token THEN hsm_storage_delete_object(objects[d].handle)
                ELSE UNCHANGED key_files
    BY <1>5, Destroyed
  <2> QED BY <1>1, <2>1 DEF hsm_storage_delete_object
<1>6. CASE Relabels
  <2>1. PICK j \in InUse, label \in Labels :
             /\ InUse' = InUse
             /\ objects'[j] = [objects[j] EXCEPT !.label = label]
             /\ \A i \in InUse : i # j => objects'[i] = objects[i]
             /\ \A i \in InUse : /\ objects'[i].handle = objects[i].handle
                                 /\ objects'[i].is_token = objects[i].is_token
             /\ UNCHANGED key_files
    BY <1>6, Relabelled
  <2>2. CASE k = j
    <3> DEFINE f == key_files[objects[k].handle]
    <3>1. objects[k].handle \in DOMAIN key_files /\ [f EXCEPT !.label = objects[k].label] = Saved(objects[k])
      BY <2>1, <2>2 DEF TokenObjectsSaved
    <3>2. objects[k] \in Object
      BY <2>1, <2>2 DEF InUse, ObjectData
    <3>3. [f EXCEPT !.label = label] = Saved([objects[k] EXCEPT !.label = label])
      BY <3>1, <3>2, LabelSaved
    <3>4. objects'[k].label = label
      BY <2>1, <2>2, <3>2 DEF Object
    <3> QED BY <2>1, <2>2, <3>1, <3>3, <3>4
  <2>3. CASE k # j
    BY <1>1, <2>1, <2>3
  <2> QED BY <2>2, <2>3
<1> QED BY <1>2, <1>3, <1>4, <1>5, <1>6 DEF ObjectEffect, Works

LEMMA FilesStep == ObjectTableInv /\ ObjectEffect => FilesFollow
<1> SUFFICES ASSUME ObjectData, ObjectTable, ObjectEffect, initialized, initialized'
             PROVE  LET created   == TokenHandles' \ TokenHandles
                        destroyed == TokenHandles \ TokenHandles'
                    IN  /\ DOMAIN key_files \ DOMAIN key_files' \subseteq destroyed
                        /\ \A h \in DOMAIN key_files' :
                             \/ h \in created
                             \/ h \in DOMAIN key_files /\ key_files'[h] = key_files[h]
                        /\ ~DiskFaults => destroyed \cap DOMAIN key_files' = {}
  BY DEF ObjectTableInv, FilesFollow
<1>1. CASE Leaves \/ SessionsMove \/ Begins \/ EndsOperation \/ Searches
  <2>1. UNCHANGED <<objects, key_files>>
    BY <1>1 DEF Leaves, SessionsMove, Begins, EndsOperation, Searches, objectVars, tableVars
  <2>2. TokenHandles' = TokenHandles
    BY <2>1 DEF TokenHandles, InUse
  <2> QED BY <2>1, <2>2
<1>2. CASE Clears
  BY <1>2 DEF Clears
<1>3. CASE Creates \/ CreatesPair
  <2>1. PICK new \in SUBSET Object :
             /\ InUse \subseteq InUse' /\ \A j \in InUse : objects'[j] = objects[j]
             /\ \A o \in new : \E j \in InUse' \ InUse : objects'[j] = o
             /\ \A o \in new : o.handle \notin Issued
             /\ hsm_storage_save_object(new)
    BY <1>3, Added
  <2>2. TokenHandles \subseteq TokenHandles'
    BY <2>1 DEF TokenHandles
  <2>3. \A o \in new : o.is_token => o.handle \in TokenHandles' \ TokenHandles
    BY <2>1 DEF TokenHandles, ObjectTable
  <2>4. Write({o \in new : o.is_token})
    BY <2>1 DEF hsm_storage_save_object
  <2> QED BY <2>2, <2>3, <2>4, WriteFrame
<1>4. CASE Destroys
  <2>1. PICK k \in InUse :
             /\ InUse' = InUse \ {k}
             /\ \A j \in InUse' : j \in InUse /\ objects'[j] = objects[j]
                                    /\ objects[j].handle # objects[k].handle
             /\ IF objects[k].is_token THEN hsm_storage_delete_object(objects[k].handle)
                ELSE UNCHANGED key_files
    BY <1>4, Destroyed
  <2>2. TokenHandles \ TokenHandles' = IF objects[k].is_token THEN {objects[k].handle} ELSE {}
    BY <2>1 DEF TokenHandles
  <2> QED BY <2>1, <2>2 DEF hsm_storage_delete_object
<1>5. CASE Relabels
  <2>1. /\ InUse' = InUse /\ UNCHANGED key_files
        /\ \A j \in InUse : /\ objects'[j].handle = objects[j].handle
                            /\ objects'[j].is_token = objects[j].is_token
    BY <1>5, Relabelled
  <2>2. TokenHandles' = TokenHandles
    BY <2>1 DEF TokenHandles
  <2> QED BY <2>1, <2>2
<1> QED BY <1>1, <1>2, <1>3, <1>4, <1>5 DEF ObjectEffect, Works
-----------------------------------------------------------------------------
(* The step of ObjectStore each effect is.                                 *)

LEMMA StoreInit == ObjectsInit => Store!Init
  BY DEF ObjectsInit, Store!Init, Stored, InUse, Issued

LEMMA StoreStep == ObjectTableInv /\ ObjectEffect => [Store!Next]_(Store!vars)
<1> SUFFICES ASSUME ObjectData, ObjectTable, ObjectEffect
             PROVE  Store!Next \/ UNCHANGED <<Stored, Issued>>
  BY DEF ObjectTableInv, Store!vars
<1>1. CASE Leaves \/ SessionsMove \/ Begins \/ EndsOperation \/ Searches
  <2>1. UNCHANGED <<objects, counter>>
    BY <1>1 DEF Leaves, SessionsMove, Begins, EndsOperation, Searches, objectVars, tableVars
  <2> QED BY <2>1 DEF Stored, InUse, Issued, hsm_generate_object_handle
<1>2. CASE Clears
  <2>1. Stored' = {}
    BY <1>2 DEF Clears, ObjectsGone, Stored, InUse
  <2>2. CASE counter' = counter
    <3>1. Issued' = Issued
      BY <2>2 DEF Issued, hsm_generate_object_handle
    <3> QED BY <2>1, <3>1 DEF Store!Next, Store!Clear
  <2>3. CASE counter' = 1
    <3>1. Issued' = {}
      BY <2>3 DEF Issued
    <3> QED BY <2>1, <3>1 DEF Store!Next, Store!Restart
  <2> QED BY <1>2, <2>2, <2>3 DEF Clears
<1>3. CASE Creates \/ CreatesPair
  <2>1. PICK new \in SUBSET Object :
             /\ InUse \subseteq InUse' /\ \A j \in InUse : objects'[j] = objects[j]
             /\ \A j \in InUse' \ InUse : objects'[j] \in new
             /\ \A o \in new : o.handle \notin Issued /\ o.handle \in Issued'
             /\ \A o, p \in new : o.handle = p.handle => o = p
             /\ Issued \subseteq Issued'
    BY <1>3, Added
  <2>2. Stored \subseteq Stored' /\ Stored' \ Stored \subseteq new
    BY <2>1 DEF Stored
  <2>3. Store!Add
    BY <2>1, <2>2 DEF Store!Add
  <2> QED BY <2>3 DEF Store!Next
<1>4. CASE Destroys
  <2>1. PICK k \in InUse :
             /\ InUse' = InUse \ {k}
             /\ \A j \in InUse' : j \in InUse /\ objects'[j] = objects[j]
                                    /\ objects[j].handle # objects[k].handle
             /\ Issued' = Issued
    BY <1>4, Destroyed
  <2>2. Stored' = Stored \ {objects[k]} /\ objects[k] \in Stored
    BY <2>1 DEF Stored
  <2> QED BY <2>1, <2>2 DEF Store!Next, Store!Remove
<1>5. CASE Relabels
  <2>1. PICK k \in InUse, label \in Labels :
             /\ InUse' = InUse /\ Issued' = Issued
             /\ objects'[k] = [objects[k] EXCEPT !.label = label]
             /\ \A j \in InUse : j # k => objects'[j] = objects[j]
    BY <1>5, Relabelled
  <2>2. objects[k] \in Object
    BY DEF InUse, ObjectData
  <2> DEFINE o == objects[k]
             p == objects'[k]
  <2>3. p = [o EXCEPT !.label = p.label]
    BY <2>1, <2>2 DEF Object
  <2>4. \A j \in InUse : j # k => objects[j] # o
    BY DEF ObjectTable
  <2>5. Stored' = (Stored \ {o}) \cup {p} /\ o \in Stored /\ p \in Stored'
    BY <2>1, <2>4 DEF Stored
  <2> QED BY <2>1, <2>3, <2>5 DEF Store!Next, Store!Relabel
<1> QED BY <1>1, <1>2, <1>3, <1>4, <1>5 DEF ObjectEffect, Works
-----------------------------------------------------------------------------
(* Searches.  The objects in use are ranked by how many come before them.  *)

LEMMA BeforeFinite ==
    ASSUME NEW n
    PROVE  IsFiniteSet({k \in InUse : k < n}) /\ Before(n) \in Nat
<1>1. IsFiniteSet({k \in InUse : k < n})
  BY InUseFinite, FS_Subset
<1> QED BY <1>1, FS_CardinalityType DEF Before

LEMMA InUseNat == InUse \subseteq ObjIdx /\ ObjIdx \subseteq Nat
  BY ObjectSizes DEF InUse

\* An entry in use is counted for those behind it.
LEMMA BeforeGrows ==
    ASSUME NEW k \in InUse, NEW n \in Nat, k < n
    PROVE  Before(k) < Before(n)
<1> DEFINE A == {j \in InUse : j < k}
           B == {j \in InUse : j < n}
<1>1. k \in Nat /\ InUse \subseteq Nat
  BY InUseNat
<1>2. A \cup {k} \subseteq B /\ k \notin A
  <2>1. \A j \in InUse : j < k => j < n
    BY <1>1
  <2>2. ~(k < k)
    BY <1>1
  <2> QED BY <2>1, <2>2
<1>3. IsFiniteSet(A) /\ IsFiniteSet(B) /\ Cardinality(A) \in Nat /\ Cardinality(B) \in Nat
  BY BeforeFinite DEF Before
<1> HIDE DEF A, B
<1>4. Cardinality(A \cup {k}) = Cardinality(A) + 1
  BY <1>2, <1>3, FS_AddElement
<1>5. Cardinality(A \cup {k}) <= Cardinality(B)
  BY <1>2, <1>3, FS_Subset
<1> QED BY <1>3, <1>4, <1>5 DEF Before, A, B

LEMMA BeforeNext ==
    ASSUME NEW n \in Nat
    PROVE  Before(n + 1) = IF n \in InUse THEN Before(n) + 1 ELSE Before(n)
<1> DEFINE A == {j \in InUse : j < n}
           B == {j \in InUse : j < n + 1}
<1>1. InUse \subseteq Nat
  BY InUseNat
<1>2. \A j \in Nat : j < n + 1 <=> j < n \/ j = n
  OBVIOUS
<1>3. n \notin A /\ (n \in InUse => B = A \cup {n}) /\ (n \notin InUse => B = A)
  <2>1. \A j \in InUse : j < n + 1 <=> j < n \/ j = n
    BY <1>1, <1>2
  <2>2. ~(n < n)
    OBVIOUS
  <2> QED BY <2>1, <2>2
<1>4. IsFiniteSet(A)
  BY BeforeFinite
<1> HIDE DEF A, B
<1>5. Cardinality(B) = IF n \in InUse THEN Cardinality(A) + 1 ELSE Cardinality(A)
  BY <1>3, <1>4, FS_AddElement
<1> QED BY <1>5 DEF Before, A, B

\* Two entries in use have different ranks.
LEMMA BeforeApart ==
    ASSUME NEW j \in InUse, NEW k \in InUse, Before(j) = Before(k)
    PROVE  j = k
<1>1. j \in Nat /\ k \in Nat
  BY InUseNat
<1>2. Before(j) \in Nat /\ Before(k) \in Nat
  BY BeforeFinite
<1>3. ~(j < k) /\ ~(k < j)
  BY <1>1, <1>2, BeforeGrows
<1> QED BY <1>1, <1>3

\* Every rank below that of entry n is the rank of an entry before n.
LEMMA Ranked ==
    ASSUME NEW n \in Nat, NEW r \in 0 .. Before(n) - 1
    PROVE  \E k \in InUse : k < n /\ Before(k) = r
<1> DEFINE A == {k \in InUse : k < n}
           R == 0 .. Before(n) - 1
           f == [k \in A |-> Before(k)]
<1>1. IsFiniteSet(A) /\ Before(n) \in Nat /\ Cardinality(A) = Before(n)
  BY BeforeFinite, SMTT(30) DEF Before
<1>2. IsFiniteSet(R) /\ Cardinality(R) = Before(n)
  BY <1>1, FS_Interval, SMTT(30)
<1>3. \A k \in A : Before(k) \in R
  <2> SUFFICES ASSUME NEW k \in A PROVE Before(k) \in R
    OBVIOUS
  <2>1. k \in InUse /\ k < n
    OBVIOUS
  <2>2. Before(k) \in Nat /\ Before(k) < Before(n)
    BY <2>1, BeforeFinite, BeforeGrows
  <2> HIDE DEF A
  <2> QED BY <1>1, <2>2
<1>4. f \in [A -> R] /\ \A j, k \in A : f[j] = f[k] => j = k
  BY <1>3, BeforeApart
<1> HIDE DEF f, R
<1>5. f \in Injection(A, R)
  BY <1>4 DEF Injection, IsInjective
<1>6. f \in Surjection(A, R)
  BY <1>1, <1>2, <1>5, FS_Injection
<1>7. PICK k \in A : f[k] = r
  BY <1>6 DEF Surjection, R
<1> QED BY <1>7 DEF f
\* The m-th entry in use.
Place(m) == CHOOSE k \in InUse : Before(k) = m - 1

\* How many of the entries before n are collected.
Taken(n) == IF Before(n) < HSM_MAX_FIND_OBJECTS THEN Before(n) ELSE HSM_MAX_FIND_OBJECTS

LEMMA CollectedIs == \A n : Collected(n) = [m \in 1 .. Taken(n) |-> objects[Place(m)].handle]
  BY DEF Collected, Taken, Place

LEMMA TakenType == ASSUME NEW n PROVE Taken(n) \in Nat /\ Taken(n) <= Before(n)
                                        /\ Taken(n) <= HSM_MAX_FIND_OBJECTS
<1>1. Before(n) \in Nat
  BY BeforeFinite
<1> QED BY <1>1, ObjectSizesAssumption DEF Taken

LEMMA PlaceFound ==
    ASSUME NEW n \in Nat, NEW m \in 1 .. Before(n)
    PROVE  Place(m) \in InUse /\ Place(m) < n /\ Before(Place(m)) = m - 1
<1>1. Before(n) \in Nat
  BY BeforeFinite
<1>2. m - 1 \in 0 .. Before(n) - 1
  BY <1>1
<1>3. PICK k \in InUse : k < n /\ Before(k) = m - 1
  BY <1>2, Ranked
<1>4. Place(m) \in InUse /\ Before(Place(m)) = m - 1
  BY <1>3 DEF Place
<1> QED BY <1>3, <1>4, BeforeApart

LEMMA PlaceOf == ASSUME NEW k \in InUse PROVE Place(Before(k) + 1) = k
<1>1. Before(k) \in Nat /\ k \in Nat
  BY BeforeFinite, InUseNat
<1>2. Before(k + 1) = Before(k) + 1
  BY <1>1, BeforeNext
<1>3. Before(k) + 1 \in 1 .. Before(k + 1) /\ (Before(k) + 1) - 1 = Before(k)
  BY <1>1, <1>2
<1>4. k + 1 \in Nat
  BY <1>1
<1>5. Place(Before(k) + 1) \in InUse /\ Before(Place(Before(k) + 1)) = Before(k)
  BY <1>3, <1>4, PlaceFound
<1> QED BY <1>5, BeforeApart

LEMMA CollectedType ==
    ASSUME NEW n \in Nat
    PROVE  /\ Collected(n) \in Seq({objects[k].handle : k \in InUse})
           /\ Len(Collected(n)) = Taken(n)
           /\ \A m \in 1 .. Taken(n) : Collected(n)[m] = objects[Place(m)].handle
<1> DEFINE S == {objects[k].handle : k \in InUse}
<1>1. Taken(n) \in Nat /\ Before(n) \in Nat /\ \A m \in 1 .. Taken(n) : m \in 1 .. Before(n)
  <2>1. Taken(n) \in Nat /\ Before(n) \in Nat /\ Taken(n) <= Before(n)
    BY TakenType, BeforeFinite
  <2> QED BY <2>1
<1>2. \A m \in 1 .. Taken(n) : objects[Place(m)].handle \in S
  BY <1>1, PlaceFound
<1>3. Collected(n) \in [1 .. Taken(n) -> S]
  BY <1>2, CollectedIs
<1>4. Collected(n) \in Seq(S)
  BY <1>1, <1>3, SeqDef
<1> HIDE DEF S
<1>5. Len(Collected(n)) = Taken(n)
  BY <1>1, <1>3, <1>4, LenProperties
<1> QED BY <1>4, <1>5, CollectedIs DEF S

LEMMA CollectedFirst == Collected(0) = <<>>
<1>1. \A k \in InUse : ~(k < 0)
  BY InUseNat
<1>2. {k \in InUse : k < 0} = {}
  BY <1>1
<1>3. Before(0) = 0
  BY <1>2, FS_EmptySet DEF Before
<1>4. Taken(0) = 0
  BY <1>3, TakenType
<1>5. Len(Collected(0)) = 0 /\ Collected(0) \in Seq({objects[k].handle : k \in InUse})
  BY <1>4, CollectedType
<1> QED BY <1>5, EmptySeq

\* The scan takes the entries one by one.
LEMMA CollectedNext ==
    ASSUME NEW n \in Nat
    PROVE  Collected(n + 1) = IF n \in InUse /\ Len(Collected(n)) < HSM_MAX_FIND_OBJECTS
                              THEN Append(Collected(n), objects[n].handle) ELSE Collected(n)
<1> DEFINE S == {objects[k].handle : k \in InUse}
           e == objects[n].handle
<1>1. Before(n) \in Nat /\ Before(n + 1) = IF n \in InUse THEN Before(n) + 1 ELSE Before(n)
  BY BeforeFinite, BeforeNext
<1>2. HSM_MAX_FIND_OBJECTS \in Nat
  BY ObjectSizesAssumption
<1>3. Len(Collected(n)) = Taken(n)
  BY CollectedType
<1>4. CASE ~(n \in InUse /\ Taken(n) < HSM_MAX_FIND_OBJECTS)
  <2>1. Taken(n + 1) = Taken(n)
    BY <1>1, <1>2, <1>4 DEF Taken
  <2>2. Collected(n + 1) = Collected(n)
    BY <2>1, CollectedIs
  <2> QED BY <1>3, <1>4, <2>2
<1>5. CASE n \in InUse /\ Taken(n) < HSM_MAX_FIND_OBJECTS
  <2>1. Taken(n) = Before(n) /\ Taken(n + 1) = Taken(n) + 1
    BY <1>1, <1>2, <1>5 DEF Taken
  <2>2. /\ Collected(n) \in Seq(S) /\ Collected(n + 1) \in Seq(S) /\ e \in S
        /\ Len(Collected(n + 1)) = Taken(n) + 1
    BY <1>5, <2>1, CollectedType
  <2> DEFINE a == Append(Collected(n), e)
  <2> HIDE DEF S, e
  <2>3. /\ a \in Seq(S) /\ Len(a) = Taken(n) + 1
        /\ \A m \in 1 .. Taken(n) : a[m] = Collected(n)[m]
        /\ a[Taken(n) + 1] = e
    BY <1>3, <2>2, AppendProperties
  <2>4. Place(Taken(n) + 1) = n
    BY <1>5, <2>1, PlaceOf
  <2>5. /\ \A m \in 1 .. Taken(n) : Collected(n + 1)[m] = Collected(n)[m]
        /\ Collected(n + 1)[Taken(n) + 1] = e
    <3>1. Taken(n) \in Nat
      BY <1>1, <2>1
    <3>2. \A m \in 1 .. Taken(n) : m \in 1 .. Taken(n) + 1
      BY <3>1
    <3>3. Taken(n) + 1 \in 1 .. Taken(n) + 1
      BY <3>1
    <3>4. \A m \in 1 .. Taken(n) + 1 : Collected(n + 1)[m] = objects[Place(m)].handle
      <4>1. \A m \in 1 .. Taken(n + 1) : Collected(n + 1)[m] = objects[Place(m)].handle
        <5>1. n + 1 \in Nat
          OBVIOUS
        <5> QED BY <5>1, CollectedType
      <4> QED BY <2>1, <4>1
    <3>5. \A m \in 1 .. Taken(n) : Collected(n)[m] = objects[Place(m)].handle
      BY CollectedType
    <3> QED BY <2>4, <3>2, <3>3, <3>4, <3>5 DEF e
  <2>6. \A m \in 1 .. Taken(n) + 1 : a[m] = Collected(n + 1)[m]
    <3>1. Taken(n) \in Nat
      BY <1>1, <2>1
    <3>2. \A m \in 1 .. Taken(n) + 1 : m \in 1 .. Taken(n) \/ m = Taken(n) + 1
      BY <3>1
    <3> QED BY <2>3, <2>5, <3>2
  <2>7. a = Collected(n + 1)
    <3> HIDE DEF a
    <3> QED BY <2>2, <2>3, <2>6, SeqEqual
  <2> QED BY <1>3, <1>5, <2>7 DEF e
<1> QED BY <1>4, <1>5

\* The scan depends on which entries are in use and on their handles.
LEMMA CollectedSame ==
    ASSUME NEW n \in Nat, InUse' = InUse,
           \A k \in InUse : objects'[k].handle = objects[k].handle
    PROVE  Collected(n)' = Collected(n)
<1>1. \A k : Before(k)' = Before(k)
  BY DEF Before
<1>2. \A m : Place(m)' = Place(m)
  BY <1>1 DEF Place
<1>3. Taken(n)' = Taken(n)
  BY <1>1 DEF Taken
<1>4. \A m \in 1 .. Taken(n) : Place(m) \in InUse
  <2>1. Taken(n) \in Nat /\ Before(n) \in Nat /\ Taken(n) <= Before(n)
    BY TakenType, BeforeFinite
  <2>2. \A m \in 1 .. Taken(n) : m \in 1 .. Before(n)
    BY <2>1
  <2> QED BY <2>2, PlaceFound
<1>5. Collected(n)' = [m \in 1 .. Taken(n)' |-> objects'[Place(m)'].handle]
  BY DEF Collected, Taken, Place
<1> QED BY <1>2, <1>3, <1>4, <1>5, CollectedIs
-----------------------------------------------------------------------------
(* The theorems: every behaviour of the specification has the properties.  *)

\* The session table keeps its shape under the object calls, too.
LEMMA TablesAlways == ObjectsSpec => [](TableInv /\ ObjectTableInv)
<1>1. ObjectsInit => TableInv
  BY TableInit DEF ObjectsInit
<1>2. TableInv /\ [ObjectsNext]_allVars => TableInv'
  BY ObjectEffects, TableEffect
<1> QED BY <1>1, <1>2, ObjectTableInit, ObjectTableStep, ObjectEffects, PTL DEF ObjectsSpec

\* The object table: the count is the number of entries in use, each object
\* has an issued handle of its own, and none outlives C_Finalize.
THEOREM ObjectTableCorrect == ObjectsSpec => []ObjectTable
<1>1. ObjectTableInv => ObjectTable
  BY DEF ObjectTableInv
<1> QED BY TablesAlways, <1>1, PTL

\* The key C_Sign or C_Verify looks up is one their Init accepted.
THEOREM OperationKeysFit == ObjectsSpec => []OperationKeyFits
<1>1. OperationInv => OperationKeyFits
  BY DEF OperationInv
<1> QED BY TablesAlways, OperationInit, OperationStep, ObjectEffects, <1>1, PTL DEF ObjectsSpec

\* Where files can be trusted, every token object has its file.
THEOREM TokenObjectsHaveFiles == ObjectsSpec => []TokenObjectsSaved
  BY TablesAlways, SavedInit, SavedStep, ObjectEffects, PTL DEF ObjectsSpec

\* Files come and go with the token objects, whatever fails.
THEOREM FilesAreObjects == ObjectsSpec => FilesFollowObjects
  BY TablesAlways, FilesStep, ObjectEffects, PTL DEF ObjectsSpec, FilesFollowObjects

\* HsmObjects implements ObjectStore.
THEOREM StoreKept == ObjectsSpec => KeepsObjectStore
  BY TablesAlways, StoreInit, StoreStep, ObjectEffects, PTL DEF ObjectsSpec, KeepsObjectStore, Store!Spec
=============================================================================
