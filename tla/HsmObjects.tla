----------------------------- MODULE HsmObjects -----------------------------
(***************************************************************************)
(* The objects of the slot and the operations of its sessions: objects.c   *)
(* and the PKCS#11 calls of the two crypto_ops.c, on top of HsmSession,    *)
(* whose sessions carry the operations and whose end clears the objects.   *)
(* A step is again one whole call.                                         *)
(***************************************************************************)
EXTENDS HsmSession, Sequences

CONSTANTS
    HSM_MAX_OBJECTS,        \* entries of slot->objects
    HSM_MAX_FIND_OBJECTS,   \* entries of session->find_results
    BaseGap,                \* between the handle bases of two object types
    Templates,              \* attribute templates callers pass
    Labels,                 \* values of CKA_LABEL
    Mechanisms,             \* mechanisms callers pass
    ObjectHandles,          \* object handles callers pass
    MaxObject               \* bound of the model on the object handles issued

ASSUME ObjectSizesAssumption ==
    /\ HSM_MAX_OBJECTS \in Nat \ {0}
    /\ HSM_MAX_FIND_OBJECTS \in Nat
    /\ MaxObject \in Nat /\ BaseGap \in Nat
    /\ MaxObject < BaseGap
    /\ ObjectHandles \subseteq Nat

ObjIdx == 0 .. HSM_MAX_OBJECTS - 1

Types == {"OBJ_TYPE_DATA", "OBJ_TYPE_CERTIFICATE", "OBJ_TYPE_PUBLIC_KEY",
          "OBJ_TYPE_PRIVATE_KEY", "OTHER"}

KeyTypes == {"KEY_TYPE_RSA", "KEY_TYPE_EC"}

NoLabel == "no label"

\* What the calls read of an attribute template: no class, or a label that
\* is missing or too long, leaves the object's own.
ASSUME TemplatesAssumption ==
    Templates \subseteq [class : Types \cup {"none"}, token : BOOLEAN, label : Labels \cup {NoLabel}]

\* OBJECT_HANDLE_..._BASE, counted in gaps; other types have base 0.
HandleBase == [type \in Types |->
    CASE type = "OBJ_TYPE_PUBLIC_KEY"  -> 1
      [] type = "OBJ_TYPE_PRIVATE_KEY" -> 2
      [] type = "OBJ_TYPE_CERTIFICATE" -> 3
      [] type = "OBJ_TYPE_DATA"        -> 4
      [] OTHER                         -> 0]

Object == [handle : Nat, type : Types, is_token : BOOLEAN, can_sign : BOOLEAN,
           key_type : KeyTypes, label : Labels \cup {NoLabel}]

\* A NULL entry of slot->objects.
NoObject == [handle |-> 0, type |-> "OTHER", is_token |-> FALSE, can_sign |-> FALSE,
             key_type |-> "KEY_TYPE_RSA", label |-> NoLabel]

Operation == [active : BOOLEAN, type : {"OP_NONE", "OP_SIGN", "OP_VERIFY"},
              key_handle : Nat, mechanism : Mechanisms \cup {"none"}]

NoOperation == [active |-> FALSE, type |-> "OP_NONE", key_handle |-> 0, mechanism |-> "none"]

\* find_results up to find_count, and the index of the next to hand out.
Find == [active : BOOLEAN, results : Seq(Nat), index : Nat]

NoFind == [active |-> FALSE, results |-> <<>>, index |-> 0]

\* What an object's file holds: what the object may be used for (can_sign) is
\* not among it.
ObjectFile == [handle : Nat, type : Types, is_token : BOOLEAN, key_type : KeyTypes,
               label : Labels \cup {NoLabel}]

Saved(o) == [handle |-> o.handle, type |-> o.type, is_token |-> o.is_token,
             key_type |-> o.key_type, label |-> o.label]

\* A file whose write was cut short: no object's.
Torn == Saved(NoObject)

VARIABLES
    objects,        \* the slot: its object table
    object_count,
    counter,        \* static of hsm_generate_object_handle: survives C_Finalize
    operation,      \* of each session: the cryptographic operation
    find,           \* of each session: the search
    key_files       \* obj_<handle>.dat: what was saved under each handle

tableVars  == <<objects, object_count, counter>>
objectVars == <<tableVars, operation, find, key_files>>
allVars    == <<vars, objectVars>>

ObjectsTypeOK ==
    /\ TypeOK
    /\ objects \in [ObjIdx -> Object]
    /\ object_count \in 0 .. HSM_MAX_OBJECTS
    /\ counter \in 1 .. MaxObject + 1
    /\ operation \in [Idx -> Operation]
    /\ find \in [Idx -> Find]
    /\ \A h \in DOMAIN key_files : h \in Nat /\ key_files[h] \in ObjectFile
-----------------------------------------------------------------------------
(* The object table.                                                       *)

InUse == {k \in ObjIdx : objects[k] # NoObject}
Unused == ObjIdx \ InUse

\* The first entry with handle hObject, where hsm_get_object stops.
Finds(k, hObject) ==
    /\ k \in InUse
    /\ objects[k].handle = hObject
    /\ \A j \in InUse : objects[j].handle = hObject => k <= j

Known(hObject) == \E k \in InUse : objects[k].handle = hObject

\* Mutant: handles are numbered by the objects there are.
HandleFromCount(type, n) == HandleBase[type] * BaseGap + object_count + n - counter + 1

hsm_generate_object_handle(type, n) == HandleBase[type] * BaseGap + n

\* The object hsm_parse_template leaves of object o.
hsm_parse_template(t, o) ==
    [o EXCEPT !.type = IF t.class = "none" THEN @ ELSE t.class,
              !.is_token = t.token,
              !.label = IF t.label = NoLabel THEN @ ELSE t.label]

\* What becomes of a save: a failed fopen leaves the old file, a failed flush
\* a torn one, and nobody looks.
Outcomes == IF DiskFaults THEN {"whole", "torn", "lost"} ELSE {"whole"}

\* The files after writing those of the objects os.
Write(os) ==
    \E outcome \in [os -> Outcomes] :
       LET written == {o \in os : outcome[o] # "lost"}
           names == {o.handle : o \in written}
           object(h) == CHOOSE o \in written : o.handle = h
       IN  key_files' = [h \in DOMAIN key_files \cup names |->
                           IF h \notin names THEN key_files[h]
                           ELSE IF outcome[object(h)] = "torn" THEN Torn
                           ELSE Saved(object(h))]

\* Mutant: session objects are saved too.
SaveEveryObject(os) == Write(os)

\* hsm_storage_save_object of each of os, one after the other: it skips the
\* objects of the session.
hsm_storage_save_object(os) == Write({o \in os : o.is_token})

\* hsm_storage_delete_object: a failed unlink leaves the file.
hsm_storage_delete_object(h) ==
    \/ key_files' = [f \in DOMAIN key_files \ {h} |-> key_files[f]]
    \/ DiskFaults /\ UNCHANGED key_files

\* The call returns code and has changed nothing.
Refuse(code) == Return(code) /\ UNCHANGED objectVars

\* The call returns code and has changed nothing that HsmSession describes.
Done(code) ==
    /\ rv' = code
    /\ UNCHANGED <<initialized, pinVars, retryVars, sessionVars, token_file, hung>>
-----------------------------------------------------------------------------
(* Object calls, on the session of entry i of the session table.           *)

First(k, S) == k \in S /\ \A j \in S : k <= j

\* The object C_CreateObject builds: calloc, then the template.
Created(t) ==
    LET o == hsm_parse_template(t, [NoObject EXCEPT !.type = "OBJ_TYPE_DATA"])
    IN  [o EXCEPT !.handle = hsm_generate_object_handle(o.type, counter)]

\* With a count below the limit there is an unused entry: ObjectTable says so.
C_CreateObject(i, t) ==
    \/ Refuse("CKR_HOST_MEMORY")                     \* the limit, or no memory
    \/ /\ object_count < HSM_MAX_OBJECTS
       /\ counter <= MaxObject
       /\ \E k \in Unused : First(k, Unused) /\ objects' = [objects EXCEPT ![k] = Created(t)]
       /\ object_count' = object_count + 1
       /\ counter' = counter + 1
       /\ hsm_storage_save_object({Created(t)})
       /\ Done("CKR_OK")
       /\ UNCHANGED <<operation, find>>

\* Mutant: the file of a token object is left behind.
DestroyNowKeepsFile(k) ==
    /\ objects' = [objects EXCEPT ![k] = NoObject]
    /\ object_count' = object_count - 1
    /\ Done("CKR_OK")
    /\ UNCHANGED <<counter, operation, find, key_files>>

DestroyNow(k) ==
    /\ IF objects[k].is_token THEN hsm_storage_delete_object(objects[k].handle)
       ELSE UNCHANGED key_files
    /\ objects' = [objects EXCEPT ![k] = NoObject]
    /\ object_count' = object_count - 1
    /\ Done("CKR_OK")
    /\ UNCHANGED <<counter, operation, find>>

C_DestroyObject(i, hObject) ==
    \/ ~Known(hObject) /\ Refuse("CKR_OBJECT_HANDLE_INVALID")
    \/ \E k \in ObjIdx : Finds(k, hObject) /\ DestroyNow(k)

\* The codes hsm_get_attribute_value ends with; the last one set stands.
AttributeRead ==
    \E code \in {"CKR_OK", "CKR_BUFFER_TOO_SMALL", "CKR_ATTRIBUTE_TYPE_INVALID"} : Refuse(code)

C_GetAttributeValue(i, hObject) ==
    \/ ~Known(hObject) /\ Refuse("CKR_OBJECT_HANDLE_INVALID")
    \/ Known(hObject) /\ AttributeRead

\* The attributes are taken in order: a label ahead of a read-only attribute
\* is set although the call fails.  The file is not written again.
AttributeSet == {"CKR_OK", "CKR_ATTRIBUTE_READ_ONLY"}

SetLabel(k, label) ==
    /\ objects' = [objects EXCEPT ![k].label = label]
    /\ \E code \in AttributeSet : Done(code)
    /\ UNCHANGED <<object_count, counter, operation, find, key_files>>

C_SetAttributeValue(i, hObject, label) ==
    \/ ~Known(hObject) /\ Refuse("CKR_OBJECT_HANDLE_INVALID")
    \/ Known(hObject) /\ \E code \in AttributeSet : Refuse(code)
    \/ \E k \in ObjIdx : Finds(k, hObject) /\ SetLabel(k, label)
-----------------------------------------------------------------------------
(* Searches.                                                               *)

\* How many objects the table holds before entry n.
Before(n) == Cardinality({k \in InUse : k < n})

\* The handles before entry n, in the order of the table and up to the limit;
\* no template is looked at.
Collected(n) ==
    LET len == IF Before(n) < HSM_MAX_FIND_OBJECTS THEN Before(n) ELSE HSM_MAX_FIND_OBJECTS
    IN  [m \in 1 .. len |-> objects[CHOOSE k \in InUse : Before(k) = m - 1].handle]

\* Mutant: the scan starts at the second entry.
FindFromSecondEntry ==
    LET all == Collected(HSM_MAX_OBJECTS)
    IN  IF 0 \in InUse /\ all # <<>> THEN Tail(all) ELSE all

hsm_find_objects == Collected(HSM_MAX_OBJECTS)

SetFind(i, f, code) ==
    /\ find' = [find EXCEPT ![i] = f]
    /\ Done(code)
    /\ UNCHANGED <<tableVars, operation, key_files>>

C_FindObjectsInit(i) ==
    \/ find[i].active /\ Refuse("CKR_OPERATION_ACTIVE")
    \/ /\ ~find[i].active
       /\ SetFind(i, [active |-> TRUE, results |-> hsm_find_objects, index |-> 0], "CKR_OK")

C_FindObjects(i, ulMaxObjectCount) ==
    LET left  == Len(find[i].results) - find[i].index
        count == IF left < ulMaxObjectCount THEN left ELSE ulMaxObjectCount
    IN  \/ ~find[i].active /\ Refuse("CKR_OPERATION_NOT_INITIALIZED")
        \/ find[i].active /\ SetFind(i, [find[i] EXCEPT !.index = @ + count], "CKR_OK")

C_FindObjectsFinal(i) ==
    \/ ~find[i].active /\ Refuse("CKR_OPERATION_NOT_INITIALIZED")
    \/ find[i].active /\ SetFind(i, NoFind, "CKR_OK")
-----------------------------------------------------------------------------
(* Keys and signatures.                                                    *)

RSASigning == {"CKM_RSA_PKCS", "CKM_SHA256_RSA_PKCS", "CKM_SHA384_RSA_PKCS",
               "CKM_SHA512_RSA_PKCS", "CKM_SHA256_RSA_PKCS_PSS",
               "CKM_SHA384_RSA_PKCS_PSS", "CKM_SHA512_RSA_PKCS_PSS"}
ECSigning  == {"CKM_ECDSA", "CKM_ECDSA_SHA256", "CKM_ECDSA_SHA384", "CKM_ECDSA_SHA512"}

\* The table of hsm_check_mechanism_supported, which C_GetMechanismList repeats.
Supported == RSASigning \cup ECSigning \cup
    {"CKM_RSA_PKCS_KEY_PAIR_GEN", "CKM_RSA_PKCS_PSS", "CKM_EC_KEY_PAIR_GEN",
     "CKM_SHA256", "CKM_SHA384", "CKM_SHA512"}

\* C_GetMechanismList, with room for the list or not.
C_GetMechanismList ==
    \/ ~initialized /\ Refuse("CKR_CRYPTOKI_NOT_INITIALIZED")
    \/ initialized /\ \E code \in {"CKR_OK", "CKR_BUFFER_TOO_SMALL"} : Refuse(code)

C_GetMechanismInfo(type) ==
    \/ ~initialized /\ Refuse("CKR_CRYPTOKI_NOT_INITIALIZED")
    \/ initialized /\ type \notin Supported /\ Refuse("CKR_MECHANISM_INVALID")
    \/ initialized /\ type \in Supported /\ Refuse("CKR_OK")

\* The two objects of a new pair: the handles follow the roles, whatever
\* class the templates give.
PublicKey(t, key_type) ==
    [hsm_parse_template(t, [NoObject EXCEPT !.type = "OBJ_TYPE_PUBLIC_KEY", !.key_type = key_type])
       EXCEPT !.handle = hsm_generate_object_handle("OBJ_TYPE_PUBLIC_KEY", counter)]

PrivateKey(t, key_type) ==
    [hsm_parse_template(t, [NoObject EXCEPT !.type = "OBJ_TYPE_PRIVATE_KEY", !.can_sign = TRUE,
                                            !.key_type = key_type])
       EXCEPT !.handle = hsm_generate_object_handle("OBJ_TYPE_PRIVATE_KEY", counter + 1)]

\* The first two unused entries, found in one scan under slot->lock.
PlacePair(pub, priv) ==
    /\ \E k \in Unused, l \in Unused :
         /\ First(k, Unused) /\ First(l, Unused \ {k})
         /\ objects' = [objects EXCEPT ![k] = pub, ![l] = priv]
    /\ counter' = counter + 2
    /\ Done("CKR_OK")
    /\ UNCHANGED <<operation, find>>

\* Mutant: the pair is not counted.
AddPairUncounted(pub, priv) ==
    PlacePair(pub, priv) /\ UNCHANGED object_count /\ hsm_storage_save_object({pub, priv})

\* Mutant: the pair is counted as one object.
AddPairCountedOnce(pub, priv) ==
    /\ PlacePair(pub, priv)
    /\ object_count' = object_count + 1
    /\ hsm_storage_save_object({pub, priv})

\* Mutant: only the public key is saved.
AddPairSavesPublicOnly(pub, priv) ==
    /\ PlacePair(pub, priv)
    /\ object_count' = object_count + 2
    /\ hsm_storage_save_object({pub})

AddPair(pub, priv) ==
    /\ PlacePair(pub, priv)
    /\ object_count' = object_count + 2
    /\ hsm_storage_save_object({pub, priv})

\* The mechanism of each generator, and the type of its keys.
KeyPairGen == [CKM_RSA_PKCS_KEY_PAIR_GEN |-> "KEY_TYPE_RSA", CKM_EC_KEY_PAIR_GEN |-> "KEY_TYPE_EC"]

\* How the generators end: only 2048 and 4096 bits are a size of RSA keys; an
\* unknown curve was replaced by P-256 before.
hsm_generate_key_pair_rsa == {"CKR_OK", "CKR_KEY_SIZE_RANGE", "CKR_FUNCTION_FAILED"}

get_ec_params_from_nid == {"CKR_OK", "CKR_HOST_MEMORY"}

hsm_generate_key_pair_ec == get_ec_params_from_nid \cup {"CKR_FUNCTION_FAILED"}

KeyGenerator(mechanism) ==
    CASE mechanism = "CKM_RSA_PKCS_KEY_PAIR_GEN" -> hsm_generate_key_pair_rsa
      [] mechanism = "CKM_EC_KEY_PAIR_GEN"       -> hsm_generate_key_pair_ec
      [] OTHER                                   -> {"CKR_MECHANISM_INVALID"}

\* What may refuse before the pair is placed: the memory and the generator.
GenerateFails(mechanism) ==
    \/ Refuse("CKR_HOST_MEMORY")
    \/ \E code \in KeyGenerator(mechanism) \ {"CKR_OK"} : Refuse(code)

\* The part of the call under slot->lock.
PlaceKeys(mechanism, pubT, privT) ==
    \/ Cardinality(Unused) < 2 /\ Refuse("CKR_HOST_MEMORY")
    \/ /\ mechanism \in DOMAIN KeyPairGen
       /\ counter < MaxObject
       /\ Cardinality(Unused) >= 2
       /\ AddPair(PublicKey(pubT, KeyPairGen[mechanism]), PrivateKey(privT, KeyPairGen[mechanism]))

C_GenerateKeyPair(i, mechanism, pubT, privT) ==
    \/ ~sessions[i].user_logged_in /\ Refuse("CKR_USER_NOT_LOGGED_IN")
    \/ /\ sessions[i].user_logged_in
       /\ GenerateFails(mechanism) \/ PlaceKeys(mechanism, pubT, privT)

SetOperation(i, op, code) ==
    /\ operation' = [operation EXCEPT ![i] = op]
    /\ Done(code)
    /\ UNCHANGED <<tableVars, find, key_files>>

\* What C_SignInit refuses of key o and the mechanism, in the order it looks.
SignKeyError(o, mechanism) ==
    IF o.type # "OBJ_TYPE_PRIVATE_KEY" THEN "CKR_KEY_TYPE_INCONSISTENT"
    ELSE IF ~o.can_sign THEN "CKR_KEY_FUNCTION_NOT_PERMITTED"
    ELSE IF mechanism \notin Supported THEN "CKR_MECHANISM_INVALID"
    ELSE "CKR_OK"

\* The operation begins unless the key's code is an error.
BeginOperation(i, type, code, hKey, mechanism) ==
    \/ code # "CKR_OK" /\ Refuse(code)
    \/ /\ code = "CKR_OK"
       /\ SetOperation(i, [active |-> TRUE, type |-> type, key_handle |-> hKey,
                           mechanism |-> mechanism], "CKR_OK")

BeginSign(i, hKey, o, mechanism) ==
    BeginOperation(i, "OP_SIGN", SignKeyError(o, mechanism), hKey, mechanism)

C_SignInit(i, hKey, mechanism) ==
    \/ operation[i].active /\ Refuse("CKR_OPERATION_ACTIVE")
    \/ /\ ~operation[i].active
       /\ \/ ~Known(hKey) /\ Refuse("CKR_OBJECT_HANDLE_INVALID")
          \/ \E k \in ObjIdx : Finds(k, hKey) /\ BeginSign(i, hKey, objects[k], mechanism)

\* How a signature ends, if the mechanism is one of the key's: the buffer is
\* looked at, and OpenSSL may fail at any of its calls.
Signs(mechanism, known) ==
    {"CKR_FUNCTION_FAILED"} \cup
    IF mechanism \in known THEN {"CKR_OK", "CKR_BUFFER_TOO_SMALL"} ELSE {"CKR_MECHANISM_INVALID"}

sign_rsa(mechanism) == Signs(mechanism, RSASigning)

sign_ec(mechanism) == Signs(mechanism, ECSigning)

\* The codes of hsm_sign_data; every one ends the operation.
hsm_sign_data(o, mechanism) ==
    IF o.type # "OBJ_TYPE_PRIVATE_KEY" THEN {"CKR_KEY_TYPE_INCONSISTENT"}
    ELSE IF o.key_type = "KEY_TYPE_RSA" THEN sign_rsa(mechanism)
    ELSE sign_ec(mechanism)

hsm_verify_signature(o, mechanism) == {"CKR_FUNCTION_NOT_SUPPORTED"}

Compute(type, o, mechanism) ==
    IF type = "OP_SIGN" THEN hsm_sign_data(o, mechanism) ELSE hsm_verify_signature(o, mechanism)

\* What C_Sign and C_Verify do once the operation is theirs: a key that is
\* gone ends it but leaves its type.
LoseKey(i) == SetOperation(i, [operation[i] EXCEPT !.active = FALSE], "CKR_OBJECT_HANDLE_INVALID")

EndWith(i, type, o) ==
    \E code \in Compute(type, o, operation[i].mechanism) :
       SetOperation(i, [operation[i] EXCEPT !.active = FALSE, !.type = "OP_NONE"], code)

EndOperation(i, type) ==
    \/ ~Known(operation[i].key_handle) /\ LoseKey(i)
    \/ \E k \in ObjIdx : Finds(k, operation[i].key_handle) /\ EndWith(i, type, objects[k])

UseKey(i, type) ==
    LET mine == operation[i].active /\ operation[i].type = type
    IN  \/ ~mine /\ Refuse("CKR_OPERATION_NOT_INITIALIZED")
        \/ mine /\ EndOperation(i, type)

C_Sign(i) == UseKey(i, "OP_SIGN")

\* What C_VerifyInit refuses of the key: it looks neither at can_verify nor at
\* the mechanism.
VerifyKeyError(o) ==
    IF o.type # "OBJ_TYPE_PUBLIC_KEY" THEN "CKR_KEY_TYPE_INCONSISTENT" ELSE "CKR_OK"

BeginVerify(i, hKey, o, mechanism) ==
    BeginOperation(i, "OP_VERIFY", VerifyKeyError(o), hKey, mechanism)

C_VerifyInit(i, hKey, mechanism) ==
    \/ operation[i].active /\ Refuse("CKR_OPERATION_ACTIVE")
    \/ /\ ~operation[i].active
       /\ \/ ~Known(hKey) /\ Refuse("CKR_OBJECT_HANDLE_INVALID")
          \/ \E k \in ObjIdx : Finds(k, hKey) /\ BeginVerify(i, hKey, objects[k], mechanism)

C_Verify(i) == UseKey(i, "OP_VERIFY")

C_GenerateRandom(i) == \E code \in {"CKR_OK", "CKR_RANDOM_NO_RNG"} : Refuse(code)
-----------------------------------------------------------------------------
(* The whole: every object call looks its session up first, the calls of   *)
(* HsmSession leave the objects alone or clear them.                       *)

ObjectsInit ==
    /\ Init
    /\ objects = [k \in ObjIdx |-> NoObject]
    /\ object_count = 0
    /\ counter = 1
    /\ operation = [i \in Idx |-> NoOperation]
    /\ find = [i \in Idx |-> NoFind]
    /\ key_files = [h \in {} |-> Torn]

CallOn(i) ==
    \/ \E t \in Templates : C_CreateObject(i, t)
    \/ \E h \in ObjectHandles : C_DestroyObject(i, h) \/ C_GetAttributeValue(i, h)
    \/ \E h \in ObjectHandles, label \in Labels : C_SetAttributeValue(i, h, label)
    \/ C_FindObjectsInit(i) \/ C_FindObjectsFinal(i)
    \/ \E max \in 0 .. HSM_MAX_FIND_OBJECTS : C_FindObjects(i, max)
    \/ \E mechanism \in Mechanisms, pubT, privT \in Templates :
         C_GenerateKeyPair(i, mechanism, pubT, privT)
    \/ \E h \in ObjectHandles, mechanism \in Mechanisms :
         C_SignInit(i, h, mechanism) \/ C_VerifyInit(i, h, mechanism)
    \/ C_Sign(i) \/ C_Verify(i) \/ C_GenerateRandom(i)

ObjectCall ==
    \/ \E h \in Handles : hsm_get_session(h) # "CKR_OK" /\ Refuse(hsm_get_session(h))
    \/ \E h \in Handles, i \in Idx : initialized /\ Owns(i, h) /\ CallOn(i)

\* C_SignUpdate and the other functions that are not implemented; C_SeedRandom,
\* which does nothing.  They do not even look at the session.
Stub ==
    \E code \in {"CKR_FUNCTION_NOT_SUPPORTED", "CKR_FUNCTION_NOT_PARALLEL", "CKR_OK"} : Refuse(code)

\* "none" stands for a mechanism the library does not know.
MechanismCall ==
    \/ C_GetMechanismList
    \/ \E type \in Mechanisms \cup {"none"} : C_GetMechanismInfo(type)

\* The operations live in the sessions: C_OpenSession starts from calloc,
\* C_CloseSession frees them.  An entry is opened or closed when its handle
\* changes.
OperationsFollow ==
    /\ operation' = [i \in Idx |-> IF sessions'[i].handle = sessions[i].handle
                                   THEN operation[i] ELSE NoOperation]
    /\ find' = [i \in Idx |-> IF sessions'[i].handle = sessions[i].handle
                              THEN find[i] ELSE NoFind]

\* hsm_cleanup_slot frees the objects; their files stay.
ObjectsGone ==
    /\ objects' = [k \in ObjIdx |-> NoObject]
    /\ object_count' = 0
    /\ operation' = [i \in Idx |-> NoOperation]
    /\ find' = [i \in Idx |-> NoFind]
    /\ UNCHANGED key_files

\* One call of the library.
AnyCall ==
    \/ (C_Initialize \/ BadArguments \/ InfoCall \/ PinCall) /\ UNCHANGED objectVars
    \/ SessionCall /\ OperationsFollow /\ UNCHANGED <<tableVars, key_files>>
    \/ C_Finalize /\ ObjectsGone /\ UNCHANGED counter
    \/ ObjectCall \/ MechanismCall \/ Stub

ObjectsNext ==
    \/ ~hung /\ AnyCall
    \/ (Crash \/ CrashInSave) /\ ObjectsGone /\ counter' = 1

ObjectsSpec == ObjectsInit /\ [][ObjectsNext]_allVars
-----------------------------------------------------------------------------
(* Properties.                                                             *)

\* The handles the counter has passed.
Issued == {hsm_generate_object_handle(type, n) : type \in Types, n \in 1 .. counter - 1}

\* The count is the number of entries in use, so that a call that sees it
\* below HSM_MAX_OBJECTS does find an unused entry and never runs past the
\* table; hsm_get_object, which stops at the first match, finds the object
\* that was meant.
ObjectTable ==
    /\ object_count = Cardinality(InUse)
    /\ \A k \in InUse : objects[k].handle \in Issued
    /\ \A j, k \in InUse : objects[j].handle = objects[k].handle => j = k
    /\ ~initialized => InUse = {}

\* The key C_Sign or C_Verify looks up is one their Init accepted, however
\* many objects were destroyed and created since: the checks made at Init
\* hold at use, or the key is gone.
OperationKeyFits ==
    \A i \in Idx, k \in InUse :
        operation[i].active /\ objects[k].handle = operation[i].key_handle =>
            IF operation[i].type = "OP_SIGN"
            THEN objects[k].type = "OBJ_TYPE_PRIVATE_KEY" /\ objects[k].can_sign
            ELSE objects[k].type = "OBJ_TYPE_PUBLIC_KEY"

\* The number a handle was built from.
Number(h) == h % BaseGap

\* A search hands out each handle once and stays inside find_results; unless
\* it was cut off at HSM_MAX_FIND_OBJECTS, an object it misses was created
\* after everything it found.
SearchSound ==
    \A i \in Idx : find[i].active =>
        LET found == {find[i].results[n] : n \in DOMAIN find[i].results}
        IN  /\ find[i].index <= Len(find[i].results)
            /\ Len(find[i].results) <= HSM_MAX_FIND_OBJECTS
            /\ Cardinality(found) = Len(find[i].results)
            /\ Len(find[i].results) < HSM_MAX_FIND_OBJECTS =>
                 \A k \in InUse, h \in found :
                    objects[k].handle \in found \/ Number(h) < Number(objects[k].handle)

\* Where files can be trusted, every token object has its file, and no other
\* object's write has taken its place: the file is still what was written of
\* this object when it was created (a later label is not).
TokenObjectsSaved ==
    ~DiskFaults => \A k \in InUse : objects[k].is_token =>
        /\ objects[k].handle \in DOMAIN key_files
        /\ [key_files[objects[k].handle] EXCEPT !.label = objects[k].label] = Saved(objects[k])

TokenHandles == {objects[k].handle : k \in {j \in InUse : objects[j].is_token}}

FilesFollow ==
    LET created   == TokenHandles' \ TokenHandles
        destroyed == TokenHandles \ TokenHandles'
    IN  initialized /\ initialized' =>
          /\ DOMAIN key_files \ DOMAIN key_files' \subseteq destroyed
          /\ \A h \in DOMAIN key_files' :
               \/ h \in created
               \/ h \in DOMAIN key_files /\ key_files'[h] = key_files[h]
          /\ ~DiskFaults => destroyed \cap DOMAIN key_files' = {}

\* A running library removes no file but that of an object it destroys, and
\* writes none but that of a token object it creates, whatever fails; where
\* files can be trusted, none is left of an object it destroys.
FilesFollowObjects == [][FilesFollow]_allVars

\* The objects of the table.
Stored == {objects[k] : k \in InUse}

Store == INSTANCE ObjectStore WITH store <- Stored, used <- Issued

\* The table keeps the promise of ObjectStore.
KeepsObjectStore == Store!Spec
=============================================================================
