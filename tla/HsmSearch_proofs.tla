---------------------------- MODULE HsmSearch_proofs ----------------------------
(***************************************************************************)
(* The searches of HsmObjects: what a search holds stays sound while the   *)
(* objects it found are destroyed and others are created, and its index    *)
(* stays inside find_results.                                              *)
(*                                                                         *)
(* SearchSound is not inductive: that an object created during a search    *)
(* has a higher number than all that was found needs the handles found to  *)
(* be ones the counter has passed, although their objects may be gone.     *)
(***************************************************************************)
EXTENDS HsmObjects_proofs

Results(f) == {f.results[n] : n \in DOMAIN f.results}

EachOnce(f) == \A m, n \in DOMAIN f.results : f.results[m] = f.results[n] => m = n

MissesNewer(f) ==
    \A k \in InUse, h \in Results(f) :
       objects[k].handle \in Results(f) \/ Number(h) < Number(objects[k].handle)

InBounds(f) == f.index <= Len(f.results) /\ Len(f.results) <= HSM_MAX_FIND_OBJECTS

Sound(f) ==
    f.active =>
      /\ InBounds(f) /\ EachOnce(f) /\ Results(f) \subseteq Issued
      /\ Len(f.results) < HSM_MAX_FIND_OBJECTS => MissesNewer(f)

SearchInv ==
    /\ find \in [Idx -> Find]
    /\ \A i \in Idx, f \in Find : f = find[i] => Sound(f)

LEMMA ResultsDomain ==
    ASSUME NEW f \in Find
    PROVE  /\ DOMAIN f.results = 1 .. Len(f.results) /\ Len(f.results) \in Nat /\ f.index \in Nat
           /\ f.results \in [1 .. Len(f.results) -> Results(f)]
<1>1. f.results \in Seq(Nat) /\ f.index \in Nat
  BY DEF Find
<1>2. /\ DOMAIN f.results = 1 .. Len(f.results) /\ Len(f.results) \in Nat
      /\ f.results \in [1 .. Len(f.results) -> Nat]
  BY <1>1, LenProperties
<1> QED BY <1>1, <1>2 DEF Results

LEMMA ResultsCounted ==
    ASSUME NEW f \in Find, EachOnce(f)
    PROVE  Cardinality(Results(f)) = Len(f.results)
<1> DEFINE n == Len(f.results)
           D == 1 .. Len(f.results)
<1>1. n \in Nat /\ DOMAIN f.results = D /\ f.results \in [D -> Results(f)]
  BY ResultsDomain
<1>2. IsFiniteSet(D) /\ Cardinality(D) = n
  BY <1>1, FS_Interval
<1> HIDE DEF D, n
<1>3. f.results \in Surjection(D, Results(f))
  BY <1>1 DEF Surjection, Results
<1>4. f.results \in Injection(D, Results(f))
  BY <1>1 DEF Injection, IsInjective, EachOnce
<1>5. Cardinality(Results(f)) = Cardinality(D)
  BY <1>2, <1>3, <1>4, FS_Surjection
<1> QED BY <1>2, <1>5 DEF n

LEMMA SearchInvImplies == SearchInv => SearchSound
<1> SUFFICES ASSUME SearchInv, NEW i \in Idx, find[i].active
             PROVE  /\ find[i].index <= Len(find[i].results)
                    /\ Len(find[i].results) <= HSM_MAX_FIND_OBJECTS
                    /\ Cardinality(Results(find[i])) = Len(find[i].results)
                    /\ Len(find[i].results) < HSM_MAX_FIND_OBJECTS =>
                         \A k \in InUse, h \in Results(find[i]) :
                            \/ objects[k].handle \in Results(find[i])
                            \/ Number(h) < Number(objects[k].handle)
  BY DEF SearchSound, Results
<1>1. Sound(find[i]) /\ find[i] \in Find
  BY DEF SearchInv
<1> QED BY <1>1, ResultsCounted DEF Sound, InBounds, MissesNewer
-----------------------------------------------------------------------------
(* Numbers.                                                                *)

LEMMA Remainders ==
    ASSUME NEW g \in Nat \ {0}, NEW n \in 0 .. g - 1
    PROVE  /\ (0 * g + n) % g = n /\ (1 * g + n) % g = n /\ (2 * g + n) % g = n
           /\ (3 * g + n) % g = n /\ (4 * g + n) % g = n
  OBVIOUS

\* The base of the type does not show in the number.
LEMMA NumberOfHandle ==
    ASSUME NEW type \in Types, NEW n \in 1 .. MaxObject + 1
    PROVE  n <= MaxObject => Number(hsm_generate_object_handle(type, n)) = n
<1> SUFFICES ASSUME n <= MaxObject PROVE Number(hsm_generate_object_handle(type, n)) = n
  OBVIOUS
<1>1. BaseGap \in Nat \ {0} /\ n \in 0 .. BaseGap - 1
  BY ObjectSizes
<1>2. HandleBase[type] \in {0, 1, 2, 3, 4}
  BY BaseValues
<1>3. (HandleBase[type] * BaseGap + n) % BaseGap = n
  BY <1>1, <1>2, Remainders
<1> QED BY <1>3 DEF Number, hsm_generate_object_handle

LEMMA IssuedNumbers ==
    ASSUME counter \in 1 .. MaxObject + 1, NEW h \in Issued
    PROVE  Number(h) \in 1 .. counter - 1
<1>1. PICK type \in Types, n \in 1 .. counter - 1 : h = hsm_generate_object_handle(type, n)
  BY DEF Issued
<1>2. n \in 1 .. MaxObject + 1 /\ n <= MaxObject
  BY ObjectSizes
<1> QED BY <1>1, <1>2, NumberOfHandle
-----------------------------------------------------------------------------
(* What a search begins with.                                              *)

LEMMA BegunSound ==
    ASSUME ObjectTableInv
    PROVE  LET f == [active |-> TRUE, results |-> hsm_find_objects, index |-> 0]
           IN  f \in Find /\ Sound(f)
<1> DEFINE M == HSM_MAX_OBJECTS
           f == [active |-> TRUE, results |-> hsm_find_objects, index |-> 0]
           S == {objects[k].handle : k \in InUse}
<1>1. M \in Nat /\ HSM_MAX_FIND_OBJECTS \in Nat
  BY ObjectSizesAssumption
<1>2. S \subseteq Issued /\ S \subseteq Nat
  BY DEF ObjectTableInv, ObjectTable, ObjectData, InUse, Object
<1>3. /\ hsm_find_objects \in Seq(S) /\ Len(hsm_find_objects) = Taken(M)
      /\ \A m \in 1 .. Taken(M) : hsm_find_objects[m] = objects[Place(m)].handle
  BY <1>1, CollectedType DEF hsm_find_objects
<1>4. DOMAIN hsm_find_objects = 1 .. Taken(M)
  BY <1>3, LenProperties
<1>5. Taken(M) \in Nat /\ Before(M) \in Nat /\ Taken(M) <= Before(M)
      /\ Taken(M) <= HSM_MAX_FIND_OBJECTS
  BY TakenType, BeforeFinite
<1>6. \A m \in 1 .. Taken(M) : Place(m) \in InUse /\ Before(Place(m)) = m - 1
  <2>1. \A m \in 1 .. Taken(M) : m \in 1 .. Before(M)
    BY <1>5
  <2> QED BY <1>1, <2>1, PlaceFound
<1>7. f.results = hsm_find_objects /\ f.index = 0 /\ f.active
  OBVIOUS
<1>8. f \in Find
  <2>1. hsm_find_objects \in Seq(Nat)
    <3>1. hsm_find_objects \in [1 .. Len(hsm_find_objects) -> S]
      BY <1>3, LenProperties
    <3>2. Len(hsm_find_objects) \in Nat
      BY <1>3, LenProperties
    <3>3. hsm_find_objects \in [1 .. Len(hsm_find_objects) -> Nat]
      BY <1>2, <3>1
    <3> QED BY <3>2, <3>3, SeqDef
  <2> QED BY <2>1 DEF Find
<1> HIDE DEF f
<1>9. InBounds(f)
  BY <1>3, <1>5, <1>7 DEF InBounds
<1>10. EachOnce(f)
  <2> SUFFICES ASSUME NEW m \in 1 .. Taken(M), NEW n \in 1 .. Taken(M),
                      hsm_find_objects[m] = hsm_find_objects[n]
               PROVE  m = n
    BY <1>4, <1>7 DEF EachOnce
  <2>1. objects[Place(m)].handle = objects[Place(n)].handle
    BY <1>3
  <2>2. Place(m) = Place(n)
    BY <1>6, <2>1 DEF ObjectTableInv, ObjectTable
  <2>3. m - 1 = n - 1
    BY <1>6, <2>2
  <2> QED BY <2>3
<1>11. Results(f) \subseteq S
  BY <1>3, <1>4, <1>6, <1>7 DEF Results
<1>12. ASSUME Len(f.results) < HSM_MAX_FIND_OBJECTS PROVE MissesNewer(f)
  <2>1. Taken(M) = Before(M)
    BY <1>1, <1>3, <1>5, <1>7, <1>12 DEF Taken
  <2>2. ASSUME NEW k \in InUse PROVE objects[k].handle \in Results(f)
    <3>1. k < M /\ k \in Nat
      BY <1>1 DEF InUse, ObjIdx
    <3>2. Before(k) < Before(M) /\ Before(k) \in Nat
      BY <1>1, <3>1, BeforeGrows, BeforeFinite
    <3>3. Before(k) + 1 \in 1 .. Taken(M)
      BY <1>5, <2>1, <3>2
    <3>4. Place(Before(k) + 1) = k
      BY PlaceOf
    <3>5. hsm_find_objects[Before(k) + 1] = objects[k].handle
      BY <1>3, <3>3, <3>4
    <3> QED BY <1>4, <1>7, <3>3, <3>5 DEF Results
  <2> QED BY <2>2 DEF MissesNewer
<1>13. Sound(f)
  BY <1>2, <1>9, <1>10, <1>11, <1>12 DEF Sound
<1> QED BY <1>8, <1>13 DEF f
-----------------------------------------------------------------------------
(* A search under the steps of the others.                                 *)

\* The objects there were keep their handles or go, and new ones have numbers
\* the counter had not reached.
TableGrows ==
    /\ Issued \subseteq Issued'
    /\ \A k \in InUse' :
         \/ k \in InUse /\ objects'[k].handle = objects[k].handle
         \/ \E type \in Types, n \in counter .. MaxObject :
              objects'[k].handle = hsm_generate_object_handle(type, n)

LEMMA SoundStays ==
    ASSUME ObjectTableInv, TableGrows, NEW f, Sound(f) PROVE Sound(f)'
<1>1. InBounds(f)' = InBounds(f) /\ EachOnce(f)' = EachOnce(f) /\ Results(f)' = Results(f)
  BY DEF InBounds, EachOnce, Results
<1>2. f.active => Results(f) \subseteq Issued'
  BY DEF Sound, TableGrows
<1>3. ASSUME f.active, MissesNewer(f) PROVE MissesNewer(f)'
  <2> SUFFICES ASSUME NEW k \in InUse', NEW h \in Results(f)
               PROVE  objects'[k].handle \in Results(f) \/ Number(h) < Number(objects'[k].handle)
    BY <1>1 DEF MissesNewer, Number
  <2>1. CASE k \in InUse /\ objects'[k].handle = objects[k].handle
    BY <1>3, <2>1 DEF MissesNewer
  <2>2. CASE \E type \in Types, n \in counter .. MaxObject :
                objects'[k].handle = hsm_generate_object_handle(type, n)
    <3>1. PICK type \in Types, n \in counter .. MaxObject :
             objects'[k].handle = hsm_generate_object_handle(type, n)
      BY <2>2
    <3>2. counter \in 1 .. MaxObject + 1
      BY DEF ObjectTableInv, ObjectData
    <3>3. n \in 1 .. MaxObject + 1 /\ n <= MaxObject
      BY <3>2, ObjectSizes
    <3>4. Number(objects'[k].handle) = n
      BY <3>1, <3>3, NumberOfHandle
    <3>5. Number(h) \in 1 .. counter - 1
      BY <1>3, <3>2, IssuedNumbers DEF Sound
    <3> QED BY <3>2, <3>4, <3>5
  <2> QED BY <2>1, <2>2 DEF TableGrows
<1> QED BY <1>1, <1>2, <1>3 DEF Sound

LEMMA CreatesGrows ==
    ASSUME ObjectTableInv, Creates \/ CreatesPair PROVE TableGrows /\ UNCHANGED find
<1>1. counter \in 1 .. MaxObject + 1 /\ ObjectData /\ ObjectTable
  BY DEF ObjectTableInv, ObjectData
<1>2. CASE Creates
  <2>1. PICK o \in Object, k \in Unused :
             /\ objects' = [objects EXCEPT ![k] = o]
             /\ \E type \in Types : o.handle = hsm_generate_object_handle(type, counter)
             /\ counter' = counter + 1
             /\ UNCHANGED find
    BY <1>1, <1>2, ObjectPlaced
  <2>2. \A j \in InUse' : j = k \/ (j \in InUse /\ objects'[j] = objects[j])
    BY <1>1, <2>1 DEF InUse, Unused, ObjectData
  <2>3. counter \in counter .. MaxObject /\ objects'[k] = o
    BY <1>1, <1>2, <2>1, ObjectSizes DEF Creates, Unused, ObjectData
  <2>4. Issued \subseteq Issued'
    BY <1>1, <2>1, IssuedGrows
  <2> QED BY <2>1, <2>2, <2>3, <2>4 DEF TableGrows
<1>3. CASE CreatesPair
  <2>1. PICK pub \in Object, priv \in Object, k \in Unused, l \in Unused :
             /\ k # l
             /\ objects' = [objects EXCEPT ![k] = pub, ![l] = priv]
             /\ pub.handle = hsm_generate_object_handle("OBJ_TYPE_PUBLIC_KEY", counter)
             /\ priv.handle = hsm_generate_object_handle("OBJ_TYPE_PRIVATE_KEY", counter + 1)
             /\ counter' = counter + 2
             /\ UNCHANGED find
    BY <1>1, <1>3, PairPlaced
  <2>2. /\ \A j \in InUse' : j = k \/ j = l \/ (j \in InUse /\ objects'[j] = objects[j])
        /\ objects'[k] = pub /\ objects'[l] = priv
    BY <1>1, <2>1 DEF InUse, Unused, ObjectData
  <2>3. counter \in counter .. MaxObject /\ counter + 1 \in counter .. MaxObject
    BY <1>1, <1>3, ObjectSizes DEF CreatesPair
  <2>4. Issued \subseteq Issued'
    BY <1>1, <2>1, IssuedGrows
  <2>5. "OBJ_TYPE_PUBLIC_KEY" \in Types /\ "OBJ_TYPE_PRIVATE_KEY" \in Types
    BY DEF Types
  <2> QED BY <2>1, <2>2, <2>3, <2>4, <2>5 DEF TableGrows
<1> QED BY <1>2, <1>3

LEMMA SameTableGrows == ASSUME UNCHANGED tableVars PROVE TableGrows
  BY DEF tableVars, TableGrows, Issued, hsm_generate_object_handle, InUse

\* A search that goes on hands out no more than it holds.
LEMMA GoesSound ==
    ASSUME ObjectTableInv, SearchInv, NEW i \in Idx, NEW f, SearchGoes(i, f)
    PROVE  f \in Find /\ Sound(f)
<1>1. CASE f = NoFind
  <2>1. NoFind \in Find /\ ~NoFind.active
    BY EmptySeq DEF NoFind, Find
  <2> QED BY <1>1, <2>1 DEF Sound
<1>2. CASE f = [active |-> TRUE, results |-> hsm_find_objects, index |-> 0]
  BY <1>2, BegunSound
<1>3. ASSUME find[i].active, NEW max \in 0 .. HSM_MAX_FIND_OBJECTS,
             f = [find[i] EXCEPT !.index = @ + HandsOut(find[i], max)]
      PROVE  f \in Find /\ Sound(f)
  <2> DEFINE g == find[i]
             n == g.index + HandsOut(g, max)
  <2>1. g \in Find /\ Sound(g) /\ g.active
    BY <1>3 DEF SearchInv
  <2>2. Len(g.results) \in Nat /\ g.index \in Nat /\ max \in Nat
    BY <2>1, ResultsDomain, ObjectSizesAssumption
  <2>3. g.index <= Len(g.results) /\ Len(g.results) <= HSM_MAX_FIND_OBJECTS
    BY <2>1 DEF Sound, InBounds
  <2>4. n \in Nat /\ n <= Len(g.results)
    <3>1. \A a, len, m \in Nat : a <= len =>
             LET c == IF len - a < m THEN len - a ELSE m IN a + c \in Nat /\ a + c <= len
      OBVIOUS
    <3> QED BY <2>2, <2>3, <3>1 DEF HandsOut
  <2> HIDE DEF n
  <2>5. f = [g EXCEPT !.index = n]
    BY <1>3 DEF n
  <2> HIDE DEF g
  <2>6. f \in Find /\ f.active = g.active /\ f.results = g.results /\ f.index = n
    BY <2>1, <2>4, <2>5 DEF Find
  <2>7. InBounds(f)
    BY <2>3, <2>4, <2>6 DEF InBounds
  <2>8. Results(f) = Results(g)
    BY <2>6 DEF Results
  <2> QED BY <2>1, <2>6, <2>7, <2>8 DEF Sound, EachOnce, MissesNewer
<1> QED BY <1>1, <1>2, <1>3 DEF SearchGoes

LEMMA SearchInit == ObjectsInit => SearchInv
<1>1. NoFind \in Find /\ ~NoFind.active
  BY EmptySeq DEF NoFind, Find
<1> QED BY <1>1 DEF ObjectsInit, SearchInv, Sound

LEMMA SearchStep == TableInv /\ ObjectTableInv /\ SearchInv /\ ObjectEffect => SearchInv'
<1> SUFFICES ASSUME TableInv, ObjectTableInv, SearchInv, ObjectEffect PROVE SearchInv'
  OBVIOUS
<1>1. NoFind \in Find /\ ~NoFind.active
  BY EmptySeq DEF NoFind, Find
<1>2. ASSUME TableGrows, find' \in [Idx -> Find], NEW g \in Find, Sound(g),
             \A i \in Idx : find'[i] = find[i] \/ find'[i] = g
      PROVE  SearchInv'
  <2>1. Find' = Find
    BY DEF Find
  <2>2. SUFFICES ASSUME NEW i \in Idx, NEW f \in Find, f = find'[i] PROVE Sound(f)'
    BY <1>2, <2>1 DEF SearchInv
  <2>3. Sound(f)
    BY <1>2, <2>2 DEF SearchInv
  <2> QED BY <1>2, <2>3, SoundStays
<1>0. Sound(NoFind)
  BY <1>1 DEF Sound
<1>3. ASSUME TableGrows, UNCHANGED find PROVE SearchInv'
  BY <1>0, <1>1, <1>2, <1>3 DEF SearchInv
<1>4. CASE Leaves
  BY <1>3, <1>4, SameTableGrows DEF Leaves, objectVars
<1>5. CASE SessionsMove
  <2>1. TableGrows
    BY <1>5, SameTableGrows DEF SessionsMove
  <2>2. find' \in [Idx -> Find] /\ \A i \in Idx : find'[i] = find[i] \/ find'[i] = NoFind
    BY <1>1, <1>5 DEF SessionsMove, OperationsFollow, SearchInv
  <2> QED BY <1>0, <1>1, <1>2, <2>1, <2>2
<1>6. CASE Clears
  <2>1. find' = [i \in Idx |-> NoFind]
    BY <1>6 DEF Clears, ObjectsGone
  <2> QED BY <1>1, <2>1 DEF SearchInv, Sound
<1>7. CASE Creates \/ CreatesPair
  BY <1>3, <1>7, CreatesGrows
<1>8. CASE Destroys
  <2>1. PICK k \in InUse :
             /\ \A j \in InUse' : j \in InUse /\ objects'[j] = objects[j]
             /\ Issued' = Issued
             /\ UNCHANGED find
    BY <1>8, Destroyed DEF ObjectTableInv
  <2> QED BY <1>3, <2>1 DEF TableGrows
<1>9. CASE Relabels
  <2>1. /\ InUse' = InUse /\ Issued' = Issued /\ UNCHANGED find
        /\ \A j \in InUse : objects'[j].handle = objects[j].handle
    BY <1>9, Relabelled DEF ObjectTableInv
  <2> QED BY <1>3, <2>1 DEF TableGrows
<1>10. CASE Begins \/ EndsOperation
  BY <1>3, <1>10, SameTableGrows DEF Begins, EndsOperation
<1>11. CASE Searches
  <2>0. PICK i \in Open : \E f : SearchGoes(i, f) /\ find' = [find EXCEPT ![i] = f]
    BY <1>11 DEF Searches
  <2>1. PICK f : SearchGoes(i, f) /\ find' = [find EXCEPT ![i] = f]
    BY <2>0
  <2>2. TableGrows
    BY <1>11, SameTableGrows DEF Searches
  <2>3. i \in Idx
    BY DEF Open
  <2>4. f \in Find /\ Sound(f)
    BY <2>1, <2>3, GoesSound
  <2>5. find' \in [Idx -> Find] /\ \A j \in Idx : find'[j] = find[j] \/ find'[j] = f
    BY <2>1, <2>3, <2>4 DEF SearchInv
  <2> QED BY <1>2, <2>2, <2>4, <2>5
<1> QED BY <1>4, <1>5, <1>6, <1>7, <1>8, <1>9, <1>10, <1>11 DEF ObjectEffect, Works
-----------------------------------------------------------------------------
(* Return codes of the object calls, and the types of the files.           *)

LEMMA EndsControl ==
    ASSUME ControlOK, NEW code \in Codes, Refuse(code) \/ Done(code) PROVE ControlOK'
<1>1. rv' = code /\ UNCHANGED hung
  BY DEF Refuse, Return, Done
<1> QED BY <1>1 DEF ControlOK

\* The codes the operators of HsmObjects compute.
LEMMA ObjectCodes ==
    /\ \A h \in Handles : hsm_get_session(h) \in Codes
    /\ \A m : KeyGenerator(m) \subseteq Codes
    /\ \A o, m : SignKeyError(o, m) \in Codes /\ VerifyKeyError(o) \in Codes
    /\ \A type, o, m : Compute(type, o, m) \subseteq Codes
<1>1. \A m : KeyGenerator(m) \subseteq Codes
  BY DEF KeyGenerator, hsm_generate_key_pair_rsa, hsm_generate_key_pair_ec,
         get_ec_params_from_nid, Codes
<1>2. \A o, m : SignKeyError(o, m) \in Codes /\ VerifyKeyError(o) \in Codes
  BY DEF SignKeyError, VerifyKeyError, Codes
<1>3. \A type, o, m : Compute(type, o, m) \subseteq Codes
  BY DEF Compute, hsm_sign_data, sign_rsa, sign_ec, Signs, hsm_verify_signature, Codes
<1> QED BY <1>1, <1>2, <1>3, CodeTypes

LEMMA CallOnControl == ASSUME ControlOK, NEW i, CallOn(i) PROVE ControlOK'
<1>1. ASSUME NEW code, code \in Codes, Refuse(code) \/ Done(code) PROVE ControlOK'
  BY <1>1, EndsControl
<1>2. ASSUME NEW t \in Templates, C_CreateObject(i, t) PROVE ControlOK'
  BY <1>1, <1>2 DEF C_CreateObject, Codes
<1>3. ASSUME NEW h \in ObjectHandles, C_DestroyObject(i, h) \/ C_GetAttributeValue(i, h)
      PROVE  ControlOK'
  BY <1>1, <1>3 DEF C_DestroyObject, DestroyNow, C_GetAttributeValue, AttributeRead, Codes
<1>4. ASSUME NEW h \in ObjectHandles, NEW label \in Labels, C_SetAttributeValue(i, h, label)
      PROVE  ControlOK'
  BY <1>1, <1>4 DEF C_SetAttributeValue, AttributeSet, SetLabel, Codes
<1>5. ASSUME C_FindObjectsInit(i) \/ C_FindObjectsFinal(i) PROVE ControlOK'
  BY <1>1, <1>5 DEF C_FindObjectsInit, C_FindObjectsFinal, SetFind, Codes
<1>6. ASSUME NEW max \in 0 .. HSM_MAX_FIND_OBJECTS, C_FindObjects(i, max) PROVE ControlOK'
  BY <1>1, <1>6 DEF C_FindObjects, SetFind, Codes
<1>7. ASSUME NEW m \in Mechanisms, NEW pubT \in Templates, NEW privT \in Templates,
             C_GenerateKeyPair(i, m, pubT, privT)
      PROVE  ControlOK'
  <2>1. CASE GenerateFails(m)
    BY <1>1, <2>1, ObjectCodes DEF GenerateFails, Codes
  <2>2. CASE PlaceKeys(m, pubT, privT)
    BY <1>1, <2>2 DEF PlaceKeys, AddPair, PlacePair, Codes
  <2>3. "CKR_USER_NOT_LOGGED_IN" \in Codes
    BY DEF Codes
  <2> QED BY <1>1, <1>7, <2>1, <2>2, <2>3 DEF C_GenerateKeyPair
<1>8. ASSUME NEW type, NEW code \in Codes, NEW h, NEW m, BeginOperation(i, type, code, h, m)
      PROVE  ControlOK'
  BY <1>1, <1>8 DEF BeginOperation, SetOperation, Codes
<1>9. ASSUME NEW h \in ObjectHandles, NEW m \in Mechanisms,
             C_SignInit(i, h, m) \/ C_VerifyInit(i, h, m)
      PROVE  ControlOK'
  <2>1. "CKR_OPERATION_ACTIVE" \in Codes /\ "CKR_OBJECT_HANDLE_INVALID" \in Codes
    BY DEF Codes
  <2> QED BY <1>1, <1>8, <1>9, <2>1, ObjectCodes DEF C_SignInit, C_VerifyInit, BeginSign, BeginVerify
<1>10. ASSUME NEW type, UseKey(i, type) PROVE ControlOK'
  <2>1. "CKR_OPERATION_NOT_INITIALIZED" \in Codes /\ "CKR_OBJECT_HANDLE_INVALID" \in Codes
    BY DEF Codes
  <2>2. ASSUME NEW o, NEW code \in Codes, SetOperation(i, o, code) PROVE ControlOK'
    BY <1>1, <2>2 DEF SetOperation
  <2>3. CASE EndOperation(i, type)
    BY <2>1, <2>2, <2>3, ObjectCodes DEF EndOperation, LoseKey, EndWith
  <2> QED BY <1>1, <1>10, <2>1, <2>3 DEF UseKey
<1>11. ASSUME C_GenerateRandom(i) PROVE ControlOK'
  BY <1>1, <1>11 DEF C_GenerateRandom, Codes
<1> QED BY <1>2, <1>3, <1>4, <1>5, <1>6, <1>7, <1>9, <1>10, <1>11 DEF CallOn, C_Sign, C_Verify

LEMMA ObjectControl == ControlOK /\ [ObjectsNext]_allVars => ControlOK'
<1> SUFFICES ASSUME ControlOK, [ObjectsNext]_allVars PROVE ControlOK'
  OBVIOUS
<1>1. CASE UNCHANGED allVars
  BY <1>1 DEF allVars, vars, ControlOK
<1>2. CASE [Next]_vars
  BY <1>2, ControlStep
<1>3. CASE ObjectCall \/ MechanismCall \/ Stub
  <2>1. ASSUME NEW code \in Codes, Refuse(code) PROVE ControlOK'
    BY <2>1, EndsControl
  <2>2. CASE ObjectCall
    BY <2>1, <2>2, ObjectCodes, CallOnControl DEF ObjectCall
  <2>3. CASE MechanismCall
    BY <2>1, <2>3 DEF MechanismCall, C_GetMechanismList, C_GetMechanismInfo, Codes
  <2>4. CASE Stub
    BY <2>1, <2>4 DEF Stub, Codes
  <2> QED BY <1>3, <2>2, <2>3, <2>4
<1> QED BY <1>1, <1>2, <1>3 DEF ObjectsNext, AnyCall, Next, Call

FilesOK == \A h \in DOMAIN key_files : h \in Nat /\ key_files[h] \in ObjectFile

LEMMA SavedType == ASSUME NEW o \in Object PROVE Saved(o) \in ObjectFile
  BY DEF Saved, ObjectFile, Object

LEMMA WriteTyped ==
    ASSUME FilesOK, NEW os \in SUBSET Object, Write(os) PROVE FilesOK'
<1> SUFFICES ASSUME NEW h \in DOMAIN key_files' PROVE h \in Nat /\ key_files'[h] \in ObjectFile
  BY DEF FilesOK
<1>1. PICK outcome \in [os -> Outcomes] :
         LET written == {o \in os : outcome[o] # "lost"}
             names == {o.handle : o \in written}
             object(f) == CHOOSE o \in written : o.handle = f
         IN  key_files' = [f \in DOMAIN key_files \cup names |->
                             IF f \notin names THEN key_files[f]
                             ELSE IF outcome[object(f)] = "torn" THEN Torn
                             ELSE Saved(object(f))]
  BY DEF Write
<1> DEFINE written == {o \in os : outcome[o] # "lost"}
           names == {o.handle : o \in written}
           object(f) == CHOOSE o \in written : o.handle = f
<1>2. h \in DOMAIN key_files \cup names
  BY <1>1
<1>3. CASE h \notin names
  BY <1>1, <1>2, <1>3 DEF FilesOK
<1>4. CASE h \in names
  <2>1. object(h) \in written /\ h = object(h).handle
    BY <1>4
  <2>2. object(h) \in Object
    BY <2>1
  <2>3. h \in Nat
    BY <2>1, <2>2 DEF Object
  <2>4. key_files'[h] \in {Torn, Saved(object(h))}
    BY <1>1, <1>2, <1>4
  <2> QED BY <2>2, <2>3, <2>4, SavedType, NoObjectType DEF Torn
<1> QED BY <1>3, <1>4

LEMMA FilesInit == ObjectsInit => FilesOK
  BY DEF ObjectsInit, FilesOK

LEMMA FilesTyped == ObjectTableInv /\ FilesOK /\ ObjectEffect => FilesOK'
<1> SUFFICES ASSUME ObjectData, ObjectTable, FilesOK, ObjectEffect PROVE FilesOK'
  BY DEF ObjectTableInv
<1>1. ASSUME UNCHANGED key_files PROVE FilesOK'
  BY <1>1 DEF FilesOK
<1>2. CASE Creates \/ CreatesPair
  <2>1. PICK new \in SUBSET Object : hsm_storage_save_object(new)
    BY <1>2, Added
  <2>2. {o \in new : o.is_token} \in SUBSET Object
    OBVIOUS
  <2> QED BY <2>1, <2>2, WriteTyped DEF hsm_storage_save_object
<1>3. CASE Destroys
  <2>1. PICK k \in InUse : DestroyNow(k)
    BY <1>3 DEF Destroys
  <2>2. UNCHANGED key_files \/ \E h : key_files' = [f \in DOMAIN key_files \ {h} |-> key_files[f]]
    BY <2>1 DEF DestroyNow, hsm_storage_delete_object
  <2> QED BY <1>1, <2>2 DEF FilesOK
<1>4. CASE Relabels \/ Begins \/ EndsOperation \/ Searches
  BY <1>1, <1>4 DEF Relabels, Begins, EndsOperation, Searches
<1>5. CASE Leaves \/ SessionsMove \/ Clears
  BY <1>1, <1>5 DEF Leaves, objectVars, SessionsMove, Clears, ObjectsGone
<1> QED BY <1>2, <1>3, <1>4, <1>5 DEF ObjectEffect, Works

\* The table holds no more objects than it has entries.
LEMMA CountFits == ObjectTableInv => object_count \in 0 .. HSM_MAX_OBJECTS
<1> SUFFICES ASSUME ObjectTableInv PROVE object_count \in 0 .. HSM_MAX_OBJECTS
  OBVIOUS
<1>1. IsFiniteSet(ObjIdx) /\ Cardinality(ObjIdx) = HSM_MAX_OBJECTS
  BY ObjectSizesAssumption, FS_Interval DEF ObjIdx
<1>2. Cardinality(InUse) <= Cardinality(ObjIdx)
  BY <1>1, FS_Subset DEF InUse
<1> QED BY <1>1, <1>2, ObjectSizesAssumption DEF ObjectTableInv, ObjectData, ObjectTable
-----------------------------------------------------------------------------
(* The theorems.                                                           *)

LEMMA SearchAlways == ObjectsSpec => []SearchInv
  BY TablesAlways, SearchInit, SearchStep, ObjectEffects, PTL DEF ObjectsSpec

\* C_FindObjects hands out each handle once and stays inside find_results,
\* whatever is created and destroyed between its calls; unless the search was
\* cut off at HSM_MAX_FIND_OBJECTS, what it misses was created after all that
\* it found.
THEOREM SearchesAreSound == ObjectsSpec => []SearchSound
  BY SearchAlways, SearchInvImplies, PTL

\* Every variable keeps its type under the object calls, too: the count
\* stays within the table, a file holds what is written of an object, and no
\* call returns a code that is not the library's.
THEOREM ObjectTypesCorrect == ObjectsSpec => []ObjectsTypeOK
<1>1. ObjectsInit => ControlOK
  BY ControlInit DEF ObjectsInit
<1>2. ObjectsSpec => []ControlOK
  BY <1>1, ObjectControl, PTL DEF ObjectsSpec
<1>3. ObjectsSpec => []FilesOK
  BY TablesAlways, FilesInit, FilesTyped, ObjectEffects, PTL DEF ObjectsSpec
<1>4. TableInv /\ ControlOK => TypeOK
  BY DEF TableInv, DataOK, ControlOK, TypeOK
<1>5. TypeOK /\ ObjectTableInv /\ SearchInv /\ FilesOK => ObjectsTypeOK
  <2>1. ObjectTableInv => ObjectData
    BY DEF ObjectTableInv
  <2>2. SearchInv => find \in [Idx -> Find]
    BY DEF SearchInv
  <2> QED BY <2>1, <2>2, CountFits DEF ObjectData, FilesOK, ObjectsTypeOK
<1> QED BY <1>2, <1>3, <1>4, <1>5, TablesAlways, SearchAlways, PTL
=============================================================================
