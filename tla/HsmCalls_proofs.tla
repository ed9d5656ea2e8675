---------------------------- MODULE HsmCalls_proofs ----------------------------
(***************************************************************************)
(* What the locks of HsmThreads are for, for any number of threads and any *)
(* calls, while the application keeps the pairs of Discipline apart: the   *)
(* pointers the calls hold stay good, and a step of HsmThreads is a whole  *)
(* call of HsmObjects, or changes nothing that HsmObjects has.             *)
(*                                                                         *)
(* The invariant says of each thread what its call has found out and goes  *)
(* on to rely on: that the library runs, which session and which object it *)
(* works on, what it read of them under a lock it has given back or still  *)
(* has, and what a scan has collected.  A step makes the whole of a call   *)
(* out of that, and is Mild to what the other threads know: it changes a   *)
(* session only under that session's lock, and handles only where the      *)
(* application or slot->lock keeps everybody else away.                    *)
(***************************************************************************)
EXTENDS HsmThreads_proofs, HsmSearch_proofs

\* Thread is past the check that the library runs.
Inside(label, op) == label \notin {"idle", "check", "find"} /\ op \notin LibraryCalls

\* It has found its session.
HasSession(label, op) ==
    \/ op \in SessionUsers /\ label \notin {"idle", "find"}
    \/ op = "C_CloseSession" /\ label = "clear"

\* It has looked at the session's state, and gone on.
HasDecided(label, op) == op \in Decides /\ label \notin {"idle", "find", "lockSession", "decide"}

\* It has found its object, under this handle.
HasObject(label, op) == label \in {"use", "save", "log"} \/ (label = "clear" /\ op = "C_DestroyObject")

ObjectOf(label, l) == IF label = "clear" THEN l.call.object ELSE l.handle

\* What call c has seen of its session s, its search f and its operation o.
Decided(c, s, f, o) ==
    /\ c.op = "C_Login" =>
         ~s.user_logged_in /\ ~s.so_logged_in /\ (c.user = CKU_SO => s.is_read_write)
    /\ c.op = "C_InitPIN" => s.so_logged_in
    /\ c.op = "C_SetPIN" => s.user_logged_in \/ s.so_logged_in
    /\ c.op = "C_GenerateKeyPair" => s.user_logged_in
    /\ c.op = "C_FindObjectsInit" => ~f.active
    /\ c.op \in {"C_SignInit", "C_VerifyInit"} => ~o.active
    /\ c.op = "C_Sign" => o.active /\ o.type = "OP_SIGN"
    /\ c.op = "C_Verify" => o.active /\ o.type = "OP_VERIFY"

\* C_GenerateKeyPair has stored the public key, and nobody has touched it.
HalfStored(l) ==
    /\ l.call.mechanism \in DOMAIN KeyPairGen
    /\ counter < MaxObject /\ Cardinality(Unused) >= 2
    /\ First(l.item, Unused)
    /\ half = [j \in {l.item} |-> PublicKey(l.call.pub, KeyPairGen[l.call.mechanism])]

\* What a thread with these locals at this label knows.
KnowsAs(label, l) ==
    /\ IF label = "idle" THEN l = NoLocals ELSE l.call \in Calls
    /\ Inside(label, l.call.op) => initialized /\ slots
    /\ HasSession(label, l.call.op) => sessions[l.entry].handle = l.call.h /\ l.call.h # 0
    /\ HasDecided(label, l.call.op) =>
         Decided(l.call, sessions[l.entry], find[l.entry], operation[l.entry])
    /\ HasObject(label, l.call.op) =>
         /\ l.item \in ObjIdx
         /\ objects[l.item].handle = ObjectOf(label, l)
         /\ ObjectOf(label, l) # 0
    /\ label = "use" => l.handle = KeyOf(l.entry, l.call)
    /\ label = "save" => objects[l.item].label = l.call.template.label
    /\ label = "pair" => HalfStored(l)
    /\ label = "scan" => \E n \in 0 .. HSM_MAX_OBJECTS : l.item = n /\ l.seen = Collected(n)
    /\ label \in {"find", "lockSession", "decide"} => l.item = 0 /\ l.seen = <<>>

Knows(t) == KnowsAs(pc[t], local[t])

\* C_Initialize and C_Finalize, which hold global_lock.
KnowsLibrary(t) ==
    /\ pc[t] \in {"reset", "start"} => local[t].call.op = "C_Initialize" /\ ~initialized
    /\ pc[t] \in {"cleanup", "end"} => local[t].call.op = "C_Finalize" /\ initialized
    /\ pc[t] \in {"test", "cleanup", "end"} /\ local[t].call.op = "C_Finalize" => global_lock = t

\* The slot is missing from a running library only at the end of C_Finalize.
SlotThere ==
    initialized /\ ~slots => \E t \in Threads : local[t].call.op = "C_Finalize" /\ pc[t] = "end"

\* The pairs of Apart are kept from overlapping.
Kept ==
    \A t, u \in Threads : t # u /\ pc[t] # "idle" /\ pc[u] # "idle" =>
        {local[t].call.op, local[u].call.op} \notin Apart

\* What is freed is about to be cleared by the thread that freed it.
FreedBy(l) ==
    IF l.call.op = "C_CloseSession" THEN <<"session", l.entry>> ELSE <<"object", l.item>>

Freed == \A x \in freed : \E t \in Threads : pc[t] = "clear" /\ x = FreedBy(local[t])

\* Without a running library the slot's variables are those of no slot.
SlotDown ==
    /\ token_initialized = Blank.token_initialized
    /\ token_label = Blank.token_label
    /\ pin_initialized = Blank.pin_initialized
    /\ pin_hash = Blank.pin_hash
    /\ retry_count = [ut \in Users |-> HSM_PIN_RETRY_COUNT]
    /\ pin_locked = [ut \in Users |-> FALSE]
    /\ sessions = [i \in Idx |-> NoSession]
    /\ session_count = 0

ObjectsDown ==
    /\ objects = [k \in ObjIdx |-> NoObject]
    /\ object_count = 0
    /\ operation = [i \in Idx |-> NoOperation]
    /\ find = [i \in Idx |-> NoFind]

Down == ~initialized => SlotDown /\ ObjectsDown

\* What HsmObjects keeps.
StateInv == TableInv /\ ObjectTableInv /\ OperationInv /\ Down /\ find = [i \in Idx |-> find[i]]

\* Half a pair is in the table only while C_GenerateKeyPair stores it.
Halves == (\A t \in Threads : pc[t] # "pair") => half = NoHalf

CallInv ==
    /\ LockInv /\ StateInv /\ Kept /\ Freed /\ SlotThere /\ Halves
    /\ \A t \in Threads : Knows(t) /\ KnowsLibrary(t)
-----------------------------------------------------------------------------
(* What the state says of handles.                                         *)

LEMMA SessionEntries ==
    ASSUME TableInv
    PROVE  \A i \in Idx : /\ i \in Open <=> sessions[i].handle # 0
                          /\ \A h : Owns(i, h) <=> sessions[i].handle = h /\ h # 0
<1> SUFFICES ASSUME NEW i \in Idx
             PROVE  /\ i \in Open <=> sessions[i].handle # 0
                    /\ \A h : Owns(i, h) <=> sessions[i].handle = h /\ h # 0
  OBVIOUS
<1>1. \A j \in Idx : j \in Open <=> sessions[j].handle # 0
  <2> SUFFICES ASSUME NEW j \in Idx PROVE j \in Open <=> sessions[j].handle # 0
    OBVIOUS
  <2>1. j \in Open => sessions[j].handle # 0
    BY DEF TableInv, TableConsistent
  <2>2. j \notin Open => sessions[j].handle = 0
    BY NoSessionType DEF Open
  <2> QED BY <2>1, <2>2
<1>2. \A j \in Open : sessions[j].handle = sessions[i].handle /\ i \in Open => i = j
  BY DEF TableInv, TableConsistent
<1>3. Open \subseteq Idx /\ Idx \subseteq Int
  BY DEF Open, Idx
<1> QED BY <1>1, <1>2, <1>3 DEF Owns

LEMMA ObjectEntries ==
    ASSUME ObjectTableInv
    PROVE  \A k \in ObjIdx : /\ k \in InUse <=> objects[k].handle # 0
                             /\ \A h : Finds(k, h) <=> objects[k].handle = h /\ h # 0
<1> SUFFICES ASSUME NEW k \in ObjIdx
             PROVE  /\ k \in InUse <=> objects[k].handle # 0
                    /\ \A h : Finds(k, h) <=> objects[k].handle = h /\ h # 0
  OBVIOUS
<1>1. \A h \in Issued : h # 0
  <2> SUFFICES ASSUME NEW type \in Types, NEW n \in 1 .. counter - 1
               PROVE  hsm_generate_object_handle(type, n) # 0
    BY DEF Issued
  <2>1. counter \in Nat
    BY DEF ObjectTableInv, ObjectData
  <2>2. n \in Nat \ {0}
    BY <2>1
  <2> QED BY <2>2, HandleNumbers
<1>2. \A j \in ObjIdx : j \in InUse <=> objects[j].handle # 0
  <2> SUFFICES ASSUME NEW j \in ObjIdx PROVE j \in InUse <=> objects[j].handle # 0
    OBVIOUS
  <2>1. j \in InUse => objects[j].handle # 0
    BY <1>1 DEF ObjectTableInv, ObjectTable
  <2>2. j \notin InUse => objects[j].handle = 0
    BY NoObjectType DEF InUse
  <2> QED BY <2>1, <2>2
<1>3. \A j \in InUse : objects[j].handle = objects[k].handle /\ k \in InUse => k = j
  BY DEF ObjectTableInv, ObjectTable
<1>4. InUse \subseteq Nat
  BY InUseNat
<1> QED BY <1>2, <1>3, <1>4 DEF Finds

LEMMA DecidedIs ==
    ASSUME NEW i, NEW c, c.op \in Decides
    PROVE  SessionRefuses(i, c) = "CKR_OK"
             <=> Decided(c, sessions[i], find[i], operation[i])
<1>1. /\ c.op = "C_Login" \/ c.op = "C_InitPIN" \/ c.op = "C_SetPIN" \/ c.op = "C_GenerateKeyPair"
           \/ c.op = "C_FindObjectsInit" \/ c.op \in {"C_SignInit", "C_VerifyInit"}
           \/ c.op = "C_Sign" \/ c.op = "C_Verify"
  BY DEF Decides, PinCalls, KeyCalls
<1>2. CASE c.op = "C_Login"
  BY <1>2 DEF SessionRefuses, Decided, LoggedIn
<1>3. CASE c.op \in {"C_InitPIN", "C_SetPIN", "C_GenerateKeyPair"}
  BY <1>3 DEF SessionRefuses, Decided, LoggedIn
<1>4. CASE c.op \in {"C_FindObjectsInit", "C_SignInit", "C_VerifyInit"}
  BY <1>4 DEF SessionRefuses, Decided
<1>5. CASE c.op \in {"C_Sign", "C_Verify"}
  BY <1>5 DEF SessionRefuses, Decided
<1> QED BY <1>1, <1>2, <1>3, <1>4, <1>5

\* Functions the application keeps from overlapping.
Overlap(a, b) ==
    /\ a = "C_CloseSession" => b \notin SessionUsers
    /\ a = "C_DestroyObject" =>
         b \notin KeyCalls \cup AttributeCalls \cup {"C_CreateObject", "C_FindObjectsInit"}
    /\ a = "C_GenerateKeyPair" => b \notin {"C_SignInit", "C_VerifyInit"} \cup AttributeCalls
    /\ a = "C_SetAttributeValue" => b \notin AttributeCalls \cup {"C_CreateObject"}
    /\ a = "C_FindObjectsInit" => b \notin {"C_CreateObject", "C_GenerateKeyPair"}
    /\ a = "C_Logout" => b # "C_GenerateKeyPair"
    /\ a = "C_Finalize" => b \notin SlotCalls \cup SessionUsers
    /\ a = "C_Initialize" => b \notin LibraryCalls

LEMMA KeptApart ==
    ASSUME Discipline \subseteq Apart, Kept, NEW t \in Threads, NEW u \in Threads, t # u,
           pc[t] # "idle", pc[u] # "idle"
    PROVE  /\ Overlap(local[t].call.op, local[u].call.op)
           /\ Overlap(local[u].call.op, local[t].call.op)
<1>1. ASSUME NEW a, NEW b, {a, b} \notin Discipline PROVE Overlap(a, b)
  BY <1>1 DEF Overlap, Discipline
<1>2. {local[t].call.op, local[u].call.op} = {local[u].call.op, local[t].call.op}
  OBVIOUS
<1>3. {local[t].call.op, local[u].call.op} \notin Discipline
  BY DEF Kept
<1> QED BY <1>1, <1>2, <1>3
-----------------------------------------------------------------------------
(* Half a pair.                                                            *)

\* It takes an unused entry: the objects there are, are in the table as ever.
LEMMA WholeObjects == ASSUME CallInv PROVE \A k \in InUse : Table[k] = objects[k]
<1>1. \A k \in InUse : k \in ObjIdx /\ k \notin Unused
  BY DEF InUse, Unused
<1>2. CASE \A t \in Threads : pc[t] # "pair"
  BY <1>1, <1>2 DEF CallInv, Halves, NoHalf, Table
<1>3. ASSUME NEW t \in Threads, pc[t] = "pair" PROVE \A k \in InUse : Table[k] = objects[k]
  <2>1. HalfStored(local[t])
    BY <1>3 DEF CallInv, Knows, KnowsAs
  <2>2. \A k \in DOMAIN half : k \in Unused
    BY <2>1 DEF HalfStored, First
  <2> QED BY <1>1, <2>2 DEF Table
<1> QED BY <1>2, <1>3

\* The calls that are kept apart from C_GenerateKeyPair never see one.
LEMMA NoHalfSeen ==
    ASSUME Discipline \subseteq Apart, CallInv, NEW t \in Threads, pc[t] # "idle",
           local[t].call.op \in {"C_SignInit", "C_VerifyInit", "C_FindObjectsInit"} \cup AttributeCalls
    PROVE  half = NoHalf /\ \A k \in ObjIdx : Table[k] = objects[k]
<1>1. ASSUME NEW u \in Threads, pc[u] = "pair" PROVE FALSE
  <2>1. local[u].call.op = "C_GenerateKeyPair"
    BY <1>1, Here DEF CallInv, Fits
  <2>2. u # t /\ ~(/\ Overlap(local[u].call.op, local[t].call.op)
                  /\ Overlap(local[t].call.op, local[u].call.op))
    BY <2>1 DEF Overlap, AttributeCalls
  <2> QED BY <1>1, <2>2, KeptApart DEF CallInv
<1>2. half = NoHalf
  BY <1>1 DEF CallInv, Halves
<1> QED BY <1>2 DEF Table, NoHalf

\* The key of an operation that has begun is none of a pair that is being
\* stored.
LEMMA KeyIsWhole ==
    ASSUME CallInv, NEW h \in Issued, NEW k \in Holding(h) PROVE k \in ObjIdx /\ Table[k] = objects[k]
<1>1. k \in ObjIdx /\ Table[k].handle = h
  BY DEF Holding
<1>2. CASE \A t \in Threads : pc[t] # "pair"
  BY <1>1, <1>2 DEF CallInv, Halves, NoHalf, Table
<1>3. ASSUME NEW t \in Threads, pc[t] = "pair", k \in DOMAIN half PROVE FALSE
  <2> DEFINE c == local[t].call
  <2>1. HalfStored(local[t]) /\ c \in Calls /\ c.op = "C_GenerateKeyPair"
    BY <1>3, Here DEF CallInv, Knows, KnowsAs, Fits
  <2>2. /\ c.pub \in Templates /\ KeyPairGen[c.mechanism] \in KeyTypes
        /\ half[k] = PublicKey(c.pub, KeyPairGen[c.mechanism])
    BY <1>3, <2>1, ArgumentsAssumption DEF HalfStored, KeyPairGen, KeyTypes
  <2>3. counter \in 1 .. MaxObject + 1 /\ counter \in Nat \ {0} /\ counter \in counter .. MaxObject
    BY <2>1, ObjectSizes DEF CallInv, StateInv, ObjectTableInv, ObjectData, HalfStored
  <2>4. half[k].handle = hsm_generate_object_handle("OBJ_TYPE_PUBLIC_KEY", counter)
    BY <2>2, <2>3, PairType
  <2>5. "OBJ_TYPE_PUBLIC_KEY" \in Types
    BY DEF Types
  <2>6. half[k].handle \notin Issued
    BY <2>3, <2>4, <2>5, FreshHandle
  <2> QED BY <1>1, <1>3, <2>6 DEF Table
<1> QED BY <1>1, <1>2, <1>3 DEF Table

-----------------------------------------------------------------------------
(* What the threads know makes the accesses sound.                         *)

\* What is freed belongs to a thread that owns slot->lock, and the calls that
\* could reach it without that lock are kept from overlapping with its call.
LEMMA FreedFacts ==
    ASSUME Discipline \subseteq Apart, CallInv
    PROVE  /\ \A j : <<"session", j>> \in freed =>
                \E u \in Threads : pc[u] = "clear" /\ slot_lock = u
                                     /\ local[u].call.op = "C_CloseSession"
           /\ \A j : <<"object", j>> \in freed =>
                \E u \in Threads : pc[u] = "clear" /\ slot_lock = u
                                     /\ local[u].call.op = "C_DestroyObject"
<1>1. \A u \in Threads : pc[u] = "clear" =>
         slot_lock = u /\ local[u].call.op \in {"C_CloseSession", "C_DestroyObject"}
  BY Here DEF CallInv, Fits, UnderSlotLock
<1>2. \A x \in freed : \E u \in Threads : pc[u] = "clear" /\ x = FreedBy(local[u])
  BY DEF CallInv, Freed
<1>3. "session" # "object"
  OBVIOUS
<1>4. ASSUME NEW j, <<"session", j>> \in freed
      PROVE  \E u \in Threads : pc[u] = "clear" /\ slot_lock = u
                                     /\ local[u].call.op = "C_CloseSession"
  BY <1>1, <1>2, <1>3, <1>4 DEF FreedBy
<1>5. ASSUME NEW j, <<"object", j>> \in freed
      PROVE  \E u \in Threads : pc[u] = "clear" /\ slot_lock = u
                                     /\ local[u].call.op = "C_DestroyObject"
  BY <1>1, <1>2, <1>3, <1>5 DEF FreedBy
<1> QED BY <1>4, <1>5

LEMMA SessionsNotFreed ==
    ASSUME Discipline \subseteq Apart, CallInv, NEW t \in Threads,
           \/ pc[t] # "idle" /\ local[t].call.op \in SessionUsers
           \/ pc[t] = "body"
    PROVE  \A j : <<"session", j>> \notin freed
<1> SUFFICES ASSUME NEW j, <<"session", j>> \in freed PROVE FALSE
  OBVIOUS
<1>1. PICK u \in Threads : pc[u] = "clear" /\ slot_lock = u /\ local[u].call.op = "C_CloseSession"
  BY FreedFacts
<1>2. u # t
  BY <1>1 DEF SessionUsers, PinCalls, KeyCalls, AttributeCalls, TableCalls
<1>3. pc[t] # "body"
  BY <1>1, <1>2, Here DEF CallInv, UnderSlotLock
<1>4. ~Overlap(local[u].call.op, local[t].call.op)
  BY <1>1, <1>3 DEF Overlap
<1> QED BY <1>1, <1>2, <1>3, <1>4, KeptApart DEF CallInv

LEMMA ObjectsNotFreed ==
    ASSUME Discipline \subseteq Apart, CallInv, NEW t \in Threads,
           \/ /\ pc[t] # "idle"
              /\ local[t].call.op \in KeyCalls \cup AttributeCalls \cup
                                        {"C_CreateObject", "C_FindObjectsInit"}
           \/ pc[t] = "body"
    PROVE  \A j : <<"object", j>> \notin freed
<1> SUFFICES ASSUME NEW j, <<"object", j>> \in freed PROVE FALSE
  OBVIOUS
<1>1. PICK u \in Threads : pc[u] = "clear" /\ slot_lock = u /\ local[u].call.op = "C_DestroyObject"
  BY FreedFacts
<1>2. u # t
  BY <1>1 DEF KeyCalls, AttributeCalls
<1>3. pc[t] # "body"
  BY <1>1, <1>2, Here DEF CallInv, UnderSlotLock
<1>4. ~Overlap(local[u].call.op, local[t].call.op)
  BY <1>1, <1>3 DEF Overlap
<1> QED BY <1>1, <1>2, <1>3, <1>4, KeptApart DEF CallInv

LEMMA AccessIsSound ==
    ASSUME Discipline \subseteq Apart, CallInv, NEW t \in Threads
    PROVE  AccessSound(t)
<1> DEFINE op == local[t].call.op
<1> USE DEF CallOf, Entry
<1>1. Fits(pc[t], op) /\ Knows(t) /\ KnowsLibrary(t)
  BY Here DEF CallInv
<1>2. Inside(pc[t], op) => initialized /\ slots
  BY <1>1 DEF Knows, KnowsAs
<1>3. pc[t] \in {"lockSlot", "body", "pair", "save", "clear", "lookup", "scan", "use", "log"}
        \/ ReadsSession(t) => slots
  <2>1. pc[t] \in {"lockSlot", "body", "pair", "save", "clear", "lookup", "scan", "use", "log"}
          \/ ReadsSession(t) => Inside(pc[t], op)
    BY <1>1 DEF Fits, Inside, ReadsSession, SlotCalls, PinCalls, TableCalls, KeyCalls, AttributeCalls,
                SessionUsers, LibraryCalls, Decides
  <2> QED BY <1>2, <2>1
<1>4. pc[t] = "cleanup" /\ initialized => slots
  <2> SUFFICES ASSUME pc[t] = "cleanup", initialized, ~slots PROVE FALSE
    OBVIOUS
  <2>1. PICK u \in Threads : local[u].call.op = "C_Finalize" /\ pc[u] = "end"
    BY DEF CallInv, SlotThere
  <2>2. op = "C_Finalize" /\ global_lock = t
    BY <1>1 DEF KnowsLibrary
  <2>3. global_lock = u
    BY <2>1 DEF CallInv, KnowsLibrary
  <2> QED BY <2>1, <2>2, <2>3
<1>5. pc[t] = "find" /\ initialized => slots /\ TableReadable(CallOf(t).h)
  <2> SUFFICES ASSUME pc[t] = "find", initialized PROVE slots /\ TableReadable(CallOf(t).h)
    OBVIOUS
  <2>1. op \in SessionUsers
    BY <1>1 DEF Fits
  <2>2. ASSUME ~slots PROVE FALSE
    <3>1. PICK u \in Threads : local[u].call.op = "C_Finalize" /\ pc[u] = "end"
      BY <2>2 DEF CallInv, SlotThere
    <3>2. u # t /\ ~Overlap(local[u].call.op, op)
      BY <2>1, <3>1 DEF Overlap
    <3> QED BY <3>1, <3>2, KeptApart DEF CallInv
  <2>3. TableReadable(CallOf(t).h)
    BY <2>1, SessionsNotFreed DEF TableReadable
  <2> QED BY <2>2, <2>3
<1>6. pc[t] = "body" => \A h : TableReadable(h) /\ ObjectsReadable(h)
  BY SessionsNotFreed, ObjectsNotFreed DEF TableReadable, ObjectsReadable
<1>7. pc[t] = "lookup" => \A h : ObjectsReadable(h)
  <2>1. pc[t] = "lookup" => op \in KeyCalls \cup AttributeCalls
    BY <1>1 DEF Fits
  <2> QED BY <2>1, ObjectsNotFreed DEF ObjectsReadable
<1>8. pc[t] = "scan" => <<"object", local[t].item>> \notin freed
  <2>1. pc[t] = "scan" => op = "C_FindObjectsInit"
    BY <1>1 DEF Fits
  <2> QED BY <2>1, ObjectsNotFreed
<1>9. pc[t] \in {"use", "save", "log"} => ObjectThere(t)
  <2> SUFFICES ASSUME pc[t] \in {"use", "save", "log"} PROVE ObjectThere(t)
    OBVIOUS
  <2>1. op \in KeyCalls \cup AttributeCalls \cup {"C_CreateObject"}
    BY <1>1 DEF Fits
  <2>2. <<"object", local[t].item>> \notin freed
    BY <2>1, ObjectsNotFreed
  <2>3. /\ local[t].item \in ObjIdx /\ objects[local[t].item].handle = local[t].handle
        /\ local[t].handle # 0
    BY <1>1 DEF Knows, KnowsAs, HasObject, ObjectOf
  <2>4. Table[local[t].item] = objects[local[t].item]
    BY <2>3, WholeObjects, ObjectEntries DEF CallInv, StateInv
  <2> QED BY <1>3, <2>2, <2>3, <2>4 DEF ObjectThere
<1>10. ReadsSession(t) => SessionThere(t)
  <2> SUFFICES ASSUME ReadsSession(t) PROVE SessionThere(t)
    OBVIOUS
  <2>1. op \in SessionUsers /\ pc[t] \notin {"idle", "find"}
    BY <1>1 DEF Fits, ReadsSession, SessionUsers, Decides
  <2>2. sessions[local[t].entry].handle = local[t].call.h
    BY <1>1, <2>1 DEF Knows, KnowsAs, HasSession
  <2>3. <<"session", local[t].entry>> \notin freed
    BY <2>1, SessionsNotFreed
  <2> QED BY <1>3, <2>2, <2>3 DEF SessionThere
<1> HIDE DEF op
<1> QED BY <1>3, <1>4, <1>5, <1>6, <1>7, <1>8, <1>9, <1>10 DEF AccessSound

LEMMA AccessesAreSound == Discipline \subseteq Apart /\ CallInv => AccessesSound
<1> SUFFICES ASSUME Discipline \subseteq Apart, CallInv PROVE AccessesSound
  OBVIOUS
<1>1. ASSUME NEW t \in Threads, NEW u \in Threads, t # u,
             pc[t] = "use", local[t].call.op = "C_SetAttributeValue",
             pc[u] = "use", local[u].call.op \in AttributeCalls
      PROVE  FALSE
  <2>1. ~Overlap(local[t].call.op, local[u].call.op)
    BY <1>1 DEF Overlap
  <2> QED BY <1>1, <2>1, KeptApart DEF CallInv
<1> QED BY <1>1, AccessIsSound DEF AccessesSound, CallOf
-----------------------------------------------------------------------------
(* The state under the calls of HsmObjects.                                *)

\* No call but C_Initialize does anything to a library that does not run.
LEMMA SlotDownStep ==
    ASSUME TableInv, Down, Effect, ~initialized' PROVE SlotDown'
<1>1. CASE Idle
  BY <1>1 DEF Idle, Down, SlotDown, pinVars, retryVars, sessionVars
<1>2. CASE Ends
  BY <1>2 DEF Ends, SlotHolds, SlotDown
<1>3. CASE Starts
  BY <1>3 DEF Starts
<1>4. ~initialized => Open = {} /\ \A ut \in Users : ~pin_initialized[ut]
  BY DEF TableInv, TableConsistent, Down, SlotDown, Blank
<1>5. CASE Opens \/ Closes
  BY <1>5 DEF Opens, Closes, OpenNow, CloseNow
<1>6. CASE LogsIn \/ LogsOut
  BY <1>4, <1>6 DEF LogsIn, LogsOut, LoginNow, LogoutNow
<1>7. CASE FailsPin
  BY <1>4, <1>7 DEF FailsPin, PinUsable, WrongPin
<1>8. CASE InitsToken \/ InitsPin \/ SetsPin
  BY <1>8 DEF InitsToken, InitsPin, SetsPin, InitTokenNow, InitPinNow, SetPinNow
<1> QED BY <1>1, <1>2, <1>3, <1>5, <1>6, <1>7, <1>8 DEF Effect

LEMMA ObjectsDownStep ==
    ASSUME TableInv, Down, ObjectEffect, ~initialized' PROVE ObjectsDown'
<1>1. ~initialized => Open = {}
  BY SMTT(30) DEF TableInv, TableConsistent
<1>2. CASE Idle /\ Works
  <2>1. ~initialized
    BY <1>2 DEF Idle
  <2> QED BY <1>1, <1>2, <2>1
          DEF Works, Creates, CreatesPair, Destroys, Relabels, Begins, EndsOperation, Searches
<1>3. CASE Leaves
  BY <1>3 DEF Leaves, Down, ObjectsDown, objectVars, tableVars
<1>4. CASE SessionsMove
  BY <1>4 DEF SessionsMove, OperationsFollow, Down, ObjectsDown, tableVars
<1>5. CASE Clears
  BY <1>5 DEF Clears, ObjectsGone, ObjectsDown
<1> QED BY <1>2, <1>3, <1>4, <1>5 DEF ObjectEffect

LEMMA FindStaysFunction ==
    ASSUME find = [i \in Idx |-> find[i]], ObjectEffect
    PROVE  find' = [i \in Idx |-> find'[i]]
<1>1. UNCHANGED find => find' = [i \in Idx |-> find'[i]]
  OBVIOUS
<1>2. ASSUME NEW i, NEW f, find' = [find EXCEPT ![i] = f] PROVE find' = [j \in Idx |-> find'[j]]
  BY <1>2, SMTT(30)
<1>3. CASE Works
  BY <1>1, <1>2, <1>3 DEF Works, Creates, CreatesPair, AddPair, PlacePair, Destroys, DestroyNow,
                          Relabels, Begins, EndsOperation, Searches
<1>4. CASE Leaves
  BY <1>1, <1>4 DEF Leaves, objectVars
<1>5. CASE SessionsMove \/ Clears
  BY <1>5 DEF SessionsMove, OperationsFollow, Clears, ObjectsGone
<1> QED BY <1>3, <1>4, <1>5 DEF ObjectEffect

LEMMA StateStep == ASSUME StateInv, AnyCall \/ UNCHANGED allVars PROVE StateInv'
<1>1. Effect /\ ObjectEffect
  BY AnyCallEffects, UnchangedEffects
<1>2. TableInv' /\ ObjectTableInv' /\ OperationInv'
  BY <1>1, TableEffect, ObjectTableStep, OperationStep DEF StateInv
<1>3. Down'
  BY <1>1, SlotDownStep, ObjectsDownStep DEF StateInv, Down
<1> QED BY <1>1, <1>2, <1>3, FindStaysFunction DEF StateInv

LEMMA StateInit == ObjectsInit => StateInv
<1>1. ObjectsInit => TableInv /\ ObjectTableInv
  BY TableInit, ObjectTableInit DEF ObjectsInit
<1>2. ObjectsInit => Down
  BY DEF ObjectsInit, Init, Down, SlotDown, ObjectsDown, Blank
<1> QED BY <1>1, <1>2, OperationInit DEF StateInv, ObjectsInit
-----------------------------------------------------------------------------
(* The whole of a call is one of the calls of HsmObjects.                  *)

LEMMA RefusedCall ==
    ASSUME NEW c \in Calls, c.op \in SessionUsers, hsm_get_session(c.h) # "CKR_OK",
           Refuse(hsm_get_session(c.h))
    PROVE  AnyCall
  BY ArgumentsAssumption DEF AnyCall, ObjectCall

\* With the same handles in the table, the operations stay.
LEMMA OperationsStay ==
    ASSUME StateInv, UNCHANGED <<operation, find>>,
           \A i \in Idx : sessions'[i].handle = sessions[i].handle
    PROVE  OperationsFollow
<1>1. operation = [i \in Idx |-> operation[i]] /\ find = [i \in Idx |-> find[i]]
  BY DEF StateInv, ObjectTableInv, ObjectData
<1> QED BY <1>1 DEF OperationsFollow

\* C_Login and C_Logout change one session, and not its handle.
LEMMA LogsKeepHandles ==
    ASSUME StateInv, NEW i \in Idx, NEW ut, LoginNow(i, ut) \/ LogoutNow(i)
    PROVE  /\ \A j \in Idx : sessions'[j].handle = sessions[j].handle
           /\ \A j \in Idx : j # i => sessions'[j] = sessions[j]
           /\ initialized' = initialized
<1>1. sessions \in [Idx -> Session]
  BY DEF StateInv, TableInv, DataOK
<1>2. sessions[i] \in Session
  BY <1>1
<1>3. initialized' = initialized
  BY DEF LoginNow, LogoutNow
<1>4. CASE LoginNow(i, ut)
  <2> DEFINE s == [sessions[i] EXCEPT !.user_logged_in = (ut = CKU_USER),
                     !.so_logged_in = (ut = CKU_SO),
                     !.state = IF ut = CKU_SO THEN "RW_SO" ELSE UserState(sessions[i].is_read_write)]
  <2>1. sessions' = [sessions EXCEPT ![i] = s]
    BY <1>4, <1>1 DEF LoginNow
  <2>2. s.handle = sessions[i].handle
    BY <1>2 DEF Session
  <2> HIDE DEF s
  <2> QED BY <1>1, <1>3, <2>1, <2>2
<1>5. CASE LogoutNow(i)
  <2> DEFINE s == [sessions[i] EXCEPT !.user_logged_in = FALSE, !.so_logged_in = FALSE,
                     !.state = PublicState(sessions[i].is_read_write)]
  <2>1. sessions' = [sessions EXCEPT ![i] = s]
    BY <1>5, <1>1 DEF LogoutNow
  <2>2. s.handle = sessions[i].handle
    BY <1>2 DEF Session
  <2> HIDE DEF s
  <2> QED BY <1>1, <1>3, <2>1, <2>2
<1> QED BY <1>4, <1>5

LEMMA WholeOnSession ==
    ASSUME StateInv, NEW c \in Calls, c.op \in {"C_Login", "C_Logout", "C_GetSessionInfo"},
           initialized, NEW i \in Idx, Owns(i, c.h), WholeOn(i, c)
    PROVE  AnyCall
<1>1. c.h \in Handles
  BY ArgumentsAssumption DEF SessionUsers, PinCalls
<1>3. CASE c.op = "C_Login"
  <2>1. c.user \in Users /\ c.pin \in Pins
    BY <1>3, ArgumentsAssumption
  <2>2. LoginOn(i, c.user, c.pin) /\ UNCHANGED objectVars
    BY <1>3 DEF WholeOn
  <2>3. SessionCall
    BY <1>1, <2>1, <2>2 DEF SessionCall, C_Login
  <2>4. \A j \in Idx : sessions'[j].handle = sessions[j].handle
    BY <2>2, LogsKeepHandles DEF LoginOn, WrongPin, Return, sessionVars
  <2> QED BY <2>2, <2>3, <2>4, OperationsStay DEF AnyCall, objectVars
<1>4. CASE c.op = "C_Logout"
  <2>1. LogoutOn(i) /\ UNCHANGED objectVars
    BY <1>4 DEF WholeOn
  <2>2. SessionCall
    BY <1>1, <2>1 DEF SessionCall, C_Logout
  <2>3. \A j \in Idx : sessions'[j].handle = sessions[j].handle
    BY <2>1, LogsKeepHandles DEF LogoutOn, Return, sessionVars
  <2> QED BY <2>1, <2>2, <2>3, OperationsStay DEF AnyCall, objectVars
<1>5. CASE c.op = "C_GetSessionInfo"
  <2>1. hsm_get_session(c.h) = "CKR_OK"
    BY DEF Owns, hsm_get_session
  <2>2. Return("CKR_OK") /\ UNCHANGED objectVars
    BY <1>5 DEF WholeOn, Refuse
  <2>3. SessionCall
    BY <1>1, <2>1, <2>2 DEF SessionCall, C_GetSessionInfo
  <2>4. \A j \in Idx : sessions'[j].handle = sessions[j].handle
    BY <2>2 DEF Return, sessionVars
  <2> QED BY <2>2, <2>3, <2>4, OperationsStay DEF AnyCall, objectVars
<1> QED BY <1>3, <1>4, <1>5

LEMMA WholeOnPins ==
    ASSUME NEW c \in Calls, c.op \in {"C_InitPIN", "C_SetPIN"},
           initialized, NEW i \in Idx, Owns(i, c.h), WholeOn(i, c)
    PROVE  AnyCall
<1>1. c.h \in Handles
  BY ArgumentsAssumption DEF SessionUsers, PinCalls
<1>2. CASE c.op = "C_InitPIN"
  <2>1. c.pin \in Pins /\ PinLengthOK(c.pin) /\ InitPinOn(i, c.pin) /\ UNCHANGED objectVars
    BY <1>2, ArgumentsAssumption DEF WholeOn
  <2> QED BY <1>1, <2>1 DEF AnyCall, PinCall, C_InitPIN
<1>3. CASE c.op = "C_SetPIN"
  <2>1. /\ c.pin \in Pins /\ c.new \in Pins /\ PinLengthOK(c.new)
        /\ SetPinOn(i, c.pin, c.new) /\ UNCHANGED objectVars
    BY <1>3, ArgumentsAssumption DEF WholeOn
  <2> QED BY <1>1, <2>1 DEF AnyCall, PinCall, C_SetPIN
<1> QED BY <1>2, <1>3

LEMMA WholeOnObjects ==
    ASSUME NEW c \in Calls, c.op \in SessionUsers \ {"C_Login", "C_Logout", "C_GetSessionInfo",
                                                     "C_InitPIN", "C_SetPIN"},
           initialized, NEW i \in Idx, Owns(i, c.h), WholeOn(i, c)
    PROVE  AnyCall
<1>1. c.h \in Handles
  BY ArgumentsAssumption
<1>2. ASSUME CallOn(i) PROVE AnyCall
  BY <1>1, <1>2 DEF AnyCall, ObjectCall
<1>3. CASE c.op = "C_CreateObject"
  <2>1. c.template \in Templates /\ C_CreateObject(i, c.template)
    BY <1>3, ArgumentsAssumption DEF WholeOn
  <2> QED BY <1>2, <2>1 DEF CallOn
<1>4. CASE c.op \in {"C_DestroyObject", "C_GetAttributeValue", "C_SetAttributeValue"}
  <2>1. c.object \in ObjectHandles /\ (c.op = "C_SetAttributeValue" => c.label \in Labels)
    BY <1>4, ArgumentsAssumption DEF AttributeCalls
  <2>2. \/ C_DestroyObject(i, c.object)
        \/ C_GetAttributeValue(i, c.object)
        \/ c.op = "C_SetAttributeValue" /\ C_SetAttributeValue(i, c.object, c.label)
    BY <1>4 DEF WholeOn
  <2> QED BY <1>2, <2>1, <2>2 DEF CallOn
<1>5. CASE c.op \in {"C_FindObjectsInit", "C_FindObjects", "C_FindObjectsFinal"}
  <2>1. c.op = "C_FindObjects" => c.max \in 0 .. HSM_MAX_FIND_OBJECTS
    BY ArgumentsAssumption
  <2>2. \/ C_FindObjectsInit(i)
        \/ c.op = "C_FindObjects" /\ C_FindObjects(i, c.max)
        \/ C_FindObjectsFinal(i)
    BY <1>5 DEF WholeOn
  <2> QED BY <1>2, <2>1, <2>2 DEF CallOn
<1>6. CASE c.op = "C_GenerateKeyPair"
  <2>1. /\ c.mechanism \in Mechanisms /\ c.pub \in Templates /\ c.priv \in Templates
        /\ C_GenerateKeyPair(i, c.mechanism, c.pub, c.priv)
    BY <1>6, ArgumentsAssumption DEF WholeOn
  <2> QED BY <1>2, <2>1 DEF CallOn
<1>7. CASE c.op \in {"C_SignInit", "C_VerifyInit"}
  <2>1. /\ c.mechanism \in Mechanisms /\ c.object \in ObjectHandles
        /\ C_SignInit(i, c.object, c.mechanism) \/ C_VerifyInit(i, c.object, c.mechanism)
    BY <1>7, ArgumentsAssumption DEF WholeOn
  <2> QED BY <1>2, <2>1 DEF CallOn
<1>8. CASE c.op \in {"C_Sign", "C_Verify", "C_GenerateRandom"}
  <2>1. C_Sign(i) \/ C_Verify(i) \/ C_GenerateRandom(i)
    BY <1>8 DEF WholeOn
  <2> QED BY <1>2, <2>1 DEF CallOn
<1> QED BY <1>3, <1>4, <1>5, <1>6, <1>7, <1>8
        DEF SessionUsers, PinCalls, KeyCalls, AttributeCalls, TableCalls

LEMMA WholeIsCall == ASSUME StateInv, NEW c \in Calls, Whole(c) PROVE AnyCall
<1>1. CASE c.op \in SessionUsers
  <2>1. ~(c.op \in {"C_OpenSession", "C_CloseSession", "C_CloseAllSessions", "C_InitToken",
                    "C_Initialize", "C_Finalize"})
    BY <1>1 DEF SessionUsers, PinCalls, KeyCalls, AttributeCalls, TableCalls
  <2>2. \/ hsm_get_session(c.h) # "CKR_OK" /\ Refuse(hsm_get_session(c.h))
        \/ initialized /\ \E i \in Idx : Owns(i, c.h) /\ WholeOn(i, c)
    BY <2>1 DEF Whole
  <2> QED BY <1>1, <2>2, RefusedCall, WholeOnSession, WholeOnPins, WholeOnObjects
<1>2. CASE c.op \notin SessionUsers
  <2>1. CASE c.op = "C_OpenSession"
    BY <1>2, <2>1, ArgumentsAssumption DEF Whole, OnSessions, AnyCall, SessionCall
  <2>2. CASE c.op = "C_CloseSession"
    BY <1>2, <2>2, ArgumentsAssumption DEF Whole, OnSessions, AnyCall, SessionCall
  <2>3. CASE c.op = "C_CloseAllSessions"
    BY <1>2, <2>3 DEF Whole, OnSessions, AnyCall, SessionCall
  <2>4. CASE c.op = "C_InitToken"
    BY <1>2, <2>4, ArgumentsAssumption DEF Whole, AnyCall, PinCall
  <2>5. CASE c.op = "C_Initialize"
    BY <1>2, <2>5 DEF Whole, AnyCall
  <2>6. CASE c.op = "C_Finalize"
    BY <1>2, <2>6 DEF Whole, AnyCall
  <2> QED BY <1>2, <2>1, <2>2, <2>3, <2>4, <2>5, <2>6 DEF Whole
<1> QED BY <1>1, <1>2
-----------------------------------------------------------------------------
(* What a thread's step is to the others.                                  *)

ClosesEntry(t) == pc[t] = "clear" /\ local[t].call.op = "C_CloseSession"

DestroysEntry(t) == pc[t] = "clear" /\ local[t].call.op = "C_DestroyObject"

\* Handles change where there was none, or by the call that clears the entry;
\* a session changes under its lock; a login ends by C_Logout; which entries
\* the objects take, and half a pair, change under slot->lock.
Mild(t) ==
    /\ UNCHANGED <<initialized, slots>>
    /\ \A i \in Idx :
         \/ sessions[i].handle = 0
         \/ sessions'[i].handle = sessions[i].handle
         \/ ClosesEntry(t)
    /\ \A i \in Idx :
         \/ sessions[i].handle = 0
         \/ sessions'[i] = sessions[i] /\ find'[i] = find[i] /\ operation'[i] = operation[i]
         \/ session_lock[i] = t
         \/ ClosesEntry(t)
    /\ \A i \in Idx : sessions[i].user_logged_in =>
         \/ sessions'[i].user_logged_in
         \/ local[t].call.op = "C_Logout"
         \/ ClosesEntry(t)
    /\ \A k \in ObjIdx :
         \/ objects[k].handle = 0
         \/ objects'[k] = objects[k]
         \/ /\ objects'[k].handle = objects[k].handle
            /\ local[t].call.op = "C_SetAttributeValue"
         \/ DestroysEntry(t)
    /\ \/ /\ UNCHANGED <<counter, half>>
          /\ \A k \in ObjIdx : objects'[k].handle = objects[k].handle
       \/ /\ slot_lock = t
          /\ local[t].call.op \in {"C_CreateObject", "C_DestroyObject", "C_GenerateKeyPair"}

LEMMA StillMild ==
    ASSUME NEW t, UNCHANGED <<initialized, slots, sessions, operation, find, objects, counter, half>>
    PROVE  Mild(t)
  BY DEF Mild

\* A thread that relies on what it has seen of its session has the session's
\* lock, but for C_GenerateKeyPair.
LEMMA DecidedUnder ==
    ASSUME NEW label, NEW op, Fits(label, op), label \in Labelled, HasDecided(label, op)
    PROVE  HasSession(label, op) /\ (op = "C_GenerateKeyPair" \/ Under(label, op))
<1>1. op \in Decides /\ label \notin {"idle", "find", "lockSession", "decide"}
  BY DEF HasDecided
<1>2. op \in SessionUsers /\ op \notin AttributeCalls \cup TableCalls \cup SlotCalls \cup LibraryCalls
  BY <1>1 DEF Decides, SessionUsers, PinCalls, KeyCalls, AttributeCalls, TableCalls, SlotCalls,
              LibraryCalls
<1>3. label \in {"lookup", "use", "scan", "generate", "slot", "lockSlot", "body", "pair"}
  <2>1. op \notin {"C_CloseSession", "C_CloseAllSessions", "C_InitToken", "C_CreateObject",
                   "C_DestroyObject"}
    BY <1>2 DEF SlotCalls, TableCalls
  <2>2. label \notin {"check", "work", "save", "clear", "hang", "log", "lockGlobal", "test",
                      "reset", "start", "cleanup", "end"}
    BY <1>1, <1>2, <2>1 DEF Fits
  <2> QED BY <1>1, <2>2 DEF Labelled
<1> QED BY <1>1, <1>2, <1>3 DEF Fits, Under, HasSession, AttributeCalls, SlotCalls, TableCalls

\* The table entries in use, by their handles.
UsedByHandle == \A k \in ObjIdx : k \in InUse <=> objects[k].handle # 0

LEMMA UsedHasHandle == ObjectTableInv => UsedByHandle
  BY ObjectEntries DEF UsedByHandle

LEMMA SameHandlesSameEntries ==
    ASSUME ObjectTableInv, ObjectTableInv',
           \A k \in ObjIdx : objects'[k].handle = objects[k].handle
    PROVE  InUse' = InUse
<1>1. UsedByHandle /\ UsedByHandle'
  BY UsedHasHandle, PTL
<1>2. InUse \subseteq ObjIdx /\ InUse' \subseteq ObjIdx
  BY DEF InUse
<1> QED BY <1>1, <1>2 DEF UsedByHandle

LEMMA SameHandlesSameScan ==
    ASSUME ObjectTableInv, ObjectTableInv',
           \A k \in ObjIdx : objects'[k].handle = objects[k].handle
    PROVE  \A n \in Nat : Collected(n)' = Collected(n)
<1>1. InUse' = InUse /\ InUse \subseteq ObjIdx
  BY SameHandlesSameEntries DEF InUse
<1> QED BY <1>1, CollectedSame

LEMMA OthersKnow ==
    ASSUME Discipline \subseteq Apart, CallInv, ObjectTableInv',
           NEW t \in Threads, NEW u \in Threads, t # u, pc[t] # "idle", Mild(t),
           pc'[u] = pc[u], local'[u] = local[u]
    PROVE  Knows(u)'
<1> DEFINE op == local[u].call.op
           i == local[u].entry
           k == local[u].item
           label == pc[u]
<1>1. /\ Fits(label, op) /\ i \in Idx /\ label \in Labelled /\ Knows(u)
      /\ slot_lock = u <=> label \in UnderSlotLock
      /\ \A j \in Idx : session_lock[j] = u <=> Under(label, op) /\ i = j
      /\ slot_lock = t <=> pc[t] \in UnderSlotLock
  BY Here DEF CallInv, Locals, LockInv
<1>2. label # "idle" => /\ Overlap(local[t].call.op, op)
                        /\ Overlap(op, local[t].call.op)
  BY KeptApart DEF CallInv
<1>3. ~(label = "clear" /\ pc[t] = "clear")
  BY <1>1 DEF UnderSlotLock
<1>4. HasSession(label, op) => ~ClosesEntry(t)
  BY <1>2, <1>3 DEF HasSession, ClosesEntry, Overlap
<1>5. HasSession(label, op) =>
         sessions'[i].handle = local[u].call.h /\ local[u].call.h # 0
  <2> SUFFICES ASSUME HasSession(label, op)
               PROVE  sessions'[i].handle = local[u].call.h /\ local[u].call.h # 0
    OBVIOUS
  <2>1. sessions[i].handle = local[u].call.h /\ local[u].call.h # 0
    BY <1>1 DEF Knows, KnowsAs
  <2> QED BY <1>1, <1>4, <2>1 DEF Mild
<1>6. HasDecided(label, op) => Decided(local[u].call, sessions'[i], find'[i], operation'[i])
  <2> SUFFICES ASSUME HasDecided(label, op)
               PROVE  Decided(local[u].call, sessions'[i], find'[i], operation'[i])
    OBVIOUS
  <2>1. HasSession(label, op) /\ (op = "C_GenerateKeyPair" \/ Under(label, op))
    BY <1>1, DecidedUnder
  <2>2. sessions[i].handle # 0
    BY <1>1, <2>1 DEF Knows, KnowsAs
  <2>3. Decided(local[u].call, sessions[i], find[i], operation[i])
    BY <1>1 DEF Knows, KnowsAs
  <2>4. CASE sessions'[i] = sessions[i] /\ find'[i] = find[i] /\ operation'[i] = operation[i]
    BY <2>3, <2>4
  <2>5. CASE session_lock[i] = t
    <3>1. op = "C_GenerateKeyPair"
      BY <1>1, <2>1, <2>5
    <3>2. local[t].call.op # "C_Logout"
      BY <1>2, <2>1, <3>1 DEF Overlap, HasSession, SessionUsers
    <3>3. sessions[i].user_logged_in
      BY <2>3, <3>1 DEF Decided
    <3>4. sessions'[i].user_logged_in
      BY <1>1, <1>4, <2>1, <3>2, <3>3 DEF Mild
    <3> QED BY <3>1, <3>4 DEF Decided
  <2> QED BY <1>1, <1>4, <2>1, <2>2, <2>4, <2>5 DEF Mild
<1>7. HasObject(label, op) => /\ k \in ObjIdx
                              /\ objects'[k].handle = ObjectOf(label, local[u])
                              /\ ObjectOf(label, local[u]) # 0
  <2> SUFFICES ASSUME HasObject(label, op)
               PROVE  /\ k \in ObjIdx
                      /\ objects'[k].handle = ObjectOf(label, local[u])
                      /\ ObjectOf(label, local[u]) # 0
    OBVIOUS
  <2>1. /\ k \in ObjIdx
        /\ objects[k].handle = ObjectOf(label, local[u])
        /\ ObjectOf(label, local[u]) # 0
    BY <1>1 DEF Knows, KnowsAs
  <2>2. label \in {"use", "save", "log"} => op \in KeyCalls \cup AttributeCalls \cup {"C_CreateObject"}
    BY <1>1 DEF Fits
  <2>3. ~DestroysEntry(t)
    BY <1>2, <1>3, <2>2 DEF HasObject, DestroysEntry, Overlap
  <2> QED BY <2>1, <2>3 DEF Mild
<1>11. label = "use" => local[u].handle = KeyOf(i, local[u].call)'
  <2> SUFFICES ASSUME label = "use" PROVE local[u].handle = KeyOf(i, local[u].call)'
    OBVIOUS
  <2>1. local[u].handle = KeyOf(i, local[u].call) /\ op \in KeyCalls \cup AttributeCalls
    BY <1>1 DEF Knows, KnowsAs, Fits
  <2>2. CASE op \notin {"C_Sign", "C_Verify"}
    BY <2>1, <2>2 DEF KeyOf
  <2>3. CASE op \in {"C_Sign", "C_Verify"}
    <3>1. HasSession("use", op) /\ session_lock[i] = u
      BY <1>1, <2>3 DEF HasSession, SessionUsers, KeyCalls, Under
    <3>2. sessions[i].handle # 0 /\ ~ClosesEntry(t)
      BY <1>1, <1>4, <3>1 DEF Knows, KnowsAs
    <3>3. operation'[i] = operation[i]
      BY <1>1, <3>1, <3>2 DEF Mild
    <3> QED BY <2>1, <3>3 DEF KeyOf
  <2> QED BY <2>2, <2>3
<1>12. label = "save" => objects'[k].label = local[u].call.template.label
  <2> SUFFICES ASSUME label = "save" PROVE objects'[k].label = local[u].call.template.label
    OBVIOUS
  <2>1. /\ k \in ObjIdx /\ objects[k].handle # 0
        /\ objects[k].label = local[u].call.template.label /\ op = "C_CreateObject"
    BY <1>1 DEF Knows, KnowsAs, HasObject, ObjectOf, Fits
  <2>2. ~DestroysEntry(t) /\ local[t].call.op # "C_SetAttributeValue"
    BY <1>2, <2>1 DEF DestroysEntry, Overlap
  <2> QED BY <2>1, <2>2 DEF Mild
<1>13. label = "pair" => HalfStored(local[u])'
  <2> SUFFICES ASSUME label = "pair" PROVE HalfStored(local[u])'
    OBVIOUS
  <2>1. HalfStored(local[u]) /\ slot_lock # t
    BY <1>1 DEF Knows, KnowsAs, UnderSlotLock
  <2>2. UNCHANGED <<counter, half>> /\ \A j \in ObjIdx : objects'[j].handle = objects[j].handle
    BY <2>1 DEF Mild
  <2>3. Unused' = Unused
    BY <2>2, SameHandlesSameEntries DEF CallInv, StateInv, Unused
  <2> QED BY <2>1, <2>2, <2>3 DEF HalfStored, First, PublicKey, hsm_generate_object_handle
<1>8. label = "scan" =>
         \E n \in 0 .. HSM_MAX_OBJECTS : k = n /\ local[u].seen = Collected(n)'
  <2> SUFFICES ASSUME label = "scan"
               PROVE  \E n \in 0 .. HSM_MAX_OBJECTS : k = n /\ local[u].seen = Collected(n)'
    OBVIOUS
  <2>1. PICK n \in 0 .. HSM_MAX_OBJECTS : k = n /\ local[u].seen = Collected(n)
    BY <1>1 DEF Knows, KnowsAs
  <2>2. op = "C_FindObjectsInit"
    BY <1>1 DEF Fits
  <2>3. local[t].call.op \notin {"C_CreateObject", "C_DestroyObject", "C_GenerateKeyPair"}
    BY <1>2, <2>2 DEF Overlap
  <2>4. Collected(n)' = Collected(n)
    BY <2>3, SameHandlesSameScan DEF Mild, CallInv, StateInv
  <2> QED BY <2>1, <2>4
<1>9. Inside(label, op) => initialized' /\ slots'
  BY <1>1 DEF Knows, KnowsAs, Mild
<1>10. /\ IF label = "idle" THEN local[u] = NoLocals ELSE local[u].call \in Calls
       /\ label \in {"find", "lockSession", "decide"} => k = 0 /\ local[u].seen = <<>>
  BY <1>1 DEF Knows, KnowsAs
<1> QED BY <1>5, <1>6, <1>7, <1>8, <1>9, <1>10, <1>11, <1>12, <1>13 DEF Knows, KnowsAs
-----------------------------------------------------------------------------
(* Steps that change nothing but the thread.                               *)

LEMMA SameKnown ==
    ASSUME UNCHANGED <<allVars, slots, half>>, NEW label, NEW l, KnowsAs(label, l)
    PROVE  KnowsAs(label, l)'
<1>1. UNCHANGED <<initialized, slots, sessions, find, operation, objects, counter, half>>
  BY DEF allVars, vars, objectVars, tableVars, sessionVars
<1>2. \A n : Collected(n)' = Collected(n)
  BY <1>1 DEF Collected, Before, InUse
<1>3. HalfStored(l)' <=> HalfStored(l)
  BY <1>1 DEF HalfStored, Unused, InUse, First, PublicKey, hsm_generate_object_handle
<1>4. KeyOf(l.entry, l.call)' = KeyOf(l.entry, l.call)
  BY <1>1 DEF KeyOf
<1> QED BY <1>1, <1>2, <1>3, <1>4 DEF KnowsAs

LEMMA Settles ==
    ASSUME NEW t, UNCHANGED <<allVars, slots, half>>, KnowsAs(pc'[t], local'[t])
    PROVE  Knows(t)'
  BY SameKnown DEF Knows
-----------------------------------------------------------------------------
(* What a thread's step does, C_Initialize and C_Finalize apart.           *)

\* The step is the whole call, if the call is over with it, or nothing.
TakesEffect(t) ==
    IF pc[t] \notin Over /\ pc'[t] \in Over THEN Whole(local[t].call) ELSE UNCHANGED allVars

\* What the thread freed is cleared when it leaves "clear"; it may free more.
FreedOK(t) ==
    \A x \in freed' :
        \/ x \in freed /\ (pc[t] = "clear" => x # FreedBy(local[t]))
        \/ pc'[t] = "clear" /\ x = FreedBy(local'[t])

\* It leaves half a pair only at "pair".
HalfOK(t) == half' = NoHalf \/ pc'[t] = "pair" \/ (half' = half /\ pc[t] # "pair")

Advances(t) ==
    TakesEffect(t) /\ Mild(t) /\ Knows(t)' /\ FreedOK(t) /\ HalfOK(t) /\ UNCHANGED global_lock

LEMMA Left == ASSUME LockInv, NEW t \in Threads, Leave(t) PROVE pc'[t] = "idle" /\ local'[t] = NoLocals
  BY Here DEF Leave, LockInv

LEMMA Gone == ASSUME LockInv, NEW t \in Threads, NEW label, Go(t, label) PROVE pc'[t] = label
  BY DEF Go, LockInv

LEMMA IdleKnows ==
    ASSUME NEW t, pc'[t] = "idle", local'[t] = NoLocals PROVE Knows(t)'
<1>1. NoLocals.call.op \notin SessionUsers \cup Decides \cup {"C_CloseSession"}
  BY DEF NoLocals, SessionUsers, PinCalls, KeyCalls, AttributeCalls, TableCalls, Decides
<1>2. \A op : ~Inside("idle", op) /\ ~HasDecided("idle", op) /\ ~HasObject("idle", op)
                /\ ~HasSession("idle", op)
  BY DEF Inside, HasDecided, HasObject, HasSession
<1> QED BY <1>1, <1>2 DEF Knows, KnowsAs

LEMMA CallEnds ==
    ASSUME LockInv, NEW t \in Threads, pc[t] \notin Over \cup {"clear"}, Leave(t),
           UNCHANGED <<slots, global_lock, freed>>, Whole(local[t].call), Mild(t),
           half' = NoHalf \/ (half' = half /\ pc[t] # "pair")
    PROVE  Advances(t)
<1>1. pc'[t] = "idle" /\ local'[t] = NoLocals
  BY Left
<1>2. Knows(t)'
  BY <1>1, IdleKnows
<1>3. TakesEffect(t)
  BY <1>1 DEF TakesEffect, Over
<1> QED BY <1>2, <1>3 DEF Advances, FreedOK, HalfOK

\* The call is refused.
LEMMA CallRefused ==
    ASSUME LockInv, NEW t \in Threads, pc[t] \notin Over \cup {"clear", "pair"}, Leave(t), NEW code,
           Refuse(code), UNCHANGED <<slots, global_lock, freed, half>>, Whole(local[t].call)
    PROVE  Advances(t)
<1>1. UNCHANGED <<initialized, slots, sessions, operation, find, objects, counter, half>>
  BY DEF Refuse, Return, sessionVars, objectVars, tableVars
<1> QED BY <1>1, StillMild, CallEnds

LEMMA CallGoesOn ==
    ASSUME NEW t \in Threads, pc[t] \notin {"clear", "pair"}, pc[t] \in Over \/ pc'[t] \notin Over,
           UNCHANGED <<allVars, slots, global_lock, freed, half>>, KnowsAs(pc'[t], local'[t])
    PROVE  Advances(t)
<1>1. UNCHANGED <<initialized, slots, sessions, operation, find, objects, counter, half>>
  BY DEF allVars, vars, objectVars, tableVars, sessionVars
<1>2. Mild(t)
  BY <1>1, StillMild
<1>3. TakesEffect(t)
  BY DEF TakesEffect
<1>4. Knows(t)'
  BY Settles
<1> QED BY <1>2, <1>3, <1>4 DEF Advances, FreedOK, HalfOK

\* The slot is there for the calls C_Finalize is kept apart from.
LEMMA SlotUp ==
    ASSUME Discipline \subseteq Apart, CallInv, NEW t \in Threads, pc[t] # "idle",
           local[t].call.op \in SlotCalls \cup SessionUsers, initialized
    PROVE  slots
<1> SUFFICES ASSUME ~slots PROVE FALSE
  OBVIOUS
<1>1. PICK u \in Threads : local[u].call.op = "C_Finalize" /\ pc[u] = "end"
  BY DEF CallInv, SlotThere
<1>2. "C_Finalize" \notin SlotCalls \cup SessionUsers
  BY DEF SlotCalls, SessionUsers, PinCalls, KeyCalls, AttributeCalls, TableCalls
<1>3. u # t /\ ~Overlap(local[u].call.op, local[t].call.op)
  BY <1>1, <1>2 DEF Overlap
<1> QED BY <1>1, <1>3, KeptApart DEF CallInv

\* A call that changes nothing is one of HsmSession to the operations too.
LEMMA QuietOnSessions ==
    ASSUME StateInv, UNCHANGED sessions, UNCHANGED objectVars
    PROVE  OperationsFollow /\ UNCHANGED <<tableVars, key_files>>
  BY OperationsStay DEF objectVars

LEMMA CheckAdvances ==
    ASSUME Discipline \subseteq Apart, CallInv, NEW t \in Threads, Check(t) PROVE Advances(t)
<1> DEFINE c == local[t].call
<1>1. pc[t] = "check" /\ c.op \in SlotCalls /\ c \in Calls /\ Locals(local[t])
  BY Here DEF Check, CallInv, Fits, Knows, KnowsAs
<1>2. CASE ~initialized /\ Fail(t, "CKR_CRYPTOKI_NOT_INITIALIZED")
  <2>1. /\ Refuse("CKR_CRYPTOKI_NOT_INITIALIZED") /\ Leave(t)
        /\ UNCHANGED <<slots, global_lock, freed, half>>
    BY <1>2 DEF Fail
  <2>2. Return("CKR_CRYPTOKI_NOT_INITIALIZED") /\ UNCHANGED objectVars
    BY <2>1 DEF Refuse
  <2>3. OperationsFollow /\ UNCHANGED <<tableVars, key_files>>
    BY <2>2, QuietOnSessions DEF CallInv, Return, sessionVars
  <2>8. Whole(c)
    <3>4. CASE c.op = "C_OpenSession"
      BY <1>2, <2>2, <2>3, <3>4 DEF Whole, OnSessions, C_OpenSession
    <3>5. CASE c.op = "C_CloseSession"
      BY <1>2, <2>2, <2>3, <3>5 DEF Whole, OnSessions, C_CloseSession, hsm_get_session
    <3>6. CASE c.op = "C_CloseAllSessions"
      BY <1>2, <2>2, <2>3, <3>6 DEF Whole, OnSessions, C_CloseAllSessions
    <3>7. CASE c.op = "C_InitToken"
      <4>1. PinLengthOK(c.pin)
        BY <1>1, <3>7, ArgumentsAssumption
      <4> QED BY <1>2, <2>2, <3>7, <4>1 DEF Whole, C_InitToken
    <3> QED BY <1>1, <3>4, <3>5, <3>6, <3>7 DEF SlotCalls
  <2> QED BY <1>1, <2>1, <2>8, CallRefused DEF CallInv, Over
<1>3. CASE /\ initialized /\ Go(t, "lockSlot")
           /\ UNCHANGED <<allVars, local, slots, lockVars, global_lock, freed, half>>
  <2>1. pc'[t] = "lockSlot" /\ local'[t] = local[t]
    BY <1>3, Gone DEF CallInv
  <2>2. slots
    BY <1>1, <1>3, SlotUp
  <2>3. c.op \notin SessionUsers \cup Decides
    BY <1>1 DEF SlotCalls, SessionUsers, PinCalls, KeyCalls, AttributeCalls, TableCalls, Decides
  <2>4. KnowsAs("lockSlot", local[t])
    BY <1>1, <1>3, <2>2, <2>3 DEF KnowsAs, Inside, HasSession, HasDecided, HasObject
  <2> QED BY <1>1, <1>3, <2>1, <2>4, CallGoesOn DEF Over
<1> QED BY <1>2, <1>3 DEF Check

LEMMA FindAdvances ==
    ASSUME Discipline \subseteq Apart, CallInv, NEW t \in Threads, FindSession(t) PROVE Advances(t)
<1> DEFINE c == local[t].call
<1>1. /\ pc[t] = "find" /\ c.op \in SessionUsers /\ c \in Calls /\ Locals(local[t])
      /\ local[t].item = 0 /\ local[t].seen = <<>>
  BY Here DEF FindSession, CallInv, Fits, Knows, KnowsAs
<1>2. CASE hsm_get_session(c.h) # "CKR_OK" /\ Fail(t, hsm_get_session(c.h))
  <2>1. Refuse(hsm_get_session(c.h)) /\ Leave(t) /\ UNCHANGED <<slots, global_lock, freed, half>>
    BY <1>2 DEF Fail
  <2>2. Whole(c)
    BY <1>1, <1>2, <2>1 DEF Whole
  <2> QED BY <1>1, <2>1, <2>2, CallRefused DEF CallInv, Over
<1>3. ASSUME initialized, NEW i \in Idx, Owns(i, c.h), local' = [local EXCEPT ![t].entry = i],
             Go(t, AfterFind(c.op)), UNCHANGED <<allVars, slots, lockVars, global_lock, freed, half>>
      PROVE  Advances(t)
  <2>1. pc'[t] = AfterFind(c.op)
    BY <1>3, Gone DEF CallInv
  <2>2. local'[t] = [local[t] EXCEPT !.entry = i]
    BY <1>3, Here DEF CallInv
  <2>3. /\ local'[t].call = c /\ local'[t].entry = i
        /\ local'[t].item = 0 /\ local'[t].seen = <<>>
    BY <1>1, <2>2 DEF Locals
  <2>4. slots
    BY <1>1, <1>3, SlotUp
  <2>5. sessions[i].handle = c.h /\ c.h # 0
    BY <1>3, SessionEntries DEF CallInv, StateInv
  <2>6. AfterFind(c.op) \in {"slot", "lookup", "work", "lockSession"}
    BY DEF AfterFind
  <2>7. ~HasDecided(AfterFind(c.op), c.op)
    BY DEF AfterFind, HasDecided, TableCalls, AttributeCalls, Decides, PinCalls, KeyCalls
  <2>8. ~HasObject(AfterFind(c.op), c.op)
    BY <2>6 DEF HasObject
  <2> HIDE DEF c
  <2>9. KnowsAs(AfterFind(c.op), local'[t])
    BY <1>1, <1>3, <2>3, <2>4, <2>5, <2>6, <2>7, <2>8 DEF KnowsAs
  <2> QED BY <1>1, <1>3, <2>1, <2>6, <2>9, CallGoesOn DEF Over
<1> QED BY <1>2, <1>3 DEF FindSession, CallOf

\* A call of SessionUsers, once it has found its session.
LEMMA OnItsSession ==
    ASSUME CallInv, NEW t \in Threads, pc[t] \notin {"idle", "find"},
           local[t].call.op \in SessionUsers
    PROVE  /\ initialized /\ slots /\ local[t].call \in Calls /\ local[t].entry \in Idx
           /\ sessions[local[t].entry].handle = local[t].call.h /\ local[t].call.h # 0
           /\ Owns(local[t].entry, local[t].call.h)
           /\ HasDecided(pc[t], local[t].call.op) =>
                Decided(local[t].call, sessions[local[t].entry], find[local[t].entry],
                        operation[local[t].entry])
           /\ WholeOn(local[t].entry, local[t].call) => Whole(local[t].call)
<1> DEFINE op == local[t].call.op
<1>1. Knows(t) /\ Fits(pc[t], op) /\ local[t].entry \in Idx
  BY Here DEF CallInv, Locals
<1>2. Inside(pc[t], op) /\ HasSession(pc[t], op)
  BY <1>1 DEF Fits, Inside, HasSession, SessionUsers, PinCalls, KeyCalls, AttributeCalls, TableCalls,
              SlotCalls, LibraryCalls
<1>3. /\ initialized /\ slots /\ local[t].call \in Calls
      /\ sessions[local[t].entry].handle = local[t].call.h /\ local[t].call.h # 0
      /\ HasDecided(pc[t], op) =>
                Decided(local[t].call, sessions[local[t].entry], find[local[t].entry],
                        operation[local[t].entry])
  BY <1>1, <1>2 DEF Knows, KnowsAs
<1>4. Owns(local[t].entry, local[t].call.h)
  BY <1>1, <1>3, SessionEntries DEF CallInv, StateInv
<1> QED BY <1>1, <1>3, <1>4 DEF Whole

LEMMA LockSessionAdvances ==
    ASSUME CallInv, NEW t \in Threads, LockSession(t) PROVE Advances(t)
<1> DEFINE c == local[t].call
           label == IF c.op \in Decides THEN "decide" ELSE "work"
<1>1. /\ pc[t] = "lockSession" /\ c.op \in SessionUsers
      /\ local[t].item = 0 /\ local[t].seen = <<>>
  BY Here DEF LockSession, CallInv, Fits, Knows, KnowsAs
<1>2. pc'[t] = label /\ local'[t] = local[t] /\ UNCHANGED <<allVars, slots, global_lock, freed, half>>
  BY Gone DEF LockSession, CallInv, CallOf
<1>3. ~HasDecided(label, c.op) /\ ~HasObject(label, c.op) /\ label \in {"decide", "work"}
  BY DEF HasDecided, HasObject
<1> HIDE DEF label
<1>4. KnowsAs(label, local[t])
  BY <1>1, <1>3, OnItsSession DEF KnowsAs
<1> QED BY <1>1, <1>2, <1>3, <1>4, CallGoesOn DEF Over

\* What a call refuses by what it sees of its session is what the whole refuses.
LEMMA RefusalIsWhole ==
    ASSUME NEW i \in Idx, NEW c, c.op \in Decides, SessionRefuses(i, c) # "CKR_OK",
           Refuse(SessionRefuses(i, c))
    PROVE  WholeOn(i, c)
<1>1. \/ c.op = "C_Login" \/ c.op = "C_InitPIN" \/ c.op = "C_SetPIN" \/ c.op = "C_GenerateKeyPair"
      \/ c.op = "C_FindObjectsInit" \/ c.op = "C_SignInit" \/ c.op = "C_VerifyInit"
      \/ c.op = "C_Sign" \/ c.op = "C_Verify"
  BY DEF Decides, PinCalls, KeyCalls
<1>2. CASE c.op = "C_Login"
  <2>1. SessionRefuses(i, c) = LoginError(i, c.user)
    BY <1>2 DEF SessionRefuses, LoginError
  <2>2. LoginOn(i, c.user, c.pin) /\ UNCHANGED objectVars
    BY <2>1 DEF LoginOn, Refuse
  <2> QED BY <1>2, <2>2 DEF WholeOn
<1>3. CASE c.op = "C_InitPIN"
  <2>1. InitPinOn(i, c.pin) /\ UNCHANGED objectVars
    BY <1>3 DEF SessionRefuses, InitPinOn, Refuse
  <2> QED BY <1>3, <2>1 DEF WholeOn
<1>4. CASE c.op = "C_SetPIN"
  <2>1. SetPinOn(i, c.pin, c.new) /\ UNCHANGED objectVars
    BY <1>4 DEF SessionRefuses, SetPinOn, SetPinError, Refuse
  <2> QED BY <1>4, <2>1 DEF WholeOn
<1>5. CASE c.op = "C_GenerateKeyPair"
  BY <1>5 DEF SessionRefuses, WholeOn, C_GenerateKeyPair
<1>6. CASE c.op = "C_FindObjectsInit"
  BY <1>6 DEF SessionRefuses, WholeOn, C_FindObjectsInit
<1>7. CASE c.op = "C_SignInit"
  BY <1>7 DEF SessionRefuses, WholeOn, C_SignInit
<1>8. CASE c.op = "C_VerifyInit"
  BY <1>8 DEF SessionRefuses, WholeOn, C_VerifyInit
<1>9. CASE c.op = "C_Sign"
  BY <1>9 DEF SessionRefuses, WholeOn, C_Sign, UseKey
<1>10. CASE c.op = "C_Verify"
  BY <1>10 DEF SessionRefuses, WholeOn, C_Verify, UseKey
<1> QED BY <1>1, <1>2, <1>3, <1>4, <1>5, <1>6, <1>7, <1>8, <1>9, <1>10

LEMMA DecideAdvances ==
    ASSUME CallInv, NEW t \in Threads, Decide(t) PROVE Advances(t)
<1> DEFINE c == local[t].call
           i == local[t].entry
<1>1. /\ pc[t] = "decide" /\ c.op \in Decides /\ c.op \in SessionUsers
      /\ local[t].item = 0 /\ local[t].seen = <<>>
  BY Here DEF Decide, CallInv, Fits, Knows, KnowsAs, Decides, SessionUsers
<1>2. CASE SessionRefuses(i, c) # "CKR_OK" /\ Fail(t, SessionRefuses(i, c))
  <2>1. /\ Refuse(SessionRefuses(i, c)) /\ Leave(t)
        /\ UNCHANGED <<slots, global_lock, freed, half>>
    BY <1>2 DEF Fail
  <2>2. Whole(c)
    BY <1>1, <1>2, <2>1, RefusalIsWhole, OnItsSession
  <2> QED BY <1>1, <2>1, <2>2, CallRefused DEF CallInv, Over
<1>3. CASE /\ SessionRefuses(i, c) = "CKR_OK" /\ Go(t, AfterDecide(c.op))
           /\ UNCHANGED <<allVars, local, slots, global_lock, freed, half>>
  <2>1. pc'[t] = AfterDecide(c.op) /\ local'[t] = local[t]
    BY <1>3, Gone DEF CallInv
  <2>2. Decided(c, sessions[i], find[i], operation[i])
    BY <1>1, <1>3, DecidedIs
  <2>3. AfterDecide(c.op) \in {"lockSlot", "lookup", "scan", "generate"}
    BY <1>1 DEF AfterDecide, Decides
  <2>4. 0 \in 0 .. HSM_MAX_OBJECTS /\ local[t].seen = Collected(0)
    BY <1>1, CollectedFirst, ObjectSizes
  <2>5. ~HasObject(AfterDecide(c.op), c.op)
    BY <2>3 DEF HasObject
  <2> HIDE DEF c, i
  <2>6. KnowsAs(AfterDecide(c.op), local[t])
    BY <1>1, <2>2, <2>3, <2>4, <2>5, OnItsSession DEF KnowsAs, c, i
  <2> QED BY <1>1, <1>3, <2>1, <2>3, <2>6, CallGoesOn DEF Over
<1> QED BY <1>2, <1>3 DEF Decide, CallOf, Entry

LEMMA ReadSlotIdAdvances ==
    ASSUME CallInv, NEW t \in Threads, ReadSlotId(t) PROVE Advances(t)
<1> DEFINE c == local[t].call
<1>1. pc[t] = "slot" /\ c.op \in TableCalls \cup {"C_GenerateKeyPair"}
  BY Here DEF ReadSlotId, CallInv, Fits
<1>2. pc'[t] = "lockSlot" /\ local'[t] = local[t] /\ UNCHANGED <<allVars, slots, global_lock, freed, half>>
  BY Gone DEF ReadSlotId, CallInv
<1>3. c.op \in SessionUsers /\ (HasDecided("lockSlot", c.op) => HasDecided("slot", c.op))
  BY <1>1 DEF SessionUsers, HasDecided
<1>4. KnowsAs("lockSlot", local[t])
  BY <1>1, <1>3, OnItsSession DEF KnowsAs, HasObject
<1> QED BY <1>1, <1>2, <1>4, CallGoesOn DEF Over

LEMMA LockSlotAdvances ==
    ASSUME CallInv, NEW t \in Threads, LockSlot(t) PROVE Advances(t)
<1> DEFINE c == local[t].call
<1>1. pc[t] = "lockSlot" /\ KnowsAs("lockSlot", local[t])
  BY DEF LockSlot, CallInv, Knows
<1>2. pc'[t] = "body" /\ local'[t] = local[t] /\ UNCHANGED <<allVars, slots, global_lock, freed, half>>
  BY Gone DEF LockSlot, CallInv
<1>3. KnowsAs("body", local[t])
  BY <1>1 DEF KnowsAs, Inside, HasSession, HasDecided, HasObject
<1> QED BY <1>1, <1>2, <1>3, CallGoesOn DEF Over

LEMMA GenerateAdvances ==
    ASSUME CallInv, NEW t \in Threads, Generate(t) PROVE Advances(t)
<1> DEFINE c == local[t].call
           i == local[t].entry
<1>1. pc[t] = "generate" /\ c.op = "C_GenerateKeyPair"
  BY Here DEF Generate, CallInv, Fits
<1>2. c.op \in SessionUsers /\ HasDecided("generate", c.op) /\ HasDecided("slot", c.op)
  BY <1>1 DEF SessionUsers, HasDecided, Decides
<1>3. CASE /\ GenerateFails(c.mechanism) /\ Leave(t) /\ UNCHANGED <<slots, global_lock, freed, half>>
  <2>1. PICK code : Refuse(code)
    BY <1>3 DEF GenerateFails
  <2>2. sessions[i].user_logged_in
    BY <1>1, <1>2, OnItsSession DEF Decided
  <2>3. WholeOn(i, c)
    BY <1>1, <1>3, <2>2 DEF WholeOn, C_GenerateKeyPair
  <2>4. Whole(c)
    BY <1>1, <1>2, <2>3, OnItsSession
  <2> QED BY <1>1, <1>3, <2>1, <2>4, CallRefused DEF CallInv, Over
<1>4. CASE Go(t, "slot") /\ UNCHANGED <<allVars, local, slots, lockVars, global_lock, freed, half>>
  <2>1. pc'[t] = "slot" /\ local'[t] = local[t]
    BY <1>4, Gone DEF CallInv
  <2>2. KnowsAs("slot", local[t])
    BY <1>1, <1>2, OnItsSession DEF KnowsAs, HasObject
  <2> QED BY <1>1, <1>4, <2>1, <2>2, CallGoesOn DEF Over
<1> QED BY <1>3, <1>4 DEF Generate, CallOf
-----------------------------------------------------------------------------
(* What the calls do to their own session, under its lock, and to objects. *)

LEMMA OwnSessionMild ==
    ASSUME NEW t, NEW i \in Idx, session_lock[i] = t,
           UNCHANGED <<initialized, slots, objects, counter, half>>,
           \A j \in Idx : j # i =>
              sessions'[j] = sessions[j] /\ find'[j] = find[j] /\ operation'[j] = operation[j],
           sessions'[i].handle = sessions[i].handle,
           \/ sessions'[i].user_logged_in = sessions[i].user_logged_in
           \/ ~sessions[i].user_logged_in
           \/ local[t].call.op = "C_Logout"
    PROVE  Mild(t)
<1>1. \A j \in Idx : sessions'[j].handle = sessions[j].handle
  OBVIOUS
<1>2. \A j \in Idx : \/ sessions'[j] = sessions[j] /\ find'[j] = find[j] /\ operation'[j] = operation[j]
                     \/ session_lock[j] = t
  OBVIOUS
<1>3. \A j \in Idx : sessions[j].user_logged_in =>
         sessions'[j].user_logged_in \/ local[t].call.op = "C_Logout"
  OBVIOUS
<1> QED BY <1>1, <1>2, <1>3 DEF Mild

LEMMA FindMild ==
    ASSUME StateInv, NEW t, NEW i \in Idx, session_lock[i] = t, NEW f, NEW code,
           SetFind(i, f, code), UNCHANGED <<slots, half>>
    PROVE  Mild(t)
<1>1. find = [j \in Idx |-> find[j]]
  BY DEF StateInv
<1>2. /\ find' = [find EXCEPT ![i] = f]
      /\ UNCHANGED <<initialized, sessions, operation, objects, counter>>
  BY DEF SetFind, Done, sessionVars, tableVars
<1>3. \A j \in Idx : j # i => find'[j] = find[j]
  BY <1>1, <1>2
<1> QED BY <1>2, <1>3, OwnSessionMild

LEMMA OperationMild ==
    ASSUME StateInv, NEW t, NEW i \in Idx, session_lock[i] = t, NEW o, NEW code,
           SetOperation(i, o, code), UNCHANGED <<slots, half>>
    PROVE  Mild(t)
<1>1. operation = [j \in Idx |-> operation[j]]
  BY DEF StateInv, ObjectTableInv, ObjectData
<1>2. /\ operation' = [operation EXCEPT ![i] = o]
      /\ UNCHANGED <<initialized, sessions, find, objects, counter>>
  BY DEF SetOperation, Done, sessionVars, tableVars
<1>3. \A j \in Idx : j # i => operation'[j] = operation[j]
  BY <1>1, <1>2
<1> QED BY <1>2, <1>3, OwnSessionMild

LEMMA RefuseMild == ASSUME NEW t, NEW code, Refuse(code), UNCHANGED <<slots, half>> PROVE Mild(t)
<1>1. UNCHANGED <<initialized, sessions, operation, find, objects, counter>>
  BY DEF Refuse, Return, sessionVars, objectVars, tableVars
<1> QED BY <1>1, StillMild

\* A label is not a handle.
LEMMA LabelMild ==
    ASSUME StateInv, NEW t, local[t].call.op = "C_SetAttributeValue",
           NEW k \in ObjIdx, NEW label, SetLabel(k, label), UNCHANGED <<slots, half>>
    PROVE  Mild(t)
<1>1. objects \in [ObjIdx -> Object] /\ objects' = [objects EXCEPT ![k].label = label]
  BY DEF StateInv, ObjectTableInv, ObjectData, SetLabel
<1>2. \A j \in ObjIdx : objects'[j].handle = objects[j].handle
  <2>1. objects[k] \in Object
    BY <1>1
  <2>2. objects'[k].handle = objects[k].handle
    BY <1>1, <2>1 DEF Object
  <2> QED BY <1>1, <2>2
<1>3. UNCHANGED <<initialized, sessions, operation, find, counter>>
  BY DEF SetLabel, Done, sessionVars
<1> QED BY <1>2, <1>3 DEF Mild

LEMMA WorkAdvances == ASSUME CallInv, NEW t \in Threads, Work(t) PROVE Advances(t)
<1> DEFINE c == local[t].call
           i == local[t].entry
<1>1. /\ pc[t] = "work" /\ WholeOn(i, c) /\ Leave(t) /\ UNCHANGED <<slots, global_lock, freed, half>>
      /\ c.op \in SessionUsers \ (TableCalls \cup AttributeCalls \cup Decides)
  BY Here DEF Work, CallInv, Fits, CallOf, Entry
<1>2. c.op # "C_GenerateRandom" => session_lock[i] = t
  BY <1>1, Here DEF CallInv, Under, Locals
<1>3. i \in Idx /\ StateInv
  BY Here DEF CallInv, Locals
<1>4. Mild(t)
  <2>1. CASE c.op = "C_GenerateRandom"
    BY <1>1, <2>1, RefuseMild DEF WholeOn, C_GenerateRandom
  <2>2. CASE c.op = "C_GetSessionInfo"
    BY <1>1, <2>2, RefuseMild DEF WholeOn
  <2>3. CASE c.op = "C_FindObjects"
    BY <1>1, <1>2, <1>3, <2>3, RefuseMild, FindMild DEF WholeOn, C_FindObjects
  <2>4. CASE c.op = "C_FindObjectsFinal"
    BY <1>1, <1>2, <1>3, <2>4, RefuseMild, FindMild DEF WholeOn, C_FindObjectsFinal
  <2>5. CASE c.op = "C_Logout"
    <3>1. LogoutOn(i) /\ UNCHANGED objectVars
      BY <1>1, <2>5 DEF WholeOn
    <3>2. CASE Return("CKR_USER_NOT_LOGGED_IN")
      BY <1>1, <3>1, <3>2, RefuseMild DEF Refuse
    <3>3. CASE LogoutNow(i)
      <4>1. /\ \A j \in Idx : sessions'[j].handle = sessions[j].handle
            /\ \A j \in Idx : j # i => sessions'[j] = sessions[j]
            /\ UNCHANGED <<initialized, find, operation, objects, counter, slots, half>>
        BY <1>1, <1>3, <3>1, <3>3, LogsKeepHandles DEF objectVars, tableVars
      <4> QED BY <1>2, <1>3, <2>5, <4>1, OwnSessionMild
    <3> QED BY <3>1, <3>2, <3>3 DEF LogoutOn
  <2>6. c.op \in {"C_GenerateRandom", "C_GetSessionInfo", "C_FindObjects", "C_FindObjectsFinal",
                  "C_Logout"}
    BY <1>1 DEF SessionUsers, Decides
  <2> QED BY <2>1, <2>2, <2>3, <2>4, <2>5, <2>6
<1>5. Whole(c)
  BY <1>1, OnItsSession
<1> QED BY <1>1, <1>4, <1>5, CallEnds DEF CallInv, Over

\* With what it has seen of its session, the call does with the object, or
\* without one, what the whole does.
LEMMA WithObjectIsWhole ==
    ASSUME NEW i \in Idx, NEW c, c.op \in KeyCalls \cup AttributeCalls,
           NEW k \in ObjIdx, Finds(k, KeyOf(i, c)), WithObject(i, c, objects[k]),
           c.op \in KeyCalls => Decided(c, sessions[i], find[i], operation[i])
    PROVE  WholeOn(i, c)
<1>1. CASE c.op = "C_SignInit"
  BY <1>1 DEF KeyCalls, Decided, KeyOf, WithObject, WholeOn, C_SignInit
<1>2. CASE c.op = "C_VerifyInit"
  BY <1>2 DEF KeyCalls, Decided, KeyOf, WithObject, WholeOn, C_VerifyInit
<1>3. CASE c.op = "C_Sign"
  BY <1>3 DEF KeyCalls, Decided, KeyOf, WithObject, WholeOn, C_Sign, UseKey, EndOperation
<1>4. CASE c.op = "C_Verify"
  BY <1>4 DEF KeyCalls, Decided, KeyOf, WithObject, WholeOn, C_Verify, UseKey, EndOperation
<1>5. CASE c.op \in AttributeCalls
  <2>1. Known(c.object)
    BY <1>5 DEF KeyOf, AttributeCalls, Known, Finds
  <2> QED BY <1>5, <2>1
          DEF WithObject, AttributeCalls, WholeOn, C_GetAttributeValue, C_SetAttributeValue
<1> QED BY <1>1, <1>2, <1>3, <1>4, <1>5 DEF KeyCalls

LEMMA WithoutObjectIsWhole ==
    ASSUME NEW i \in Idx, NEW c, c.op \in KeyCalls \cup AttributeCalls,
           ~Known(KeyOf(i, c)), WithoutObject(i, c),
           c.op \in KeyCalls => Decided(c, sessions[i], find[i], operation[i])
    PROVE  WholeOn(i, c)
<1>1. CASE c.op \in {"C_SignInit", "C_VerifyInit"}
  BY <1>1 DEF KeyCalls, Decided, KeyOf, WithoutObject, WholeOn, C_SignInit, C_VerifyInit
<1>2. CASE c.op = "C_Sign"
  BY <1>2 DEF KeyCalls, Decided, KeyOf, WithoutObject, WholeOn, C_Sign, UseKey, EndOperation
<1>3. CASE c.op = "C_Verify"
  BY <1>3 DEF KeyCalls, Decided, KeyOf, WithoutObject, WholeOn, C_Verify, UseKey, EndOperation
<1>4. CASE c.op \in AttributeCalls
  BY <1>4 DEF KeyOf, WithoutObject, AttributeCalls, WholeOn, C_GetAttributeValue, C_SetAttributeValue
<1> QED BY <1>1, <1>2, <1>3, <1>4 DEF KeyCalls

LEMMA WithObjectMild ==
    ASSUME StateInv, NEW t, NEW i \in Idx, NEW c, c.op \in KeyCalls \cup AttributeCalls, NEW o,
           c.op \in KeyCalls => session_lock[i] = t,
           WithObject(i, c, o) \/ WithoutObject(i, c), UNCHANGED <<slots, half>>
    PROVE  Mild(t)
<1>1. ASSUME NEW p, NEW code, SetOperation(i, p, code), c.op \in KeyCalls PROVE Mild(t)
  BY <1>1, OperationMild
<1>2. ASSUME NEW code, Refuse(code) PROVE Mild(t)
  BY <1>2, RefuseMild
<1>3. WithoutObject(i, c) => Mild(t)
  BY <1>1, <1>2 DEF WithoutObject, LoseKey, KeyCalls
<1>4. c.op = "C_SignInit" /\ BeginSign(i, c.object, o, c.mechanism) => Mild(t)
  BY <1>1, <1>2 DEF BeginSign, BeginOperation, KeyCalls
<1>5. c.op = "C_VerifyInit" /\ BeginVerify(i, c.object, o, c.mechanism) => Mild(t)
  BY <1>1, <1>2 DEF BeginVerify, BeginOperation, KeyCalls
<1>6. ASSUME NEW type, EndWith(i, type, o), c.op \in KeyCalls PROVE Mild(t)
  BY <1>1, <1>6 DEF EndWith
<1>7. AttributeRead \/ (\E code \in AttributeSet : Refuse(code)) => Mild(t)
  BY <1>2 DEF AttributeRead
<1> QED BY <1>3, <1>4, <1>5, <1>6, <1>7 DEF WithObject, KeyCalls

\* What a call of KeyCalls or AttributeCalls has at hand when it looks its
\* object up or uses it.
LEMMA AtItsObject ==
    ASSUME CallInv, NEW t \in Threads, pc[t] \in {"lookup", "use"}
    PROVE  /\ local[t].call.op \in KeyCalls \cup AttributeCalls /\ local[t].entry \in Idx
           /\ local[t].call.op \in KeyCalls =>
                /\ session_lock[local[t].entry] = t
                /\ Decided(local[t].call, sessions[local[t].entry], find[local[t].entry],
                           operation[local[t].entry])
           /\ WholeOn(local[t].entry, local[t].call) => Whole(local[t].call)
<1> DEFINE c == local[t].call
           i == local[t].entry
<1>1. /\ c.op \in KeyCalls \cup AttributeCalls /\ i \in Idx
      /\ c.op \in KeyCalls => session_lock[i] = t
  BY Here DEF CallInv, Fits, Locals, Under
<1>2. c.op \in SessionUsers /\ (c.op \in KeyCalls => HasDecided(pc[t], c.op))
  BY <1>1 DEF SessionUsers, HasDecided, Decides
<1> QED BY <1>1, <1>2, OnItsSession

LEMMA LookupAdvances ==
    ASSUME Discipline \subseteq Apart, CallInv, NEW t \in Threads, Lookup(t) PROVE Advances(t)
<1> DEFINE c == local[t].call
           i == local[t].entry
           h == KeyOf(i, c)
<1>1. pc[t] = "lookup" /\ c.op \in KeyCalls \cup AttributeCalls /\ Locals(local[t])
  BY Here DEF Lookup, CallInv, Fits
<1>2. CASE Holding(h) = {} /\ WithoutObject(i, c) /\ Leave(t)
           /\ UNCHANGED <<slots, global_lock, freed, half>>
  <2>1. ~Known(h)
    BY <1>2, WholeObjects DEF Known, Holding, InUse
  <2>2. Whole(c)
    BY <1>1, <1>2, <2>1, AtItsObject, WithoutObjectIsWhole
  <2>3. Mild(t)
    BY <1>1, <1>2, AtItsObject, WithObjectMild DEF CallInv
  <2> QED BY <1>1, <1>2, <2>2, <2>3, CallEnds DEF CallInv, Over
<1>3. ASSUME NEW k \in ObjIdx, First(k, Holding(h)),
             local' = [local EXCEPT ![t].item = k, ![t].handle = h],
             Go(t, "use"), UNCHANGED <<allVars, slots, lockVars, global_lock, freed, half>>
      PROVE  Advances(t)
  <2>1. pc'[t] = "use"
    BY <1>3, Gone DEF CallInv
  <2>2. k \in Holding(h)
    BY <1>3 DEF First
  <2>3. Table[k] = objects[k]
    <3>1. CASE c.op \in {"C_SignInit", "C_VerifyInit"} \cup AttributeCalls
      BY <1>1, <3>1, NoHalfSeen
    <3>2. CASE c.op \in {"C_Sign", "C_Verify"}
      <4>1. operation[i].active /\ i \in Idx /\ h = operation[i].key_handle
        BY <1>1, <3>2, AtItsObject DEF Decided, KeyCalls, KeyOf
      <4>2. h \in Issued
        BY <4>1 DEF CallInv, StateInv, OperationInv, OperationsNamed
      <4> HIDE DEF h
      <4> QED BY <2>2, <4>2, KeyIsWhole
    <3> QED BY <1>1, <3>1, <3>2 DEF KeyCalls
  <2> HIDE DEF h
  <2>4. objects[k].handle = h /\ h # 0
    BY <2>2, <2>3, ObjectEntries DEF Holding, InUse, CallInv, StateInv
  <2>5. local'[t] = [local[t] EXCEPT !.item = k, !.handle = h]
    BY <1>3, Here DEF CallInv
  <2>6. /\ local'[t].call = c /\ local'[t].entry = i
        /\ local'[t].item = k /\ local'[t].handle = h
    BY <1>1, <2>5 DEF Locals
  <2>7. c.op \in SessionUsers /\ (HasDecided("use", c.op) => HasDecided("lookup", c.op))
    BY <1>1 DEF SessionUsers, HasDecided
  <2> HIDE DEF c, i
  <2>8. KnowsAs("use", local'[t])
    BY <1>1, <2>4, <2>6, <2>7, OnItsSession DEF KnowsAs, ObjectOf, c, i, h
  <2> QED BY <1>1, <1>3, <2>1, <2>8, CallGoesOn DEF Over
<1> QED BY <1>2, <1>3 DEF Lookup, Entry, CallOf

LEMMA UseAdvances ==
    ASSUME Discipline \subseteq Apart, CallInv, NEW t \in Threads, Use(t) PROVE Advances(t)
<1> DEFINE c == local[t].call
           i == local[t].entry
           k == local[t].item
<1>1. /\ pc[t] = "use" /\ Leave(t) /\ UNCHANGED <<slots, global_lock, freed>>
      /\ \/ WithObject(i, c, Table[k]) /\ half' = half
         \/ c.op = "C_SetAttributeValue" /\ WriteLabel(k, c.label)
  BY DEF Use, CallOf, Entry
<1>2. k \in ObjIdx /\ objects[k].handle = KeyOf(i, c) /\ objects[k].handle # 0
  BY <1>1 DEF CallInv, Knows, KnowsAs, HasObject, ObjectOf
<1>3. Finds(k, KeyOf(i, c)) /\ Table[k] = objects[k]
  BY <1>2, ObjectEntries, WholeObjects DEF CallInv, StateInv
<1>4. c.op = "C_SetAttributeValue" => half = NoHalf /\ KeyOf(i, c) = c.object
  BY <1>1, NoHalfSeen DEF AttributeCalls, KeyOf
<1>5. CASE WithObject(i, c, objects[k]) /\ half' = half
  <2>1. Whole(c)
    BY <1>1, <1>2, <1>3, <1>5, AtItsObject, WithObjectIsWhole
  <2>2. Mild(t)
    BY <1>1, <1>5, AtItsObject, WithObjectMild DEF CallInv
  <2> QED BY <1>1, <1>5, <2>1, <2>2, CallEnds DEF CallInv, Over
<1>6. CASE c.op = "C_SetAttributeValue" /\ SetLabel(k, c.label) /\ half' = half
  <2>1. WholeOn(i, c)
    BY <1>2, <1>3, <1>4, <1>6 DEF WholeOn, C_SetAttributeValue
  <2>2. Whole(c)
    BY <1>1, <2>1, AtItsObject
  <2>3. Mild(t)
    BY <1>1, <1>2, <1>6, LabelMild DEF CallInv
  <2> QED BY <1>1, <1>6, <2>2, <2>3, CallEnds DEF CallInv, Over
<1>7. c.op = "C_SetAttributeValue" /\ WriteLabel(k, c.label) => SetLabel(k, c.label) /\ half' = half
  BY <1>4 DEF WriteLabel, NoHalf
<1> QED BY <1>1, <1>3, <1>5, <1>6, <1>7

LEMMA ScanAdvances ==
    ASSUME Discipline \subseteq Apart, CallInv, NEW t \in Threads, Scan(t) PROVE Advances(t)
<1> DEFINE c == local[t].call
           i == local[t].entry
<1>1. /\ pc[t] = "scan" /\ c.op = "C_FindObjectsInit" /\ Locals(local[t])
      /\ i \in Idx /\ session_lock[i] = t
  BY Here DEF Scan, CallInv, Fits, Locals, Under
<1>2. PICK n \in 0 .. HSM_MAX_OBJECTS : local[t].item = n /\ local[t].seen = Collected(n)
  BY <1>1 DEF CallInv, Knows, KnowsAs
<1>3. c.op \in SessionUsers /\ HasDecided("scan", c.op)
  BY <1>1 DEF SessionUsers, HasDecided, Decides
<1>4. n \in Nat /\ HSM_MAX_OBJECTS \in Nat
  BY ObjectSizes
<1>7. n < HSM_MAX_OBJECTS => Table[n] = objects[n] /\ (objects[n] # NoObject <=> n \in InUse)
  <2>1. n < HSM_MAX_OBJECTS => n \in ObjIdx
    BY <1>4 DEF ObjIdx
  <2> QED BY <1>1, <2>1, NoHalfSeen DEF InUse
<1>5. ASSUME n < HSM_MAX_OBJECTS, UNCHANGED <<allVars, pc, slots, lockVars, global_lock, freed, half>>,
             local' = [local EXCEPT ![t].item = n + 1, ![t].seen =
                    IF n \in InUse /\ Len(Collected(n)) < HSM_MAX_FIND_OBJECTS
                    THEN Append(Collected(n), objects[n].handle) ELSE Collected(n)]
      PROVE  Advances(t)
  <2>1. local' = [local EXCEPT ![t].item = n + 1, ![t].seen = Collected(n + 1)]
    BY <1>4, <1>5, CollectedNext
  <2>2. local'[t] = [local[t] EXCEPT !.item = n + 1, !.seen = Collected(n + 1)]
    BY <2>1, Here DEF CallInv
  <2>3. /\ local'[t].call = c /\ local'[t].entry = i
        /\ local'[t].item = n + 1 /\ local'[t].seen = Collected(n + 1)
    BY <1>1, <2>2 DEF Locals
  <2>4. n + 1 \in 0 .. HSM_MAX_OBJECTS
    BY <1>4, <1>5
  <2> HIDE DEF c, i
  <2>5. KnowsAs("scan", local'[t])
    BY <1>1, <1>3, <2>3, <2>4, OnItsSession DEF KnowsAs, HasObject, c, i
  <2>6. pc'[t] = "scan"
    BY <1>1, <1>5
  <2> QED BY <1>1, <1>5, <2>5, <2>6, CallGoesOn DEF Over
<1>6. ASSUME n = HSM_MAX_OBJECTS, Leave(t), UNCHANGED <<slots, global_lock, freed, half>>,
             SetFind(i, [active |-> TRUE, results |-> Collected(n), index |-> 0], "CKR_OK")
      PROVE  Advances(t)
  <2>1. ~find[i].active
    BY <1>1, <1>3, OnItsSession DEF Decided
  <2>2. WholeOn(i, c)
    BY <1>1, <1>6, <2>1 DEF WholeOn, C_FindObjectsInit, hsm_find_objects
  <2>3. Whole(c)
    BY <1>1, <1>3, <2>2, OnItsSession
  <2>4. Mild(t)
    BY <1>1, <1>6, FindMild DEF CallInv
  <2> QED BY <1>1, <1>6, <2>3, <2>4, CallEnds DEF CallInv, Over
<1> QED BY <1>2, <1>5, <1>6, <1>7 DEF Scan, Entry
-----------------------------------------------------------------------------
(* What the calls do under slot->lock.                                     *)

\* Nothing of the sessions or the objects.
LEMMA SlotMild ==
    ASSUME NEW t, UNCHANGED <<initialized, slots, half, sessionVars, objectVars>> PROVE Mild(t)
  BY StillMild DEF sessionVars, objectVars, tableVars

\* Objects appear in unused entries.
LEMMA PlacedMild ==
    ASSUME StateInv, NEW t, local[t].call.op \in {"C_CreateObject", "C_GenerateKeyPair"},
           slot_lock = t,
           \A k \in InUse : objects'[k] = objects[k],
           UNCHANGED <<initialized, slots, sessions, operation, find>>
    PROVE  Mild(t)
<1>1. \A k \in ObjIdx : k \notin InUse => objects[k].handle = 0
  BY NoObjectType DEF InUse
<1> QED BY <1>1 DEF Mild

\* A session is opened in a free entry.
LEMMA OpenedMild ==
    ASSUME StateInv, NEW t, NEW i \in Idx, NEW rw, OpenNow(i, rw), OperationsFollow,
           UNCHANGED <<slots, objects, counter, half>>
    PROVE  Mild(t)
<1>1. sessions \in [Idx -> Session]
  BY DEF StateInv, TableInv, DataOK
<1>2. sessions[i].handle = 0 /\ ~sessions[i].user_logged_in
  BY DEF OpenNow, Free, Open, NoSession
<1>3. \A j \in Idx : j # i => sessions'[j] = sessions[j]
  BY <1>1 DEF OpenNow
<1>4. \A j \in Idx : j # i => find'[j] = find[j] /\ operation'[j] = operation[j]
  BY <1>3 DEF OperationsFollow
<1>5. initialized' = initialized
  BY DEF OpenNow
<1> QED BY <1>2, <1>3, <1>4, <1>5 DEF Mild

\* Login, and the PINs.
LEMMA PinBody ==
    ASSUME CallInv, NEW t \in Threads, pc[t] = "body", local[t].call.op \in PinCalls,
           SlotWork(local[t].entry, local[t].call), UNCHANGED <<slots, half>>
    PROVE  Whole(local[t].call) /\ Mild(t)
<1> DEFINE c == local[t].call
           i == local[t].entry
<1>1. c.op \in SessionUsers /\ HasDecided("body", c.op) /\ Under("body", c.op)
  BY DEF SessionUsers, HasDecided, Decides, Under
<1>2. i \in Idx /\ session_lock[i] = t /\ StateInv
  BY <1>1, Here DEF CallInv, Locals
<1>3. Decided(c, sessions[i], find[i], operation[i]) /\ (WholeOn(i, c) => Whole(c))
  BY <1>1, OnItsSession
<1>4. CASE c.op = "C_Login"
  <2>1. WithPin(c.user, c.pin, LoginNow(i, c.user)) /\ UNCHANGED objectVars
    BY <1>4 DEF SlotWork
  <2>2. LoginError(i, c.user) = PinUsable(c.user) /\ ~sessions[i].user_logged_in
    BY <1>3, <1>4 DEF Decided, LoginError, LoggedIn
  <2>3. LoginOn(i, c.user, c.pin)
    BY <2>1, <2>2 DEF WithPin, LoginOn
  <2>4. ASSUME LoginNow(i, c.user) PROVE Mild(t)
    <3>1. /\ \A j \in Idx : sessions'[j].handle = sessions[j].handle
          /\ \A j \in Idx : j # i => sessions'[j] = sessions[j]
          /\ UNCHANGED <<initialized, find, operation, objects, counter, slots, half>>
      BY <1>2, <2>1, <2>4, LogsKeepHandles DEF objectVars, tableVars
    <3> QED BY <1>2, <2>2, <3>1, OwnSessionMild
  <2>5. ASSUME Return(PinUsable(c.user)) PROVE Mild(t)
    BY <2>1, <2>5, SlotMild DEF Return
  <2>6. ASSUME WrongPin(c.user) PROVE Mild(t)
    BY <2>1, <2>6, SlotMild DEF WrongPin
  <2>7. Mild(t)
    BY <2>1, <2>4, <2>5, <2>6 DEF WithPin
  <2> QED BY <1>3, <1>4, <2>1, <2>3, <2>7 DEF WholeOn
<1>5. CASE c.op = "C_InitPIN"
  <2>1. InitPinNow(c.pin) /\ UNCHANGED objectVars
    BY <1>5 DEF SlotWork
  <2>2. Mild(t)
    BY <2>1, SlotMild DEF InitPinNow
  <2>3. InitPinOn(i, c.pin)
    BY <1>3, <1>5, <2>1 DEF Decided, InitPinOn
  <2> QED BY <1>3, <1>5, <2>1, <2>2, <2>3 DEF WholeOn
<1>6. CASE c.op = "C_SetPIN"
  <2>1. /\ WithPin(LoginType(i), c.pin, SetPinNow(LoginType(i), c.new))
        /\ UNCHANGED objectVars
    BY <1>6 DEF SlotWork
  <2>2. SetPinError(i) = PinUsable(LoginType(i))
    BY <1>3, <1>6 DEF Decided, SetPinError, LoggedIn
  <2>3. SetPinOn(i, c.pin, c.new)
    BY <2>1, <2>2 DEF WithPin, SetPinOn
  <2>4. UNCHANGED <<initialized, sessionVars>>
    BY <2>1 DEF WithPin, Return, WrongPin, SetPinNow
  <2>5. Mild(t)
    BY <2>1, <2>4, SlotMild
  <2> QED BY <1>3, <1>6, <2>1, <2>3, <2>5 DEF WholeOn
<1> QED BY <1>4, <1>5, <1>6 DEF PinCalls

\* Opening sessions, refusing to close them, and the token.
LEMMA SlotBody ==
    ASSUME CallInv, NEW t \in Threads, pc[t] = "body", local[t].call.op \in SlotCalls,
           SlotWork(local[t].entry, local[t].call), UNCHANGED <<slots, half>>
    PROVE  Whole(local[t].call) /\ Mild(t)
<1> DEFINE c == local[t].call
<1>1. Inside("body", c.op)
  BY DEF Inside, SlotCalls, LibraryCalls
<1>2. initialized /\ c \in Calls
  BY <1>1 DEF CallInv, Knows, KnowsAs
<1>3. StateInv
  BY DEF CallInv
<1>4. CASE c.op = "C_OpenSession"
  <2>1. OnSessions(C_OpenSession(c.rw))
    BY <1>4 DEF SlotWork
  <2>2. C_OpenSession(c.rw) /\ OperationsFollow /\ UNCHANGED <<tableVars, key_files>>
    BY <2>1 DEF OnSessions
  <2>3. ASSUME NEW i \in Idx, OpenNow(i, c.rw) PROVE Mild(t)
    BY <1>3, <2>2, <2>3, OpenedMild DEF tableVars
  <2>4. ASSUME UNCHANGED <<initialized, sessionVars>> PROVE Mild(t)
    <3>1. /\ operation = [i \in Idx |-> operation[i]] /\ find = [i \in Idx |-> find[i]]
          /\ sessions' = sessions
      BY <1>3, <2>4 DEF StateInv, ObjectTableInv, ObjectData, sessionVars
    <3>2. UNCHANGED <<operation, find>>
      BY <2>2, <3>1 DEF OperationsFollow
    <3> QED BY <2>2, <2>4, <3>2, SlotMild DEF objectVars
  <2>5. Mild(t)
    BY <2>2, <2>3, <2>4 DEF C_OpenSession, Return
  <2> QED BY <1>4, <2>1, <2>5 DEF Whole
<1>5. CASE c.op = "C_CloseSession"
  <2>1. /\ \A j \in Open : sessions[j].handle # c.h
        /\ Return("CKR_SESSION_HANDLE_INVALID") /\ UNCHANGED objectVars
    BY <1>5 DEF SlotWork, Refuse
  <2>2. OperationsFollow /\ UNCHANGED <<tableVars, key_files>> /\ Mild(t)
    BY <1>3, <2>1, QuietOnSessions, SlotMild DEF Return, sessionVars
  <2>3. C_CloseSession(c.h)
    BY <1>2, <2>1 DEF C_CloseSession, hsm_get_session
  <2> QED BY <1>5, <2>2, <2>3 DEF Whole, OnSessions
<1>6. CASE c.op = "C_CloseAllSessions"
  <2>1. Open = {} /\ Return("CKR_OK") /\ UNCHANGED objectVars
    BY <1>6 DEF SlotWork, Refuse
  <2>2. OperationsFollow /\ UNCHANGED <<tableVars, key_files>> /\ Mild(t)
    BY <1>3, <2>1, QuietOnSessions, SlotMild DEF Return, sessionVars
  <2> QED BY <1>2, <1>6, <2>1, <2>2 DEF Whole, OnSessions, C_CloseAllSessions
<1>7. CASE c.op = "C_InitToken"
  <2>1. Open = {} /\ InitTokenNow(c.pin) /\ UNCHANGED objectVars
    BY <1>7 DEF SlotWork
  <2>2. Mild(t)
    BY <2>1, SlotMild DEF InitTokenNow
  <2>3. PinLengthOK(c.pin)
    BY <1>2, <1>7, ArgumentsAssumption
  <2> QED BY <1>2, <1>7, <2>1, <2>2, <2>3 DEF Whole, C_InitToken
<1> QED BY <1>4, <1>5, <1>6, <1>7 DEF SlotCalls

\* Refusals of objects and of key pairs.
LEMMA TableBody ==
    ASSUME CallInv, NEW t \in Threads, pc[t] = "body",
           local[t].call.op \in TableCalls \cup {"C_GenerateKeyPair"},
           SlotWork(local[t].entry, local[t].call), UNCHANGED <<slots, half>>
    PROVE  Whole(local[t].call) /\ Mild(t)
<1> DEFINE c == local[t].call
           i == local[t].entry
<1>1. c.op \in SessionUsers /\ i \in Idx /\ StateInv
  BY Here DEF SessionUsers, CallInv, Locals
<1>2. WholeOn(i, c) => Whole(c)
  BY <1>1, OnItsSession
<1>3. CASE c.op = "C_CreateObject"
  <2>1. Refuse("CKR_HOST_MEMORY")
    BY <1>3 DEF SlotWork
  <2> QED BY <1>2, <1>3, <2>1, RefuseMild DEF WholeOn, C_CreateObject
<1>4. CASE c.op = "C_DestroyObject"
  <2>1. ~Known(c.object) /\ Refuse("CKR_OBJECT_HANDLE_INVALID")
    BY <1>4 DEF SlotWork
  <2> QED BY <1>2, <1>4, <2>1, RefuseMild DEF WholeOn, C_DestroyObject
<1>5. CASE c.op = "C_GenerateKeyPair"
  <2>1. Cardinality(Unused) < 2 /\ Refuse("CKR_HOST_MEMORY")
    BY <1>5 DEF SlotWork
  <2>2. HasDecided("body", c.op)
    BY <1>5 DEF HasDecided, Decides
  <2>3. sessions[i].user_logged_in
    BY <1>1, <1>5, <2>2, OnItsSession DEF Decided
  <2>4. WholeOn(i, c)
    BY <1>5, <2>1, <2>3 DEF WholeOn, C_GenerateKeyPair, PlaceKeys
  <2> QED BY <1>2, <2>1, <2>4, RefuseMild
<1> QED BY <1>3, <1>4, <1>5 DEF TableCalls

\* The public key is stored: nothing yet, to HsmObjects.
LEMMA FirstKeyAdvances ==
    ASSUME CallInv, NEW t \in Threads, pc[t] = "body", FirstKey(t) PROVE Advances(t)
<1> DEFINE c == local[t].call
           i == local[t].entry
<1>1. /\ c.op = "C_GenerateKeyPair" /\ c.mechanism \in DOMAIN KeyPairGen
      /\ counter < MaxObject /\ Cardinality(Unused) >= 2
      /\ Go(t, "pair") /\ UNCHANGED <<allVars, slots, lockVars, global_lock, freed>>
  BY DEF FirstKey, CallOf
<1>2. /\ c.op \in SessionUsers /\ HasDecided("body", c.op) /\ slot_lock = t
      /\ Locals(local[t]) /\ pc'[t] = "pair"
  BY <1>1, Here, Gone DEF SessionUsers, HasDecided, Decides, CallInv, UnderSlotLock
<1>3. PICK k \in ObjIdx : /\ First(k, Unused) /\ local' = [local EXCEPT ![t].item = k]
                          /\ half' = [j \in {k} |-> PublicKey(c.pub, KeyPairGen[c.mechanism])]
  BY DEF FirstKey, CallOf
<1>4. local'[t] = [local[t] EXCEPT !.item = k]
  BY <1>3, Here DEF CallInv
<1>5. local'[t].call = c /\ local'[t].entry = i /\ local'[t].item = k
  BY <1>2, <1>4 DEF Locals
<1>6. UNCHANGED <<initialized, slots, sessions, operation, find, objects, counter>>
  BY <1>1 DEF allVars, vars, objectVars, tableVars, sessionVars
<1>7. HalfStored(local[t])'
  BY <1>1, <1>3, <1>5, <1>6
     DEF HalfStored, Unused, InUse, First, PublicKey, hsm_generate_object_handle
<1>8. Mild(t)
  BY <1>1, <1>2, <1>6 DEF Mild
<1>9. TakesEffect(t)
  BY <1>1, <1>2 DEF TakesEffect, Over
<1>10. /\ initialized /\ slots /\ c \in Calls /\ sessions[i].handle = c.h /\ c.h # 0
       /\ Decided(c, sessions[i], find[i], operation[i])
  BY <1>2, OnItsSession
<1>11. ~HasObject("pair", c.op)
  BY DEF HasObject
<1> HIDE DEF c, i
<1>12. Knows(t)'
  BY <1>2, <1>5, <1>6, <1>7, <1>10, <1>11 DEF Knows, KnowsAs
<1> QED BY <1>1, <1>2, <1>8, <1>9, <1>12 DEF Advances, FreedOK, HalfOK

\* The second key makes it the whole call.
LEMMA SecondKeyAdvances == ASSUME CallInv, NEW t \in Threads, SecondKey(t) PROVE Advances(t)
<1> DEFINE c == local[t].call
           i == local[t].entry
           pub == PublicKey(c.pub, KeyPairGen[c.mechanism])
           priv == PrivateKey(c.priv, KeyPairGen[c.mechanism])
<1>1. /\ pc[t] = "pair" /\ Leave(t) /\ UNCHANGED <<slots, global_lock, freed>>
      /\ half' = NoHalf /\ AddPair(half[local[t].item], priv)
  BY DEF SecondKey, CallOf
<1>2. /\ c.op = "C_GenerateKeyPair" /\ slot_lock = t /\ HalfStored(local[t]) /\ StateInv
  BY <1>1, Here DEF CallInv, Fits, UnderSlotLock, Knows, KnowsAs
<1>3. c.op \in SessionUsers /\ HasDecided("pair", c.op)
  BY <1>2 DEF SessionUsers, HasDecided, Decides
<1>4. sessions[i].user_logged_in /\ (WholeOn(i, c) => Whole(c))
  BY <1>1, <1>2, <1>3, OnItsSession DEF Decided
<1>5. AddPair(pub, priv)
  BY <1>1, <1>2 DEF HalfStored
<1>6. PlaceKeys(c.mechanism, c.pub, c.priv)
  BY <1>2, <1>5 DEF HalfStored, PlaceKeys
<1>7. Whole(c)
  BY <1>2, <1>4, <1>6 DEF WholeOn, C_GenerateKeyPair
<1> HIDE DEF pub, priv
<1>8. Mild(t)
  <2>1. PICK k \in Unused, l \in Unused : objects' = [objects EXCEPT ![k] = pub, ![l] = priv]
    BY <1>5 DEF AddPair, PlacePair
  <2>2. objects \in [ObjIdx -> Object]
    BY <1>2 DEF StateInv, ObjectTableInv, ObjectData
  <2>3. \A j \in InUse : objects'[j] = objects[j]
    BY <2>1, <2>2 DEF Unused, InUse
  <2>4. UNCHANGED <<initialized, sessions, operation, find>>
    BY <1>5 DEF AddPair, PlacePair, Done, sessionVars
  <2> QED BY <1>1, <1>2, <2>3, <2>4, PlacedMild
<1> QED BY <1>1, <1>7, <1>8, CallEnds DEF CallInv, Over

LEMMA SlotWorkAdvances ==
    ASSUME CallInv, NEW t \in Threads, pc[t] = "body", SlotWork(local[t].entry, local[t].call),
           Leave(t), UNCHANGED <<slots, global_lock, freed, half>>
    PROVE  Advances(t)
<1>1. local[t].call.op \in SlotCalls \cup PinCalls \cup TableCalls \cup {"C_GenerateKeyPair"}
  BY Here DEF CallInv, Fits
<1>2. Whole(local[t].call) /\ Mild(t)
  BY <1>1, PinBody, SlotBody, TableBody
<1> QED BY <1>2, CallEnds DEF CallInv, Over

LEMMA RelockAdvances ==
    ASSUME CallInv, NEW t \in Threads, pc[t] = "body", Relock(t) PROVE Advances(t)
<1> DEFINE c == local[t].call
<1>1. /\ c.op \in {"C_CloseAllSessions", "C_InitToken"} /\ Open # {} /\ Hang /\ UNCHANGED objectVars
      /\ local' = local /\ UNCHANGED <<slots, global_lock, freed, half>>
  BY DEF Relock, CallOf
<1>2. pc'[t] = "hang"
  BY Gone DEF Relock, CallInv
<1>3. /\ Inside("body", c.op) /\ c.op \notin SessionUsers \cup Decides
  BY <1>1 DEF Inside, LibraryCalls, SessionUsers, PinCalls, KeyCalls, AttributeCalls, TableCalls,
              Decides
<1>4. initialized /\ slots /\ c \in Calls
  BY <1>3 DEF CallInv, Knows, KnowsAs
<1>5. UNCHANGED <<initialized, sessions, sessionVars>>
  BY <1>1 DEF Hang, sessionVars
<1>6. Mild(t)
  BY <1>1, <1>5, SlotMild
<1>7. ASSUME c.op = "C_CloseAllSessions" PROVE Whole(c)
  <2>1. OperationsFollow /\ UNCHANGED <<tableVars, key_files>>
    BY <1>1, <1>5, QuietOnSessions DEF CallInv
  <2> QED BY <1>1, <1>4, <1>7, <2>1 DEF Whole, OnSessions, C_CloseAllSessions
<1>8. ASSUME c.op = "C_InitToken" PROVE Whole(c)
  <2>1. PinLengthOK(c.pin)
    BY <1>4, <1>8, ArgumentsAssumption
  <2> QED BY <1>1, <1>4, <1>8, <2>1 DEF Whole, C_InitToken
<1>9. TakesEffect(t)
  BY <1>1, <1>2, <1>7, <1>8 DEF TakesEffect, Over
<1>10. Knows(t)'
  BY <1>1, <1>2, <1>3, <1>4, <1>5 DEF Knows, KnowsAs, HasSession, HasDecided, HasObject
<1> QED BY <1>1, <1>6, <1>9, <1>10 DEF Advances, FreedOK, HalfOK

\* A new object's label is its template's.
LEMMA CreatedLabel == ASSUME NEW t PROVE Created(t).label = t.label
  BY DEF Created, hsm_parse_template, NoObject

LEMMA CreateAdvances ==
    ASSUME CallInv, NEW t \in Threads, pc[t] = "body", Create(t) PROVE Advances(t)
<1> DEFINE c == local[t].call
           i == local[t].entry
           o == Created(c.template)
           k == CHOOSE j \in Unused : First(j, Unused)
<1>1. /\ c.op = "C_CreateObject" /\ C_CreateObject(i, c.template) /\ objects' # objects
      /\ local' = [local EXCEPT ![t].item = k, ![t].handle = o.handle]
      /\ Go(t, "save") /\ UNCHANGED <<slots, global_lock, freed, half>>
  BY DEF Create, CallOf, Entry
<1>2. c.op \in SessionUsers /\ Locals(local[t]) /\ StateInv /\ slot_lock = t
  BY <1>1, Here DEF SessionUsers, TableCalls, CallInv, UnderSlotLock
<1>3. /\ initialized /\ slots /\ c \in Calls /\ i \in Idx
      /\ sessions[i].handle = c.h /\ c.h # 0
      /\ WholeOn(i, c) => Whole(c)
  BY <1>2, OnItsSession
<1>4. c.template \in Templates
  BY <1>1, <1>3, ArgumentsAssumption
<1>5. /\ Done("CKR_OK") /\ UNCHANGED <<operation, find>>
      /\ \E j \in Unused : First(j, Unused) /\ objects' = [objects EXCEPT ![j] = o]
  BY <1>1 DEF C_CreateObject, Refuse, objectVars, tableVars
<1>6. First(k, Unused) /\ objects' = [objects EXCEPT ![k] = o]
  <2>1. PICK j \in Unused : First(j, Unused) /\ objects' = [objects EXCEPT ![j] = o]
    BY <1>5
  <2>2. \A a, b \in Unused : First(a, Unused) /\ First(b, Unused) => a = b
    BY ObjectSizes DEF First, Unused
  <2>3. First(k, Unused) /\ k \in Unused
    BY <2>1
  <2> QED BY <2>1, <2>2, <2>3
<1>7. k \in ObjIdx /\ k \notin InUse
  BY <1>6 DEF First, Unused
<1>8. objects \in [ObjIdx -> Object] /\ counter \in Nat \ {0}
  BY <1>2 DEF StateInv, ObjectTableInv, ObjectData
<1>9. o.handle # 0 /\ o.label = c.template.label
  <2>1. o.handle # 0
    BY <1>4, <1>8, CreatedType, HandleNumbers
  <2> QED BY <2>1, CreatedLabel
<1> HIDE DEF k, o
<1>10. objects'[k] = o /\ \A j \in InUse : objects'[j] = objects[j]
  BY <1>6, <1>7, <1>8 DEF InUse
<1>11. UNCHANGED <<initialized, sessions>>
  BY <1>5 DEF Done, sessionVars
<1>12. Mild(t)
  BY <1>1, <1>2, <1>5, <1>10, <1>11, PlacedMild
<1>13. pc'[t] = "save" /\ local'[t] = [local[t] EXCEPT !.item = k, !.handle = o.handle]
  BY <1>1, Gone, Here DEF CallInv
<1>14. /\ local'[t].call = c /\ local'[t].entry = i
       /\ local'[t].item = k /\ local'[t].handle = o.handle
  BY <1>2, <1>13 DEF Locals
<1>15. TakesEffect(t)
  BY <1>1, <1>3, <1>13 DEF TakesEffect, Over, WholeOn
<1>16. ~HasDecided("save", c.op)
  BY <1>1 DEF HasDecided, Decides, PinCalls, KeyCalls
<1> HIDE DEF c, i
<1>17. Knows(t)'
  BY <1>1, <1>3, <1>7, <1>9, <1>10, <1>11, <1>13, <1>14, <1>16 DEF Knows, KnowsAs, ObjectOf
<1> QED BY <1>1, <1>12, <1>13, <1>15, <1>17 DEF Advances, FreedOK, HalfOK

\* The file has the label already: nobody has set another.
LEMMA SaveAdvances == ASSUME CallInv, NEW t \in Threads, Save(t) PROVE Advances(t)
<1> DEFINE c == local[t].call
<1>1. /\ pc[t] = "save" /\ Go(t, "log") /\ local' = local
      /\ UNCHANGED <<vars, tableVars, operation, find, slots, global_lock, freed, half>>
  BY DEF Save
<1>2. c.op = "C_CreateObject" /\ KnowsAs("save", local[t]) /\ pc'[t] = "log"
  BY <1>1, Here, Gone DEF CallInv, Fits, Knows
<1>3. UNCHANGED key_files
  BY <1>2 DEF Save, KnowsAs, CallOf
<1>4. UNCHANGED allVars
  BY <1>1, <1>3 DEF allVars, objectVars
<1>5. KnowsAs("log", local[t])
  BY <1>2 DEF KnowsAs, Inside, HasSession, HasDecided, HasObject, ObjectOf, Decides, PinCalls, KeyCalls
<1> QED BY <1>1, <1>2, <1>4, <1>5, CallGoesOn DEF Over

LEMMA FreeEntryAdvances ==
    ASSUME CallInv, NEW t \in Threads, pc[t] = "body", FreeEntry(t) PROVE Advances(t)
<1> DEFINE c == local[t].call
<1>1. /\ c.op \in {"C_CloseSession", "C_DestroyObject"} /\ Go(t, "clear")
      /\ UNCHANGED <<allVars, slots, global_lock, half>>
  BY DEF FreeEntry, CallOf
<1>2. Locals(local[t]) /\ StateInv /\ Knows(t) /\ pc'[t] = "clear"
  BY <1>1, Here, Gone DEF CallInv
<1>3. initialized /\ slots /\ c \in Calls
  <2>1. Inside("body", c.op)
    BY <1>1 DEF Inside, LibraryCalls
  <2> QED BY <1>2, <2>1 DEF Knows, KnowsAs
<1>4. ~HasDecided("clear", c.op)
  BY <1>1 DEF HasDecided, Decides, PinCalls, KeyCalls
<1>5. UNCHANGED <<initialized, slots, sessions, operation, find, objects, counter, half>>
  BY <1>1 DEF allVars, vars, objectVars, tableVars, sessionVars
<1>6. ASSUME KnowsAs("clear", local'[t]), freed' = freed \cup {FreedBy(local'[t])} PROVE Advances(t)
  <2>1. Mild(t)
    BY <1>5, StillMild
  <2>2. Knows(t)'
    BY <1>1, <1>2, <1>6, Settles
  <2>3. TakesEffect(t)
    BY <1>1, <1>2 DEF TakesEffect, Over
  <2> QED BY <1>1, <1>2, <1>6, <2>1, <2>2, <2>3 DEF Advances, FreedOK, HalfOK
<1>7. ASSUME c.op = "C_CloseSession", NEW i \in Idx, Owns(i, c.h),
             local' = [local EXCEPT ![t].entry = i], freed' = freed \cup {<<"session", i>>}
      PROVE  Advances(t)
  <2>1. local'[t] = [local[t] EXCEPT !.entry = i]
    BY <1>7, Here DEF CallInv
  <2>2. local'[t].call = c /\ local'[t].entry = i
    BY <1>2, <2>1 DEF Locals
  <2>3. sessions[i].handle = c.h /\ c.h # 0
    BY <1>2, <1>7, SessionEntries DEF StateInv
  <2>4. ~HasObject("clear", c.op)
    BY <1>7 DEF HasObject
  <2> HIDE DEF c
  <2>5. KnowsAs("clear", local'[t])
    BY <1>3, <1>4, <2>2, <2>3, <2>4 DEF KnowsAs
  <2>6. FreedBy(local'[t]) = <<"session", i>>
    BY <1>7, <2>2 DEF FreedBy
  <2> QED BY <1>6, <1>7, <2>5, <2>6
<1>8. ASSUME c.op = "C_DestroyObject", NEW k \in ObjIdx, Finds(k, c.object),
             local' = [local EXCEPT ![t].item = k], freed' = freed \cup {<<"object", k>>}
      PROVE  Advances(t)
  <2>1. local'[t] = [local[t] EXCEPT !.item = k]
    BY <1>8, Here DEF CallInv
  <2>2. local'[t].call = c /\ local'[t].entry = local[t].entry /\ local'[t].item = k
    BY <1>2, <2>1 DEF Locals
  <2>3. objects[k].handle = c.object /\ c.object # 0
    BY <1>2, <1>8, ObjectEntries DEF StateInv
  <2>4. c.op \in SessionUsers
    BY <1>8 DEF SessionUsers, TableCalls
  <2>5. sessions[local[t].entry].handle = c.h /\ c.h # 0
    BY <2>4, OnItsSession
  <2> HIDE DEF c
  <2>6. KnowsAs("clear", local'[t])
    BY <1>3, <1>4, <2>2, <2>3, <2>5 DEF KnowsAs, ObjectOf
  <2>7. FreedBy(local'[t]) = <<"object", k>>
    BY <1>8, <2>2 DEF FreedBy
  <2> QED BY <1>6, <1>8, <2>6, <2>7
<1> QED BY <1>7, <1>8 DEF FreeEntry, CallOf

LEMMA ClearAdvances == ASSUME CallInv, NEW t \in Threads, Clear(t) PROVE Advances(t)
<1> DEFINE c == local[t].call
           l == local[t]
<1>1. /\ pc[t] = "clear" /\ Leave(t) /\ UNCHANGED <<slots, global_lock, half>>
      /\ c.op \in {"C_CloseSession", "C_DestroyObject"}
  BY DEF Clear, CallOf
<1>2. /\ StateInv /\ Knows(t) /\ l.entry \in Idx /\ slot_lock = t
      /\ pc'[t] = "idle" /\ local'[t] = NoLocals
  BY <1>1, Here, Left DEF CallInv, Locals, UnderSlotLock
<1>3. Knows(t)'
  BY <1>2, IdleKnows
<1>4. initialized /\ c \in Calls
  <2>1. Inside("clear", c.op)
    BY <1>1 DEF Inside, LibraryCalls
  <2> QED BY <1>1, <1>2, <2>1 DEF Knows, KnowsAs
<1>5. ASSUME freed' = freed \ {FreedBy(l)}, Whole(c), Mild(t) PROVE Advances(t)
  <2>1. TakesEffect(t)
    BY <1>1, <1>2, <1>5 DEF TakesEffect, Over
  <2> QED BY <1>1, <1>3, <1>5, <2>1 DEF Advances, FreedOK, HalfOK
<1>6. ASSUME c.op = "C_CloseSession", OnSessions(CloseNow(l.entry)),
             freed' = freed \ {<<"session", l.entry>>}
      PROVE  Advances(t)
  <2>1. sessions[l.entry].handle = c.h /\ c.h # 0
    BY <1>1, <1>2, <1>6 DEF Knows, KnowsAs, HasSession
  <2>2. Owns(l.entry, c.h)
    BY <1>2, <2>1, SessionEntries DEF StateInv
  <2>3. CloseNow(l.entry) /\ OperationsFollow /\ UNCHANGED <<tableVars, key_files>>
    BY <1>6 DEF OnSessions
  <2>4. Whole(c)
    BY <1>2, <1>4, <1>6, <2>2, <2>3 DEF Whole, OnSessions, C_CloseSession
  <2>5. UNCHANGED <<initialized, slots, objects, counter, half>>
    BY <1>1, <2>3 DEF CloseNow, tableVars
  <2>6. Mild(t)
    BY <1>1, <1>6, <2>5 DEF Mild, ClosesEntry
  <2>7. FreedBy(l) = <<"session", l.entry>>
    BY <1>6 DEF FreedBy
  <2> QED BY <1>5, <1>6, <2>4, <2>6, <2>7
<1>7. ASSUME c.op = "C_DestroyObject", DestroyNow(l.item), freed' = freed \ {<<"object", l.item>>}
      PROVE  Advances(t)
  <2>1. l.item \in ObjIdx /\ objects[l.item].handle = c.object /\ c.object # 0
    BY <1>1, <1>2, <1>7 DEF Knows, KnowsAs, HasObject, ObjectOf
  <2>2. Finds(l.item, c.object)
    BY <1>2, <2>1, ObjectEntries DEF StateInv
  <2>3. c.op \in SessionUsers
    BY <1>7 DEF SessionUsers, TableCalls
  <2>4. WholeOn(l.entry, c)
    BY <1>7, <2>1, <2>2 DEF WholeOn, C_DestroyObject
  <2>5. Whole(c)
    BY <1>1, <2>3, <2>4, OnItsSession
  <2>6. UNCHANGED <<initialized, slots, sessions, operation, find>>
    BY <1>1, <1>7 DEF DestroyNow, Done, sessionVars
  <2>7. Mild(t)
    BY <1>1, <1>2, <1>7, <2>6 DEF Mild, DestroysEntry
  <2>8. FreedBy(l) = <<"object", l.item>>
    BY <1>7 DEF FreedBy
  <2> QED BY <1>5, <1>7, <2>5, <2>7, <2>8
<1> QED BY <1>6, <1>7 DEF Clear, CallOf, Entry

LEMMA LogAdvances == ASSUME CallInv, NEW t \in Threads, Log(t) PROVE Advances(t)
<1>1. /\ pc[t] = "log" /\ Leave(t) /\ UNCHANGED <<allVars, slots, global_lock, freed, half>>
      /\ pc'[t] = "idle" /\ local'[t] = NoLocals
  BY Left DEF Log, CallInv
<1>2. UNCHANGED <<initialized, slots, sessions, operation, find, objects, counter, half>>
  BY <1>1 DEF allVars, vars, objectVars, tableVars, sessionVars
<1>3. Mild(t)
  BY <1>2, StillMild
<1>4. Knows(t)'
  BY <1>1, IdleKnows
<1> QED BY <1>1, <1>3, <1>4 DEF Advances, FreedOK, HalfOK, TakesEffect, Over

\* A step of a call that takes no global_lock.
CallStep(t) ==
    \/ Check(t) \/ FindSession(t) \/ LockSession(t) \/ Decide(t) \/ Work(t)
    \/ Lookup(t) \/ Use(t) \/ Scan(t) \/ Generate(t)
    \/ ReadSlotId(t) \/ LockSlot(t) \/ Body(t) \/ SecondKey(t) \/ Save(t) \/ Clear(t) \/ Log(t)

LEMMA StepAdvances ==
    ASSUME Discipline \subseteq Apart, CallInv, NEW t \in Threads, CallStep(t) PROVE Advances(t)
<1>1. Body(t) => Advances(t)
  BY SlotWorkAdvances, RelockAdvances, CreateAdvances, FirstKeyAdvances, FreeEntryAdvances
     DEF Body, Entry, CallOf
<1> QED BY <1>1, CheckAdvances, FindAdvances, LockSessionAdvances, DecideAdvances, WorkAdvances,
           LookupAdvances, UseAdvances, ScanAdvances, GenerateAdvances, ReadSlotIdAdvances,
           LockSlotAdvances, SecondKeyAdvances, SaveAdvances, ClearAdvances, LogAdvances DEF CallStep
-----------------------------------------------------------------------------
(* The steps, one thread at a time.                                        *)

\* Thread t moves, the others stay; its call is the same or it has left.
OnlyMoves(t) ==
    /\ pc[t] # "idle"
    /\ \A u \in Threads : u # t => pc'[u] = pc[u] /\ local'[u] = local[u]
    /\ pc'[t] = "idle" \/ local'[t].call = local[t].call

LEMMA LeaveMoves ==
    ASSUME LockInv, NEW t \in Threads, Leave(t), pc[t] # "idle" PROVE OnlyMoves(t)
<1>1. pc' = [pc EXCEPT ![t] = "idle"] /\ local' = [local EXCEPT ![t] = NoLocals]
  BY DEF Leave
<1>2. pc'[t] = "idle"
  BY Left
<1> QED BY <1>1, <1>2, Here DEF OnlyMoves, LockInv

LEMMA GoMoves ==
    ASSUME LockInv, NEW t \in Threads, NEW label, Go(t, label), pc[t] # "idle",
           \/ local' = local
           \/ \E i : local' = [local EXCEPT ![t].entry = i]
           \/ \E k : local' = [local EXCEPT ![t].item = k]
           \/ \E k, h : local' = [local EXCEPT ![t].item = k, ![t].handle = h]
    PROVE  OnlyMoves(t)
<1>1. pc' = [pc EXCEPT ![t] = label] /\ Locals(local[t]) /\ DOMAIN local = Threads
  BY Here DEF Go
<1>2. ASSUME NEW r, local' = [local EXCEPT ![t] = r], r.call = local[t].call PROVE OnlyMoves(t)
  BY <1>1, <1>2 DEF OnlyMoves, LockInv
<1>3. CASE local' = local
  BY <1>1, <1>3 DEF OnlyMoves, LockInv
<1>4. ASSUME NEW i, local' = [local EXCEPT ![t].entry = i] PROVE OnlyMoves(t)
  <2>1. [local[t] EXCEPT !.entry = i].call = local[t].call
    BY <1>1 DEF Locals
  <2> QED BY <1>2, <1>4, <2>1
<1>5. ASSUME NEW k, local' = [local EXCEPT ![t].item = k] PROVE OnlyMoves(t)
  <2>1. [local[t] EXCEPT !.item = k].call = local[t].call
    BY <1>1 DEF Locals
  <2> QED BY <1>2, <1>5, <2>1
<1>6. ASSUME NEW k, NEW h, local' = [local EXCEPT ![t].item = k, ![t].handle = h]
      PROVE  OnlyMoves(t)
  <2>1. [local[t] EXCEPT !.item = k, !.handle = h].call = local[t].call
    BY <1>1 DEF Locals
  <2>2. local' = [local EXCEPT ![t] = [local[t] EXCEPT !.item = k, !.handle = h]]
    BY <1>1, <1>6
  <2> QED BY <1>2, <2>1, <2>2
<1> QED BY <1>3, <1>4, <1>5, <1>6

LEMMA ScanMoves == ASSUME LockInv, NEW t \in Threads, Scan(t) PROVE OnlyMoves(t)
<1>1. pc[t] = "scan" /\ Locals(local[t]) /\ DOMAIN local = Threads
  BY Here DEF Scan
<1>2. ASSUME NEW n, NEW s, local' = [local EXCEPT ![t].item = n, ![t].seen = s], pc' = pc
      PROVE  OnlyMoves(t)
  <2>1. [local[t] EXCEPT !.item = n, !.seen = s].call = local[t].call
    BY <1>1 DEF Locals
  <2>2. local' = [local EXCEPT ![t] = [local[t] EXCEPT !.item = n, !.seen = s]]
    BY <1>1, <1>2
  <2> QED BY <1>1, <1>2, <2>1, <2>2 DEF OnlyMoves
<1> QED BY <1>1, <1>2, LeaveMoves DEF Scan

LEMMA BodyMoves == ASSUME LockInv, NEW t \in Threads, Body(t) PROVE OnlyMoves(t)
<1>1. pc[t] = "body"
  BY DEF Body
<1>2. Relock(t) => OnlyMoves(t)
  BY <1>1, GoMoves DEF Relock
<1>3. ASSUME Create(t) PROVE OnlyMoves(t)
  <2>1. \E k, h : local' = [local EXCEPT ![t].item = k, ![t].handle = h]
    BY <1>3 DEF Create
  <2> QED BY <1>1, <1>3, <2>1, GoMoves DEF Create
<1>4. FreeEntry(t) => OnlyMoves(t)
  BY <1>1, GoMoves DEF FreeEntry
<1>5. ASSUME FirstKey(t) PROVE OnlyMoves(t)
  <2>1. \E k : local' = [local EXCEPT ![t].item = k]
    BY <1>5 DEF FirstKey
  <2> QED BY <1>1, <1>5, <2>1, GoMoves DEF FirstKey
<1> QED BY <1>1, <1>2, <1>3, <1>4, <1>5, LeaveMoves DEF Body

\* A step of C_Initialize or C_Finalize.
InLibrary(t) ==
    LockGlobal(t) \/ Test(t) \/ Reset(t) \/ Start(t) \/ Cleanup(t) \/ End(t)

LEMMA OneMoves ==
    ASSUME LockInv, NEW t \in Threads, CallStep(t) \/ InLibrary(t) PROVE OnlyMoves(t)
<1>1. Check(t) \/ FindSession(t) \/ LockSession(t) \/ Decide(t) \/ Work(t) => OnlyMoves(t)
  BY LeaveMoves, GoMoves DEF Check, FindSession, LockSession, Decide, Work, Fail
<1>2. Lookup(t) \/ Use(t) \/ Generate(t) \/ ReadSlotId(t) \/ LockSlot(t) => OnlyMoves(t)
  BY LeaveMoves, GoMoves DEF Lookup, Use, Generate, ReadSlotId, LockSlot
<1>3. Clear(t) \/ Log(t) \/ LockGlobal(t) \/ Test(t) \/ Reset(t) => OnlyMoves(t)
  BY LeaveMoves, GoMoves DEF Clear, Log, LockGlobal, Test, Reset
<1>5. SecondKey(t) \/ Save(t) => OnlyMoves(t)
  BY LeaveMoves, GoMoves DEF SecondKey, Save
<1>4. Start(t) \/ Cleanup(t) \/ End(t) => OnlyMoves(t)
  BY LeaveMoves, GoMoves DEF Start, Cleanup, End
<1> QED BY <1>1, <1>2, <1>3, <1>4, <1>5, ScanMoves, BodyMoves DEF CallStep, InLibrary

LEMMA KeptStep == ASSUME LockInv, Kept, NEW t \in Threads, OnlyMoves(t) PROVE Kept'
<1>1. \A u \in Threads : pc'[u] # "idle" => pc[u] # "idle" /\ local'[u].call = local[u].call
  BY DEF OnlyMoves
<1> QED BY <1>1 DEF Kept

\* What the others have freed is theirs to clear.
LEMMA FreedStep ==
    ASSUME Freed, NEW t \in Threads, OnlyMoves(t), FreedOK(t) PROVE Freed'
<1> SUFFICES ASSUME NEW x \in freed'
             PROVE  \E u \in Threads : pc'[u] = "clear" /\ x = FreedBy(local'[u])
  BY DEF Freed, FreedBy
<1>1. CASE pc'[t] = "clear" /\ x = FreedBy(local'[t])
  BY <1>1
<1>2. CASE x \in freed /\ (pc[t] = "clear" => x # FreedBy(local[t]))
  <2>1. PICK u \in Threads : pc[u] = "clear" /\ x = FreedBy(local[u])
    BY <1>2 DEF Freed
  <2> QED BY <1>2, <2>1 DEF OnlyMoves
<1> QED BY <1>1, <1>2 DEF FreedOK

LEMMA HalvesStep ==
    ASSUME Halves, NEW t \in Threads, OnlyMoves(t), HalfOK(t) PROVE Halves'
  BY DEF Halves, OnlyMoves, HalfOK

\* The labels of C_Initialize and C_Finalize, and the others.
LEMMA CallStepOp ==
    ASSUME LockInv, NEW t \in Threads, CallStep(t)
    PROVE  local[t].call.op \notin LibraryCalls
<1>1. pc[t] \in {"check", "find", "lockSession", "decide", "work", "lookup", "use", "scan",
                 "generate", "slot", "lockSlot", "body", "pair", "save", "clear", "log"}
  BY DEF CallStep, Check, FindSession, LockSession, Decide, Work, Lookup, Use, Scan, Generate,
         ReadSlotId, LockSlot, Body, SecondKey, Save, Clear, Log
<1>2. Fits(pc[t], local[t].call.op)
  BY Here
<1>3. \A op \in LibraryCalls :
         /\ op \notin SlotCalls \cup SessionUsers \cup Decides \cup PinCalls \cup KeyCalls
         /\ op \notin AttributeCalls \cup TableCalls
         /\ op \notin {"C_FindObjectsInit", "C_GenerateKeyPair", "C_CloseSession", "C_DestroyObject",
                       "C_CreateObject"}
  BY DEF SlotCalls, SessionUsers, Decides, PinCalls, KeyCalls, AttributeCalls, TableCalls, LibraryCalls
<1>4. ASSUME local[t].call.op \in LibraryCalls PROVE FALSE
  BY <1>1, <1>2, <1>3, <1>4 DEF Fits
<1> QED BY <1>1, <1>4

LEMMA LibraryLabels ==
    ASSUME LockInv, NEW u \in Threads,
           pc[u] \in {"lockGlobal", "test", "reset", "start", "cleanup", "end"}
    PROVE  local[u].call.op \in LibraryCalls
  BY Here DEF Fits

LEMMA LibraryLabelsNext ==
    ASSUME LockInv', NEW u \in Threads,
           pc'[u] \in {"lockGlobal", "test", "reset", "start", "cleanup", "end"}
    PROVE  local'[u].call.op \in LibraryCalls
<1>1. Fits(pc[u], local[u].call.op)'
  BY DEF LockInv
<1> QED BY <1>1 DEF Fits

LEMMA CallStepEffect ==
    ASSUME Discipline \subseteq Apart, CallInv, LockInv', NEW t \in Threads, CallStep(t)
    PROVE  TakesEffect(t) /\ OnlyMoves(t) /\ CallInv'
<1>1. Advances(t) /\ OnlyMoves(t)
  BY StepAdvances, OneMoves DEF CallInv
<1>2. TakesEffect(t) /\ Mild(t) /\ Knows(t)' /\ FreedOK(t) /\ HalfOK(t) /\ UNCHANGED global_lock
  BY <1>1 DEF Advances
<1>4. AnyCall \/ UNCHANGED allVars
  <2>1. CASE pc[t] \notin Over /\ pc'[t] \in Over
    <3>1. Whole(local[t].call)
      BY <1>2, <2>1 DEF TakesEffect
    <3>2. local[t].call \in Calls
      BY <2>1 DEF CallInv, Knows, KnowsAs, Over
    <3> QED BY <3>1, <3>2, WholeIsCall DEF CallInv
  <2> QED BY <1>2, <2>1 DEF TakesEffect
<1>5. StateInv'
  BY <1>4, StateStep DEF CallInv
<1>6. Kept' /\ Freed' /\ Halves'
  BY <1>1, <1>2, KeptStep, FreedStep, HalvesStep DEF CallInv
<1>7. local[t].call.op \notin LibraryCalls /\ initialized' = initialized /\ slots' = slots
  BY <1>2, CallStepOp DEF CallInv, Mild
<1>8. SlotThere'
  BY <1>1, <1>7 DEF CallInv, SlotThere, OnlyMoves, LibraryCalls
<1>9. ASSUME NEW u \in Threads PROVE Knows(u)' /\ KnowsLibrary(u)'
  <2>1. CASE u = t
    <3>1. pc'[t] \notin {"test", "reset", "start", "cleanup", "end"}
      BY <1>1, <1>7, LibraryLabelsNext DEF OnlyMoves
    <3> QED BY <1>2, <2>1, <3>1 DEF KnowsLibrary
  <2>2. CASE u # t
    <3>1. pc'[u] = pc[u] /\ local'[u] = local[u]
      BY <1>1, <2>2 DEF OnlyMoves
    <3>2. Knows(u)'
      BY <1>1, <1>2, <1>5, <2>2, <3>1, OthersKnow DEF OnlyMoves, StateInv
    <3>3. KnowsLibrary(u)'
      BY <1>2, <1>7, <3>1 DEF CallInv, KnowsLibrary
    <3> QED BY <3>2, <3>3
  <2> QED BY <2>1, <2>2
<1> QED BY <1>1, <1>2, <1>5, <1>6, <1>8, <1>9 DEF CallInv
-----------------------------------------------------------------------------
(* C_Initialize and C_Finalize.                                            *)

\* Down is what C_Finalize leaves.
LEMMA DownIsGone ==
    ASSUME StateInv, ~initialized, UNCHANGED objectVars PROVE ObjectsGone /\ UNCHANGED counter
  BY DEF StateInv, Down, ObjectsDown, ObjectsGone, objectVars, tableVars

\* A thread that is not inside the library relies on nothing in it.
LEMMA OutsideKnows ==
    ASSUME CallInv, NEW u \in Threads, ~Inside(pc[u], local[u].call.op),
           pc'[u] = pc[u], local'[u] = local[u]
    PROVE  Knows(u)'
<1> DEFINE op == local[u].call.op
<1>1. Fits(pc[u], op) /\ Knows(u) /\ pc[u] \in Labelled
  BY Here DEF CallInv, LockInv
<1>2. pc[u] \in {"idle", "check", "find"} \/ op \in LibraryCalls
  BY DEF Inside
<1>3. /\ ~HasSession(pc[u], op) /\ ~HasDecided(pc[u], op) /\ ~HasObject(pc[u], op)
      /\ pc[u] \notin {"scan", "pair", "save", "use"}
  BY <1>1, <1>2 DEF Fits, HasSession, HasDecided, HasObject, LibraryCalls, SessionUsers, PinCalls,
                    KeyCalls, AttributeCalls, TableCalls, SlotCalls, Decides
<1>4. /\ IF pc[u] = "idle" THEN local[u] = NoLocals ELSE local[u].call \in Calls
      /\ pc[u] \in {"find", "lockSession", "decide"} => local[u].item = 0 /\ local[u].seen = <<>>
  BY <1>1 DEF Knows, KnowsAs
<1> QED BY <1>3, <1>4 DEF Knows, KnowsAs

\* Nobody is inside a library that does not run, or that is being stopped.
LEMMA NobodyInside ==
    ASSUME Discipline \subseteq Apart, CallInv, NEW t \in Threads, pc[t] # "idle",
           local[t].call.op \in LibraryCalls, ~initialized \/ local[t].call.op = "C_Finalize"
    PROVE  \A u \in Threads : ~Inside(pc[u], local[u].call.op)
<1> SUFFICES ASSUME NEW u \in Threads, Inside(pc[u], local[u].call.op) PROVE FALSE
  OBVIOUS
<1>1. initialized
  BY DEF CallInv, Knows, KnowsAs
<1>2. pc[u] # "idle" /\ local[u].call.op \notin LibraryCalls /\ u # t
  BY DEF Inside
<1>3. local[u].call.op \in Functions
  BY <1>2, ThreadsAssumption DEF CallInv, Knows, KnowsAs
<1>4. ~Overlap(local[t].call.op, local[u].call.op)
  BY <1>1, <1>2, <1>3 DEF Overlap, Functions
<1> QED BY <1>2, <1>4, KeptApart DEF CallInv

LEMMA LibraryKnows ==
    ASSUME NEW t, NEW label \in {"test", "reset", "start", "cleanup", "end"}, pc'[t] = label,
           local'[t].call \in Calls, local'[t].call.op \in LibraryCalls
    PROVE  Knows(t)'
  BY DEF Knows, KnowsAs, Inside, HasSession, HasDecided, HasObject, LibraryCalls, SessionUsers, PinCalls,
         KeyCalls, AttributeCalls, TableCalls, Decides

\* What a step of C_Initialize or C_Finalize does to the state and to what
\* the threads know of it.
LibraryEffect(t) ==
    /\ TakesEffect(t)
    /\ AnyCall \/ UNCHANGED allVars
    /\ SlotThere'
    /\ \A u \in Threads : Knows(u)' /\ KnowsLibrary(u)'
    /\ freed' \subseteq freed
    /\ half' \in {half, NoHalf}

\* What holds of thread t, at one of its labels, and of the others.
LEMMA LibraryHere ==
    ASSUME Discipline \subseteq Apart, CallInv, NEW t \in Threads,
           pc[t] \in {"lockGlobal", "test", "reset", "start", "cleanup", "end"}
    PROVE  /\ local[t].call \in Calls /\ local[t].call.op \in LibraryCalls
           /\ KnowsLibrary(t) /\ initialized \in BOOLEAN /\ StateInv /\ LockInv
           /\ local[t].call.op = "C_Initialize" =>
                \A u \in Threads : u # t =>
                   pc[u] \notin {"lockGlobal", "test", "reset", "start", "cleanup", "end"}
           /\ \A u \in Threads : u # t => pc[u] \notin {"reset", "start"}
<1>1. local[t].call.op \in LibraryCalls /\ LockInv /\ StateInv
  BY LibraryLabels DEF CallInv
<1>2. local[t].call \in Calls /\ KnowsLibrary(t) /\ initialized \in BOOLEAN
  BY DEF CallInv, Knows, KnowsAs, StateInv, TableInv, DataOK
<1>3. ASSUME NEW u \in Threads, u # t,
             pc[u] \in {"lockGlobal", "test", "reset", "start", "cleanup", "end"}
      PROVE  local[t].call.op # "C_Initialize" /\ local[u].call.op # "C_Initialize"
  <2>1. local[u].call.op \in LibraryCalls
    BY <1>1, <1>3, LibraryLabels
  <2>2. /\ Overlap(local[t].call.op, local[u].call.op)
        /\ Overlap(local[u].call.op, local[t].call.op)
    BY <1>3, KeptApart DEF CallInv
  <2> QED BY <1>1, <2>1, <2>2 DEF Overlap
<1>4. ASSUME NEW u \in Threads, u # t, pc[u] \in {"reset", "start"} PROVE FALSE
  BY <1>3, <1>4 DEF CallInv, KnowsLibrary
<1> QED BY <1>1, <1>2, <1>3, <1>4

\* The steps that leave the state alone, or refuse.
LEMMA QuietLibrary ==
    ASSUME Discipline \subseteq Apart, CallInv, NEW t \in Threads, OnlyMoves(t), Knows(t)',
           UNCHANGED <<initialized, slots, sessions, operation, find, objects, counter, half>>,
           AnyCall \/ UNCHANGED allVars, pc[t] \notin {"clear", "end"}
    PROVE  SlotThere' /\ \A u \in Threads : Knows(u)'
<1>1. Mild(t) /\ ObjectTableInv'
  BY StillMild, StateStep DEF CallInv, StateInv
<1>2. \A u \in Threads : u # t => Knows(u)'
  BY <1>1, OthersKnow DEF OnlyMoves
<1>3. SlotThere'
  BY DEF CallInv, SlotThere, OnlyMoves
<1> QED BY <1>2, <1>3

LEMMA LockGlobalEffect ==
    ASSUME Discipline \subseteq Apart, CallInv, NEW t \in Threads, LockGlobal(t), OnlyMoves(t)
    PROVE  LibraryEffect(t)
<1>1. /\ pc[t] = "lockGlobal" /\ global_lock = NoThread /\ global_lock' = t
      /\ Go(t, "test") /\ UNCHANGED <<allVars, local, slots, freed, half>>
  BY DEF LockGlobal
<1>2. pc'[t] = "test" /\ t # NoThread /\ \A u \in Threads : u # NoThread
  BY <1>1, Gone, Here DEF CallInv
<1>3. local[t].call \in Calls /\ local[t].call.op \in LibraryCalls
  BY <1>1, LibraryHere
<1>4. Knows(t)'
  BY <1>1, <1>2, <1>3, LibraryKnows
<1>5. UNCHANGED <<initialized, slots, sessions, operation, find, objects, counter, half>>
  BY <1>1 DEF allVars, vars, objectVars, tableVars, sessionVars
<1>6. SlotThere' /\ \A u \in Threads : Knows(u)'
  BY <1>1, <1>4, <1>5, QuietLibrary
<1>7. \A u \in Threads : KnowsLibrary(u)'
  BY <1>1, <1>2, <1>5 DEF OnlyMoves, CallInv, KnowsLibrary
<1>8. TakesEffect(t)
  BY <1>1, <1>2 DEF TakesEffect, Over
<1> QED BY <1>1, <1>6, <1>7, <1>8 DEF LibraryEffect

LEMMA TestEffect ==
    ASSUME Discipline \subseteq Apart, CallInv, NEW t \in Threads, Test(t), OnlyMoves(t)
    PROVE  LibraryEffect(t)
<1> DEFINE c == local[t].call
           start == c.op = "C_Initialize"
           code == IF start THEN "CKR_CRYPTOKI_ALREADY_INITIALIZED" ELSE "CKR_CRYPTOKI_NOT_INITIALIZED"
<1>1. pc[t] = "test" /\ c \in Calls /\ c.op \in LibraryCalls /\ initialized \in BOOLEAN /\ StateInv
  BY LibraryHere DEF Test
<1>2. start => \A u \in Threads : u # t =>
                   pc[u] \notin {"lockGlobal", "test", "reset", "start", "cleanup", "end"}
  BY <1>1, LibraryHere
<1>3. ~start => c.op = "C_Finalize" /\ global_lock = t
  BY <1>1, LibraryHere DEF LibraryCalls, KnowsLibrary
<1>4. ASSUME initialized = start, Refuse(code), Leave(t), global_lock' = NoThread,
             UNCHANGED <<slots, freed, half>>
      PROVE  LibraryEffect(t)
  <2>1. pc'[t] = "idle" /\ local'[t] = NoLocals
    BY <1>4, Left DEF CallInv
  <2>2. Knows(t)'
    BY <2>1, IdleKnows
  <2>3. Return(code) /\ UNCHANGED objectVars
    BY <1>4 DEF Refuse
  <2>4. Whole(c)
    <3>1. CASE start
      BY <1>4, <2>3, <3>1 DEF Whole, C_Initialize
    <3>2. CASE ~start
      <4>1. ~initialized /\ Return("CKR_CRYPTOKI_NOT_INITIALIZED")
        BY <1>4, <2>3, <3>2
      <4>2. ObjectsGone /\ UNCHANGED counter
        BY <1>1, <2>3, <4>1, DownIsGone
      <4> QED BY <1>3, <3>2, <4>1, <4>2 DEF Whole, C_Finalize
    <3> QED BY <3>1, <3>2
  <2>5. AnyCall
    BY <1>1, <2>4, WholeIsCall
  <2>6. UNCHANGED <<initialized, slots, sessions, operation, find, objects, counter, half>>
    BY <1>4, <2>3 DEF Return, sessionVars, objectVars, tableVars
  <2>7. SlotThere' /\ \A u \in Threads : Knows(u)'
    BY <1>1, <2>2, <2>5, <2>6, QuietLibrary
  <2>8. ASSUME NEW u \in Threads PROVE KnowsLibrary(u)'
    <3>1. CASE u = t
      BY <2>1, <3>1 DEF KnowsLibrary
    <3>2. CASE u # t
      <4>1. pc'[u] = pc[u] /\ local'[u] = local[u] /\ KnowsLibrary(u)
        BY <3>2 DEF OnlyMoves, CallInv
      <4>2. ~(pc[u] \in {"test", "cleanup", "end"} /\ local[u].call.op = "C_Finalize")
        BY <1>2, <1>3, <3>2, <4>1 DEF KnowsLibrary
      <4> QED BY <2>6, <4>1, <4>2 DEF KnowsLibrary
    <3> QED BY <3>1, <3>2
  <2>9. TakesEffect(t)
    BY <1>1, <2>1, <2>4 DEF TakesEffect, Over
  <2> QED BY <1>4, <2>5, <2>7, <2>8, <2>9 DEF LibraryEffect
<1>5. ASSUME initialized # start, Go(t, IF start THEN "reset" ELSE "cleanup"),
             UNCHANGED <<allVars, local, slots, lockVars, global_lock, freed, half>>
      PROVE  LibraryEffect(t)
  <2>1. pc'[t] = IF start THEN "reset" ELSE "cleanup"
    BY <1>5, Gone DEF CallInv
  <2>2. Knows(t)'
    BY <1>1, <1>5, <2>1, LibraryKnows
  <2>3. UNCHANGED <<initialized, slots, sessions, operation, find, objects, counter, half>>
    BY <1>5 DEF allVars, vars, objectVars, tableVars, sessionVars
  <2>4. SlotThere' /\ \A u \in Threads : Knows(u)'
    BY <1>1, <1>5, <2>2, <2>3, QuietLibrary
  <2>5. ASSUME NEW u \in Threads PROVE KnowsLibrary(u)'
    <3>1. CASE u = t
      BY <1>1, <1>3, <1>5, <2>1, <2>3, <3>1 DEF KnowsLibrary
    <3>2. CASE u # t
      BY <1>5, <2>3, <3>2 DEF OnlyMoves, CallInv, KnowsLibrary
    <3> QED BY <3>1, <3>2
  <2>6. TakesEffect(t)
    BY <1>5, <2>1 DEF TakesEffect, Over
  <2> QED BY <1>5, <2>4, <2>5, <2>6 DEF LibraryEffect
<1> QED BY <1>4, <1>5 DEF Test, CallOf

\* The memset of hsm_init_context finds a library that does not run, with
\* nothing in its slot.
LEMMA ResetEffect ==
    ASSUME Discipline \subseteq Apart, CallInv, NEW t \in Threads, Reset(t), OnlyMoves(t)
    PROVE  LibraryEffect(t)
<1>1. /\ pc[t] = "reset" /\ initialized' = FALSE /\ slots' = FALSE /\ freed' = {}
      /\ half' = NoHalf
      /\ SlotHolds(Blank) /\ ObjectsGone /\ Go(t, "start") /\ local' = local
      /\ UNCHANGED <<counter, g_next_session_handle, token_file, hung, rv>>
  BY DEF Reset
<1>2. /\ local[t].call \in Calls /\ local[t].call.op \in LibraryCalls /\ StateInv
      /\ local[t].call.op = "C_Initialize" /\ ~initialized /\ initialized \in BOOLEAN
      /\ \A u \in Threads : u # t =>
            pc[u] \notin {"lockGlobal", "test", "reset", "start", "cleanup", "end"}
  BY <1>1, LibraryHere DEF KnowsLibrary
<1>3. SlotDown /\ ObjectsDown
  BY <1>2 DEF StateInv, Down
<1>4. UNCHANGED allVars
  <2>1. UNCHANGED <<pinVars, retryVars, sessions, session_count>>
    BY <1>1, <1>3 DEF SlotDown, SlotHolds, pinVars, retryVars
  <2>2. UNCHANGED objectVars
    BY <1>1, <1>3 DEF ObjectsDown, ObjectsGone, objectVars, tableVars
  <2>3. initialized' = initialized
    BY <1>1, <1>2
  <2> QED BY <1>1, <2>1, <2>2, <2>3 DEF allVars, vars, sessionVars
<1>5. pc'[t] = "start"
  BY <1>1, Gone DEF CallInv
<1>6. Knows(t)'
  BY <1>1, <1>2, <1>5, LibraryKnows
<1>7. ASSUME NEW u \in Threads, u # t PROVE Knows(u)' /\ KnowsLibrary(u)'
  <2>1. ~Inside(pc[u], local[u].call.op)
    BY <1>1, <1>2, NobodyInside
  <2>2. pc'[u] = pc[u] /\ local'[u] = local[u]
    BY <1>7 DEF OnlyMoves
  <2> QED BY <1>2, <1>7, <2>1, <2>2, OutsideKnows DEF KnowsLibrary
<1>8. KnowsLibrary(t)'
  BY <1>1, <1>2, <1>5 DEF KnowsLibrary
<1>9. SlotThere' /\ freed' \subseteq freed /\ half' \in {half, NoHalf}
  BY <1>1 DEF SlotThere
<1>10. TakesEffect(t)
  BY <1>4, <1>5 DEF TakesEffect, Over
<1> QED BY <1>4, <1>6, <1>7, <1>8, <1>9, <1>10 DEF LibraryEffect

LEMMA StartEffect ==
    ASSUME Discipline \subseteq Apart, CallInv, NEW t \in Threads, Start(t), OnlyMoves(t)
    PROVE  LibraryEffect(t)
<1> DEFINE c == local[t].call
<1>1. /\ pc[t] = "start" /\ Leave(t) /\ freed' = freed /\ half' = half
      /\ \/ StartNow /\ slots' = TRUE /\ UNCHANGED objectVars
         \/ (\/ Refuse("CKR_HOST_MEMORY")
             \/ DiskFaults /\ Refuse("CKR_DEVICE_ERROR")) /\ slots' = slots
  BY DEF Start
<1>2. /\ c \in Calls /\ StateInv /\ c.op \in LibraryCalls
      /\ c.op = "C_Initialize" /\ ~initialized /\ initialized \in BOOLEAN
      /\ \A u \in Threads : u # t =>
            pc[u] \notin {"lockGlobal", "test", "reset", "start", "cleanup", "end"}
  BY <1>1, LibraryHere DEF KnowsLibrary
<1>3. C_Initialize /\ UNCHANGED objectVars
  BY <1>1, <1>2 DEF C_Initialize, Refuse
<1>4. Whole(c)
  BY <1>2, <1>3 DEF Whole
<1>5. AnyCall
  BY <1>2, <1>4, WholeIsCall
<1>6. pc'[t] = "idle" /\ local'[t] = NoLocals
  BY <1>1, Left DEF CallInv
<1>7. Knows(t)' /\ KnowsLibrary(t)'
  BY <1>6, IdleKnows DEF KnowsLibrary
<1>8. ASSUME NEW u \in Threads, u # t PROVE Knows(u)' /\ KnowsLibrary(u)'
  <2>1. ~Inside(pc[u], local[u].call.op)
    BY <1>1, <1>2, NobodyInside
  <2>2. pc'[u] = pc[u] /\ local'[u] = local[u]
    BY <1>8 DEF OnlyMoves
  <2> QED BY <1>2, <1>8, <2>1, <2>2, OutsideKnows DEF KnowsLibrary
<1>9. SlotThere'
  <2>1. slots' = TRUE \/ initialized' = initialized
    BY <1>1 DEF Refuse, Return
  <2> QED BY <1>2, <2>1 DEF SlotThere
<1>10. TakesEffect(t)
  BY <1>1, <1>4, <1>6 DEF TakesEffect, Over
<1> QED BY <1>1, <1>5, <1>7, <1>8, <1>9, <1>10 DEF LibraryEffect

\* C_Finalize tears the slot down: nobody is inside it.
LEMMA CleanupEffect ==
    ASSUME Discipline \subseteq Apart, CallInv, NEW t \in Threads, Cleanup(t), OnlyMoves(t)
    PROVE  LibraryEffect(t)
<1>1. /\ pc[t] = "cleanup" /\ Go(t, "end") /\ slots' = FALSE
      /\ UNCHANGED <<allVars, local, global_lock, freed, half>>
  BY DEF Cleanup
<1>2. /\ local[t].call \in Calls /\ local[t].call.op \in LibraryCalls
      /\ local[t].call.op = "C_Finalize" /\ initialized /\ global_lock = t
  BY <1>1, LibraryHere DEF KnowsLibrary
<1>3. pc'[t] = "end"
  BY <1>1, Gone DEF CallInv
<1>4. Knows(t)'
  BY <1>1, <1>2, <1>3, LibraryKnows
<1>5. initialized' = initialized
  BY <1>1 DEF allVars, vars
<1>6. ASSUME NEW u \in Threads, u # t PROVE Knows(u)' /\ KnowsLibrary(u)'
  <2>1. ~Inside(pc[u], local[u].call.op)
    BY <1>1, <1>2, NobodyInside
  <2>2. pc'[u] = pc[u] /\ local'[u] = local[u] /\ KnowsLibrary(u)
    BY <1>6 DEF OnlyMoves, CallInv
  <2> QED BY <1>1, <1>5, <2>1, <2>2, OutsideKnows DEF KnowsLibrary
<1>7. KnowsLibrary(t)' /\ SlotThere'
  BY <1>1, <1>2, <1>3, <1>5 DEF KnowsLibrary, SlotThere
<1>8. TakesEffect(t)
  BY <1>1, <1>3 DEF TakesEffect, Over
<1> QED BY <1>1, <1>4, <1>6, <1>7, <1>8 DEF LibraryEffect

LEMMA EndEffect ==
    ASSUME Discipline \subseteq Apart, CallInv, NEW t \in Threads, End(t), OnlyMoves(t)
    PROVE  LibraryEffect(t)
<1> DEFINE c == local[t].call
<1>1. /\ pc[t] = "end" /\ initialized /\ C_Finalize /\ ObjectsGone /\ UNCHANGED counter
      /\ Leave(t) /\ UNCHANGED <<slots, freed, half>>
  BY DEF End
<1>2. /\ c \in Calls /\ c.op \in LibraryCalls /\ StateInv
      /\ c.op = "C_Finalize" /\ global_lock = t
  BY <1>1, LibraryHere DEF KnowsLibrary
<1>3. Whole(c)
  BY <1>1, <1>2 DEF Whole
<1>4. AnyCall
  BY <1>2, <1>3, WholeIsCall
<1>5. initialized' = FALSE
  BY <1>1 DEF C_Finalize
<1>6. pc'[t] = "idle" /\ local'[t] = NoLocals
  BY <1>1, Left DEF CallInv
<1>7. Knows(t)' /\ KnowsLibrary(t)'
  BY <1>6, IdleKnows DEF KnowsLibrary
<1>8. ASSUME NEW u \in Threads, u # t PROVE Knows(u)' /\ KnowsLibrary(u)'
  <2>1. ~Inside(pc[u], local[u].call.op)
    BY <1>1, <1>2, NobodyInside
  <2>2. pc'[u] = pc[u] /\ local'[u] = local[u]
    BY <1>8 DEF OnlyMoves
  <2>3. KnowsLibrary(u) /\ pc[u] \notin {"reset", "start"}
    BY <1>1, <1>8, LibraryHere DEF CallInv
  <2>4. ~(pc[u] \in {"test", "cleanup", "end"} /\ local[u].call.op = "C_Finalize")
    BY <1>2, <1>8, <2>3 DEF KnowsLibrary
  <2>5. pc[u] \notin {"cleanup", "end"}
    BY <2>3, <2>4 DEF KnowsLibrary
  <2> QED BY <2>1, <2>2, <2>3, <2>4, <2>5, OutsideKnows DEF KnowsLibrary
<1>9. SlotThere'
  BY <1>5 DEF SlotThere
<1>10. TakesEffect(t)
  BY <1>1, <1>3, <1>6 DEF TakesEffect, Over
<1> QED BY <1>1, <1>4, <1>7, <1>8, <1>9, <1>10 DEF LibraryEffect

LEMMA LibraryStepEffect ==
    ASSUME Discipline \subseteq Apart, CallInv, LockInv', NEW t \in Threads, InLibrary(t)
    PROVE  TakesEffect(t) /\ OnlyMoves(t) /\ (AnyCall \/ UNCHANGED allVars) /\ CallInv'
<1>1. OnlyMoves(t)
  BY OneMoves DEF CallInv
<1>2. LibraryEffect(t)
  BY <1>1, LockGlobalEffect, TestEffect, ResetEffect, StartEffect, CleanupEffect, EndEffect DEF InLibrary
<1>3. StateInv'
  BY <1>2, StateStep DEF CallInv, LibraryEffect
<1>4. pc[t] # "clear" /\ pc[t] # "pair"
  BY DEF InLibrary, LockGlobal, Test, Reset, Start, Cleanup, End
<1>5. FreedOK(t) /\ HalfOK(t)
  BY <1>2, <1>4 DEF LibraryEffect, FreedOK, HalfOK
<1>6. Kept' /\ Freed' /\ Halves'
  BY <1>1, <1>5, KeptStep, FreedStep, HalvesStep DEF CallInv
<1> QED BY <1>1, <1>2, <1>3, <1>6 DEF CallInv, LibraryEffect
-----------------------------------------------------------------------------
(* All steps.                                                              *)

\* The first thing a call knows is its arguments; nothing overlaps with it
\* that the application keeps apart.
LEMMA BeginEffect ==
    ASSUME CallInv, LockInv', NEW t \in Threads, NEW c \in Calls, Begin(t, c)
    PROVE  /\ UNCHANGED allVars /\ pc[t] = "idle" /\ CallInv'
           /\ \A u \in Threads : u # t => pc'[u] = pc[u] /\ local'[u] = local[u]
<1> DEFINE l == [NoLocals EXCEPT !.call = c]
           label == FirstLabel(c.op)
<1>1. /\ pc[t] = "idle" /\ UNCHANGED <<allVars, slots, global_lock, freed, half>>
      /\ \A u \in Threads : u # t /\ pc[u] # "idle" => {c.op, local[u].call.op} \notin Apart
  BY DEF Begin, CallOf
<1>2. local[t] = NoLocals
  BY <1>1 DEF CallInv, Knows, KnowsAs
<1>3. pc'[t] = label /\ local'[t] = l
  BY <1>1, <1>2, Here DEF Begin, Go, CallInv, LockInv
<1>4. \A u \in Threads : u # t => pc'[u] = pc[u] /\ local'[u] = local[u]
  BY Here DEF Begin, Go, CallInv, LockInv
<1>5. l.call = c /\ l.item = 0 /\ l.seen = <<>>
  BY DEF NoLocals
<1>6. label \in {"check", "lockGlobal", "find"} /\ c.op \in Functions
  BY ThreadsAssumption DEF FirstLabel
<1>7. /\ ~Inside(label, c.op) /\ ~HasSession(label, c.op)
      /\ ~HasDecided(label, c.op) /\ ~HasObject(label, c.op)
  BY <1>6 DEF FirstLabel, Functions, Inside, HasSession, HasDecided, HasObject, SlotCalls, LibraryCalls,
              SessionUsers, PinCalls, KeyCalls, AttributeCalls, TableCalls, Decides
<1>8. KnowsAs(label, l)
  BY <1>5, <1>6, <1>7 DEF KnowsAs
<1>9. Knows(t)'
  BY <1>1, <1>3, <1>8, Settles
<1>10. UNCHANGED <<initialized, slots>>
  BY <1>1 DEF allVars, vars
<1>11. ASSUME NEW u \in Threads PROVE Knows(u)' /\ KnowsLibrary(u)'
  <2>1. CASE u = t
    BY <1>3, <1>6, <1>9, <2>1 DEF KnowsLibrary
  <2>2. CASE u # t
    <3>1. Knows(u) /\ KnowsLibrary(u)
      BY DEF CallInv
    <3>2. Knows(u)'
      BY <1>1, <1>4, <2>2, <3>1, Settles DEF Knows
    <3>3. KnowsLibrary(u)'
      BY <1>1, <1>4, <1>10, <2>2, <3>1 DEF KnowsLibrary
    <3> QED BY <3>2, <3>3
  <2> QED BY <2>1, <2>2
<1>12. StateInv'
  BY <1>1, StateStep DEF CallInv
<1>13. Kept'
  <2> SUFFICES ASSUME NEW v \in Threads, NEW u \in Threads, v # u, pc'[v] # "idle", pc'[u] # "idle"
               PROVE  {local'[v].call.op, local'[u].call.op} \notin Apart
    BY DEF Kept
  <2>1. CASE v = t
    BY <1>1, <1>3, <1>4, <1>5, <2>1
  <2>2. CASE u = t
    <3>1. {c.op, local[v].call.op} \notin Apart
      BY <1>1, <1>4, <2>2
    <3>2. {local'[v].call.op, local'[u].call.op} = {c.op, local[v].call.op}
      BY <1>3, <1>4, <1>5, <2>2
    <3> QED BY <3>1, <3>2
  <2>3. CASE v # t /\ u # t
    BY <1>4, <2>3 DEF CallInv, Kept
  <2> QED BY <2>1, <2>2, <2>3
<1>14. Freed' /\ Halves'
  BY <1>1, <1>4 DEF CallInv, Freed, FreedBy, Halves
<1>15. SlotThere'
  BY <1>1, <1>4, <1>10 DEF CallInv, SlotThere
<1> QED BY <1>1, <1>4, <1>11, <1>12, <1>13, <1>14, <1>15 DEF CallInv

LEMMA CallInvInit == ThreadsInit => CallInv
<1> SUFFICES ASSUME ThreadsInit PROVE CallInv
  OBVIOUS
<1>1. LockInv /\ StateInv
  BY LockInvInit, StateInit DEF ThreadsInit
<1>2. \A t \in Threads : pc[t] = "idle" /\ local[t] = NoLocals
  BY DEF ThreadsInit
<1>3. Kept
  BY <1>2 DEF Kept
<1>4. Freed /\ SlotThere /\ Halves
  BY DEF ThreadsInit, Freed, SlotThere, Halves, ObjectsInit, Init
<1>5. ASSUME NEW t \in Threads PROVE Knows(t) /\ KnowsLibrary(t)
  <2>1. NoLocals.call.op \notin SessionUsers \cup Decides \cup {"C_CloseSession"}
    BY DEF NoLocals, SessionUsers, PinCalls, KeyCalls, AttributeCalls, TableCalls, Decides
  <2>2. \A op : ~Inside("idle", op) /\ ~HasDecided("idle", op) /\ ~HasObject("idle", op)
                  /\ ~HasSession("idle", op)
    BY DEF Inside, HasDecided, HasObject, HasSession
  <2> QED BY <1>2, <2>1, <2>2 DEF Knows, KnowsAs, KnowsLibrary
<1> QED BY <1>1, <1>3, <1>4, <1>5 DEF CallInv

\* What CallsAtomic says of a step.
Atomic ==
    \A t \in Threads : pc'[t] # pc[t] \/ local'[t] # local[t] =>
       IF pc[t] \notin Over /\ pc'[t] \in Over THEN Whole(CallOf(t)) ELSE UNCHANGED allVars

LEMMA CallInvStep ==
    ASSUME Discipline \subseteq Apart, CallInv, [ThreadsNext]_everything
    PROVE  CallInv' /\ Atomic /\ (AnyCall \/ UNCHANGED allVars)
<1>1. LockInv'
  BY LockInvStep DEF CallInv
<1>2. ASSUME NEW t \in Threads, TakesEffect(t), OnlyMoves(t) PROVE Atomic
  BY <1>2 DEF Atomic, TakesEffect, OnlyMoves, CallOf
<1>3. ASSUME NEW t \in Threads, CallStep(t)
      PROVE  CallInv' /\ Atomic /\ (AnyCall \/ UNCHANGED allVars)
  <2>1. TakesEffect(t) /\ OnlyMoves(t) /\ CallInv'
    BY <1>1, <1>3, CallStepEffect
  <2>2. AnyCall \/ UNCHANGED allVars
    <3>1. pc[t] # "idle"
      BY <2>1 DEF OnlyMoves
    <3>2. pc[t] \notin Over => local[t].call \in Calls
      BY <3>1 DEF CallInv, Knows, KnowsAs
    <3> QED BY <2>1, <3>2, WholeIsCall DEF TakesEffect, CallInv
  <2> QED BY <1>2, <2>1, <2>2
<1>4. ASSUME NEW t \in Threads, InLibrary(t)
      PROVE  CallInv' /\ Atomic /\ (AnyCall \/ UNCHANGED allVars)
  BY <1>1, <1>2, <1>4, LibraryStepEffect
<1>5. ASSUME NEW t \in Threads, NEW c \in Calls, Begin(t, c)
      PROVE  CallInv' /\ Atomic /\ (AnyCall \/ UNCHANGED allVars)
  <2>1. UNCHANGED allVars /\ CallInv'
    BY <1>1, <1>5, BeginEffect
  <2>2. Atomic
    <3>1. /\ pc[t] = "idle"
          /\ \A u \in Threads : u # t => pc'[u] = pc[u] /\ local'[u] = local[u]
      BY <1>1, <1>5, BeginEffect
    <3> QED BY <2>1, <3>1 DEF Atomic, Over
  <2> QED BY <2>1, <2>2
<1>6. ASSUME UNCHANGED everything
      PROVE  CallInv' /\ Atomic /\ (AnyCall \/ UNCHANGED allVars)
  <2>1. UNCHANGED <<allVars, slots, pc, local, global_lock, freed, half>>
    BY <1>6 DEF everything, threadVars
  <2>2. StateInv'
    BY <2>1, StateStep DEF CallInv
  <2>3. \A t \in Threads : Knows(t)'
    BY <2>1, Settles DEF CallInv, Knows
  <2>4. UNCHANGED <<initialized, slots>>
    BY <2>1 DEF allVars, vars
  <2>5. \A t \in Threads : KnowsLibrary(t)'
    BY <2>1, <2>4 DEF CallInv, KnowsLibrary
  <2>6. Kept' /\ Freed' /\ SlotThere' /\ Halves'
    BY <2>1, <2>4 DEF CallInv, Kept, Freed, FreedBy, SlotThere, Halves
  <2>7. Atomic
    BY <2>1 DEF Atomic
  <2> QED BY <1>1, <2>1, <2>2, <2>3, <2>5, <2>6, <2>7 DEF CallInv
<1>7. \A t \in Threads : Step(t) => CallStep(t) \/ InLibrary(t)
  BY DEF Step, CallStep, InLibrary
<1> QED BY <1>3, <1>4, <1>5, <1>6, <1>7 DEF ThreadsNext
-----------------------------------------------------------------------------
(* The theorems.  Their hypothesis is the part of the application: calls   *)
(* whose functions are a pair of Discipline do not overlap.                *)

LEMMA CallsAlways == Discipline \subseteq Apart /\ ThreadsSpec => []CallInv
<1> SUFFICES ASSUME Discipline \subseteq Apart PROVE ThreadsSpec => []CallInv
  OBVIOUS
<1>1. CallInv /\ [ThreadsNext]_everything => CallInv'
  BY CallInvStep
<1> QED BY <1>1, CallInvInit, PTL DEF ThreadsSpec

\* No thread reads or writes memory that another has freed, and no two threads
\* use an object at once when one of them writes its label: the pointers
\* hsm_get_session and hsm_get_object hand out without a lock stay good.
THEOREM AccessesStaySound == Discipline \subseteq Apart /\ ThreadsSpec => []AccessesSound
<1> SUFFICES ASSUME Discipline \subseteq Apart PROVE ThreadsSpec => []AccessesSound
  OBVIOUS
<1>1. CallInv => AccessesSound
  BY AccessesAreSound
<1> QED BY <1>1, CallsAlways, PTL

\* However the threads take turns, a call takes effect at one step, and what it
\* does there is the whole call of HsmObjects: nothing that it read before it
\* had a lock, or under a lock it has given back, is out of date when it is
\* used.
THEOREM CallsAreAtomic == Discipline \subseteq Apart /\ ThreadsSpec => CallsAtomic
<1> SUFFICES ASSUME Discipline \subseteq Apart PROVE ThreadsSpec => CallsAtomic
  OBVIOUS
<1>1. CallInv /\ [ThreadsNext]_everything =>
        [\A t \in Threads : pc'[t] # pc[t] \/ local'[t] # local[t] =>
           IF pc[t] \notin Over /\ pc'[t] \in Over THEN Whole(CallOf(t))
           ELSE UNCHANGED allVars]_everything
  BY CallInvStep DEF Atomic
<1> QED BY <1>1, CallsAlways, PTL DEF ThreadsSpec, CallsAtomic

\* HsmThreads implements HsmObjects: what the threads do to the sessions, the
\* PINs, the objects and the files is a sequence of calls of one thread.
THEOREM ThreadsMakeCalls ==
    Discipline \subseteq Apart /\ ThreadsSpec => ObjectsInit /\ [][AnyCall]_allVars
<1> SUFFICES ASSUME Discipline \subseteq Apart
             PROVE  ThreadsSpec => ObjectsInit /\ [][AnyCall]_allVars
  OBVIOUS
<1>1. CallInv /\ [ThreadsNext]_everything => [AnyCall]_allVars
  BY CallInvStep
<1>2. ThreadsInit => ObjectsInit
  BY DEF ThreadsInit
<1> QED BY <1>1, <1>2, CallsAlways, PTL DEF ThreadsSpec

LEMMA ThreadEffects ==
    ASSUME Discipline \subseteq Apart
    PROVE  CallInv /\ [ThreadsNext]_everything => Effect /\ ObjectEffect
  BY CallInvStep, AnyCallEffects, UnchangedEffects

LEMMA ThreadsTables ==
    ASSUME Discipline \subseteq Apart PROVE ThreadsSpec => []CallInv /\ [](TableInv /\ ObjectTableInv)
<1>1. CallInv => TableInv /\ ObjectTableInv
  BY DEF CallInv, StateInv
<1> QED BY <1>1, CallsAlways, PTL

\* The session table and the object table stay what they are under one
\* thread: the counts are those of the entries in use, and no two entries have
\* one handle.
THEOREM ThreadsKeepTables ==
    Discipline \subseteq Apart /\ ThreadsSpec => [](TableConsistent /\ ObjectTable)
<1> SUFFICES ASSUME Discipline \subseteq Apart PROVE ThreadsSpec => [](TableConsistent /\ ObjectTable)
  OBVIOUS
<1>1. TableInv /\ ObjectTableInv => TableConsistent /\ ObjectTable
  BY DEF TableInv, ObjectTableInv
<1> QED BY <1>1, ThreadsTables, PTL

\* Threads that try PINs at once share one budget, and none gets a login that
\* PinPolicy forbids: hsm_verify_pin and the change of the login flags are one
\* step to all of them.
THEOREM ThreadsKeepPolicy == Discipline \subseteq Apart /\ ThreadsSpec => KeepsPinPolicy
<1> SUFFICES ASSUME Discipline \subseteq Apart PROVE ThreadsSpec => KeepsPinPolicy
  OBVIOUS
<1>1. ThreadsInit => PolicyInv /\ Policy!Init
  BY PolicyInvInit, PolicyInit DEF ThreadsInit, ObjectsInit
<1>2. CallInv /\ [ThreadsNext]_everything => Effect
  BY ThreadEffects
<1>3. PolicyInv /\ Effect => PolicyInv' /\ [Policy!Next]_(Policy!vars)
  BY PolicyInvStep, PolicyStep
<1> QED BY <1>1, <1>2, <1>3, ThreadsTables, PTL DEF ThreadsSpec, KeepsPinPolicy, Policy!Spec

\* The login state each session reports is true, a logged-in user has a PIN,
\* and a PIN is locked exactly when its budget is spent, for threads too.
THEOREM ThreadsKeepLogins ==
    Discipline \subseteq Apart /\ ThreadsSpec =>
      [](ReportedStateIsTrue /\ LoggedInUserHasPin /\ LockedIffSpent)
<1> SUFFICES ASSUME Discipline \subseteq Apart
             PROVE  ThreadsSpec => [](ReportedStateIsTrue /\ LoggedInUserHasPin /\ LockedIffSpent)
  OBVIOUS
<1>1. ThreadsInit => LoginInv /\ LockedIffSpent
  BY LoginInit, LockInit DEF ThreadsInit, ObjectsInit
<1>2. TableInv /\ LoginInv /\ LockedIffSpent /\ Effect => LoginInv' /\ LockedIffSpent'
  BY LoginStep, LockStep
<1>3. TableInv /\ LoginInv => ReportedStateIsTrue /\ LoggedInUserHasPin
  BY LoginInvImplies DEF TableInv
<1>4. CallInv /\ [ThreadsNext]_everything => Effect
  BY ThreadEffects
<1> QED BY <1>1, <1>2, <1>3, <1>4, ThreadsTables, PTL DEF ThreadsSpec

\* A PIN in use is replaced only by someone entitled to replace it, whatever
\* the other threads do between the old PIN and the new one.
THEOREM ThreadsKeepDigests == Discipline \subseteq Apart /\ ThreadsSpec => DigestChangeEntitled
<1> SUFFICES ASSUME Discipline \subseteq Apart PROVE ThreadsSpec => DigestChangeEntitled
  OBVIOUS
<1>1. TableInv /\ Effect =>
        [\A ut \in Users :
          initialized /\ initialized' /\ pin_hash'[ut] # pin_hash[ut] =>
            /\ rv' = "CKR_OK"
            /\ retry_count'[ut] = HSM_PIN_RETRY_COUNT
            /\ \/ ut = CKU_SO /\ Open = {}
               \/ \E i \in Open : sessions[i].so_logged_in
               \/ ut = CKU_USER /\ ~pin_locked[ut]
                    /\ \E i \in Open : sessions[i].user_logged_in]_vars
  BY DigestStep DEF TableInv, Entitled
<1>2. CallInv /\ [ThreadsNext]_everything => Effect
  BY ThreadEffects
<1> QED BY <1>1, <1>2, ThreadsTables, PTL DEF ThreadsSpec, DigestChangeEntitled

\* The key an operation of one thread ends with is one its Init accepted,
\* though others destroy and create objects meanwhile; a search stays sound
\* whoever creates and destroys objects while it collects them or between its
\* calls.
THEOREM ThreadsKeepOperations ==
    Discipline \subseteq Apart /\ ThreadsSpec => [](OperationKeyFits /\ SearchSound)
<1> SUFFICES ASSUME Discipline \subseteq Apart PROVE ThreadsSpec => [](OperationKeyFits /\ SearchSound)
  OBVIOUS
<1>1. ThreadsInit => OperationInv /\ SearchInv
  BY OperationInit, SearchInit DEF ThreadsInit
<1>2. TableInv /\ ObjectTableInv /\ OperationInv /\ SearchInv /\ ObjectEffect
        => OperationInv' /\ SearchInv'
  BY OperationStep, SearchStep
<1>3. OperationInv /\ SearchInv => OperationKeyFits /\ SearchSound
  BY SearchInvImplies DEF OperationInv
<1>4. CallInv /\ [ThreadsNext]_everything => ObjectEffect
  BY ThreadEffects
<1> QED BY <1>1, <1>2, <1>3, <1>4, ThreadsTables, PTL DEF ThreadsSpec

\* Threads that create, find and destroy objects at once keep the promise of
\* ObjectStore, and the files of token objects follow the objects.
THEOREM ThreadsKeepObjects ==
    Discipline \subseteq Apart /\ ThreadsSpec =>
      KeepsObjectStore /\ FilesFollowObjects /\ []TokenObjectsSaved
<1> SUFFICES ASSUME Discipline \subseteq Apart
             PROVE  ThreadsSpec => KeepsObjectStore /\ FilesFollowObjects /\ []TokenObjectsSaved
  OBVIOUS
<1>1. ThreadsInit => Store!Init /\ TokenObjectsSaved
  BY StoreInit, SavedInit DEF ThreadsInit
<1>2. TableInv /\ ObjectTableInv /\ TokenObjectsSaved /\ ObjectEffect => TokenObjectsSaved'
  BY SavedStep
<1>3. ObjectTableInv /\ ObjectEffect => [Store!Next]_(Store!vars) /\ FilesFollow
  BY StoreStep, FilesStep
<1>4. CallInv /\ [ThreadsNext]_everything => ObjectEffect
  BY ThreadEffects
<1> QED BY <1>1, <1>2, <1>3, <1>4, ThreadsTables, PTL
        DEF ThreadsSpec, KeepsObjectStore, Store!Spec, FilesFollowObjects
=============================================================================
