-------------------------- MODULE HsmThreads_proofs ---------------------------
(***************************************************************************)
(* LocksHeld for any number of threads, any calls and whatever the         *)
(* application keeps apart.  Which locks a thread owns follows from where  *)
(* it is and from the call it makes, once it is known which calls get      *)
(* where (Fits): the same label is under a lock for one call and not for   *)
(* another.  Every step moves one thread to a label, or lets it leave.     *)
(***************************************************************************)
EXTENDS HsmThreads, TLAPS

Labelled == {"idle", "check", "find", "lockSession", "decide", "work", "lookup", "use", "scan",
             "generate", "slot", "lockSlot", "body", "pair", "save", "clear", "hang", "log",
             "lockGlobal", "test", "reset", "start", "cleanup", "end"}

\* UnderSessionLock of a thread at a label of a call.
Under(label, op) ==
    \/ label \in {"decide", "scan"}
    \/ label = "work" /\ op # "C_GenerateRandom"
    \/ label \in {"lookup", "use"} /\ op \in KeyCalls
    \/ label \in {"lockSlot", "body"} /\ op \in PinCalls

\* The calls that get to a label.
Fits(label, op) ==
    /\ label = "check" => op \in SlotCalls
    /\ label = "find" => op \in SessionUsers
    /\ label = "lockSession" =>
         op \in SessionUsers \ (TableCalls \cup AttributeCalls \cup {"C_GenerateRandom"})
    /\ label = "decide" => op \in Decides
    /\ label = "work" => op \in SessionUsers \ (TableCalls \cup AttributeCalls \cup Decides)
    /\ label \in {"lookup", "use"} => op \in KeyCalls \cup AttributeCalls
    /\ label = "scan" => op = "C_FindObjectsInit"
    /\ label = "generate" => op = "C_GenerateKeyPair"
    /\ label = "slot" => op \in TableCalls \cup {"C_GenerateKeyPair"}
    /\ label \in {"lockSlot", "body"} =>
         op \in SlotCalls \cup PinCalls \cup TableCalls \cup {"C_GenerateKeyPair"}
    /\ label = "clear" => op \in {"C_CloseSession", "C_DestroyObject"}
    /\ label = "hang" => op \in {"C_CloseAllSessions", "C_InitToken"}
    /\ label = "pair" => op = "C_GenerateKeyPair"
    /\ label \in {"save", "log"} => op = "C_CreateObject"
    /\ label \in {"lockGlobal", "test", "reset", "start", "cleanup", "end"} => op \in LibraryCalls

Locals(r) == DOMAIN r = {"call", "entry", "item", "handle", "seen"} /\ r.entry \in Idx

Owned ==
    \A t \in Threads :
        /\ slot_lock = t <=> pc[t] \in UnderSlotLock
        /\ \A i \in Idx : session_lock[i] = t <=> Under(pc[t], local[t].call.op) /\ local[t].entry = i

LockInv ==
    /\ pc \in [Threads -> Labelled]
    /\ DOMAIN local = Threads
    /\ DOMAIN session_lock = Idx
    /\ \A t \in Threads : Locals(local[t]) /\ Fits(pc[t], local[t].call.op)
    /\ Owned

USE DEF Labelled

LEMMA LockInvImplies == LockInv => LocksHeld
  BY DEF LockInv, Owned, LocksHeld, UnderSessionLock, Under, CallOf, Entry

LEMMA NoLocalsType == Locals(NoLocals) /\ ~Under("idle", NoLocals.call.op)
                        /\ \A op : Fits("idle", op) /\ ~Under("idle", op)
  BY SizesAssumption DEF Locals, NoLocals, Idx, Fits, Under

LEMMA LockInvInit == ThreadsInit => LockInv
<1> SUFFICES ASSUME ThreadsInit PROVE LockInv
  OBVIOUS
<1>1. "idle" \notin UnderSlotLock
  BY DEF UnderSlotLock
<1>2. \A t \in Threads : t # NoThread
  BY ThreadsAssumption
<1> QED BY <1>1, <1>2, NoLocalsType DEF ThreadsInit, LockInv, Owned

\* Thread t goes to a label; it owns then what the label asks for, and the
\* others own what they did.
MovesTo(t, label) ==
    /\ label \in Labelled
    /\ pc' = [pc EXCEPT ![t] = label]
    /\ DOMAIN local' = Threads
    /\ \A u \in Threads : u # t => local'[u] = local[u]
    /\ Locals(local'[t])
    /\ Fits(label, local'[t].call.op)
    /\ \A u \in Threads : u # t => (slot_lock' = u <=> slot_lock = u)
    /\ slot_lock' = t <=> label \in UnderSlotLock
    /\ DOMAIN session_lock' = Idx
    /\ \A u \in Threads, i \in Idx : u # t => (session_lock'[i] = u <=> session_lock[i] = u)
    /\ \A i \in Idx : session_lock'[i] = t
         <=> Under(label, local'[t].call.op) /\ local'[t].entry = i

LEMMA Moves == ASSUME LockInv, NEW t \in Threads, NEW label, MovesTo(t, label) PROVE LockInv'
<1>1. pc' \in [Threads -> Labelled] /\ pc'[t] = label /\ \A u \in Threads : u # t => pc'[u] = pc[u]
  BY DEF LockInv, MovesTo
<1>2. \A u \in Threads : Locals(local'[u]) /\ Fits(pc'[u], local'[u].call.op)
  BY <1>1 DEF LockInv, MovesTo
<1>3. Owned'
  <2> SUFFICES ASSUME NEW u \in Threads
               PROVE  /\ slot_lock' = u <=> pc'[u] \in UnderSlotLock
                      /\ \A i \in Idx : session_lock'[i] = u
                            <=> Under(pc'[u], local'[u].call.op) /\ local'[u].entry = i
    BY DEF Owned
  <2>1. CASE u = t
    BY <1>1, <2>1 DEF MovesTo
  <2>2. CASE u # t
    BY <1>1, <2>2 DEF LockInv, Owned, MovesTo
  <2> QED BY <2>1, <2>2
<1> QED BY <1>1, <1>2, <1>3 DEF LockInv, MovesTo

\* Between two labels that ask for the same locks, with the same call.
LEMMA MovesOn ==
    ASSUME LockInv, NEW t \in Threads, NEW label \in Labelled, Go(t, label),
           DOMAIN local' = Threads, \A u \in Threads : u # t => local'[u] = local[u],
           Locals(local'[t]), local'[t].call = local[t].call,
           Fits(label, local[t].call.op),
           label \in UnderSlotLock <=> pc[t] \in UnderSlotLock,
           Under(label, local[t].call.op) <=> Under(pc[t], local[t].call.op),
           Under(label, local[t].call.op) => local'[t].entry = local[t].entry,
           UNCHANGED lockVars
    PROVE  LockInv'
<1>1. /\ slot_lock = t <=> pc[t] \in UnderSlotLock
      /\ \A i \in Idx : session_lock[i] = t
            <=> Under(pc[t], local[t].call.op) /\ local[t].entry = i
      /\ DOMAIN session_lock = Idx
  BY DEF LockInv, Owned
<1>2. pc' = [pc EXCEPT ![t] = label] /\ slot_lock' = slot_lock /\ session_lock' = session_lock
  BY DEF Go, lockVars
<1>3. slot_lock' = t <=> label \in UnderSlotLock
  BY <1>1, <1>2
<1>4. \A i \in Idx : session_lock'[i] = t
         <=> Under(label, local'[t].call.op) /\ local'[t].entry = i
  BY <1>1, <1>2
<1>5. Fits(label, local'[t].call.op)
  OBVIOUS
<1>6. DOMAIN session_lock' = Idx
  BY <1>1, <1>2
<1>7. \A u \in Threads, i \in Idx : u # t => (session_lock'[i] = u <=> session_lock[i] = u)
  BY <1>2
<1>8. \A u \in Threads : u # t => (slot_lock' = u <=> slot_lock = u)
  BY <1>2
<1>9. MovesTo(t, label)
  BY <1>2, <1>3, <1>4, <1>5, <1>6, <1>7, <1>8 DEF MovesTo
<1> QED BY <1>9, Moves

LEMMA Leaving == ASSUME LockInv, NEW t \in Threads, Leave(t) PROVE LockInv'
<1>1. /\ pc' = [pc EXCEPT ![t] = "idle"]
      /\ local' = [local EXCEPT ![t] = NoLocals]
      /\ slot_lock' = IF slot_lock = t THEN NoThread ELSE slot_lock
      /\ session_lock' = [i \in Idx |-> IF session_lock[i] = t THEN NoThread ELSE session_lock[i]]
  BY DEF Leave
<1>2. /\ DOMAIN local' = Threads /\ local'[t] = NoLocals
      /\ \A u \in Threads : u # t => local'[u] = local[u]
  BY <1>1 DEF LockInv
<1>3. \A u \in Threads : u # NoThread
  BY ThreadsAssumption
<1>4. "idle" \notin UnderSlotLock
  BY DEF UnderSlotLock
<1>5. slot_lock' # t /\ \A u \in Threads : u # t => (slot_lock' = u <=> slot_lock = u)
  BY <1>1, <1>3
<1>6. /\ DOMAIN session_lock' = Idx
      /\ \A i \in Idx : session_lock'[i] # t
      /\ \A u \in Threads, i \in Idx : u # t => (session_lock'[i] = u <=> session_lock[i] = u)
  BY <1>1, <1>3
<1>7. Locals(local'[t]) /\ Fits("idle", local'[t].call.op) /\ ~Under("idle", local'[t].call.op)
  BY <1>2, NoLocalsType
<1>8. "idle" \in Labelled
  OBVIOUS
<1>9. MovesTo(t, "idle")
  BY <1>1, <1>2, <1>4, <1>5, <1>6, <1>7, <1>8 DEF MovesTo
<1> QED BY <1>9, Moves

LEMMA StepLeaves == ASSUME LockInv, NEW t \in Threads, NEW code, Fail(t, code) PROVE LockInv'
  BY Leaving DEF Fail

LEMMA FindStep == ASSUME LockInv, NEW t \in Threads, FindSession(t) PROVE LockInv'
<1> DEFINE op == local[t].call.op
<1>1. pc[t] = "find" /\ op \in SessionUsers /\ Locals(local[t])
  BY DEF FindSession, LockInv, Fits
<1>2. CASE Fail(t, hsm_get_session(CallOf(t).h))
  BY <1>2, StepLeaves, SMTT(30)
<1>3. ASSUME NEW i \in Idx, local' = [local EXCEPT ![t].entry = i], Go(t, AfterFind(op)),
             UNCHANGED lockVars
      PROVE  LockInv'
  <2>1. /\ DOMAIN local' = Threads /\ \A u \in Threads : u # t => local'[u] = local[u]
        /\ local'[t] = [local[t] EXCEPT !.entry = i]
    BY <1>3 DEF LockInv
  <2>2. Locals(local'[t]) /\ local'[t].call = local[t].call
    BY <1>1, <2>1 DEF Locals
  <2>3. /\ AfterFind(op) \in {"slot", "lookup", "work", "lockSession"}
        /\ Fits(AfterFind(op), op)
        /\ ~Under(AfterFind(op), op)
    BY <1>1 DEF AfterFind, Fits, Under, SessionUsers, TableCalls, AttributeCalls, KeyCalls, PinCalls,
                Decides
  <2>4. ~Under("find", op) /\ "find" \notin UnderSlotLock /\ AfterFind(op) \notin UnderSlotLock
    BY <2>3 DEF Under, UnderSlotLock
  <2> HIDE DEF op
  <2> QED BY <1>1, <1>3, <2>1, <2>2, <2>3, <2>4, MovesOn DEF op
<1> QED BY <1>2, <1>3 DEF FindSession, CallOf

LEMMA GoesOn ==
    ASSUME LockInv, NEW t \in Threads, NEW label \in Labelled, Go(t, label),
           UNCHANGED <<local, lockVars>>,
           Fits(label, local[t].call.op),
           label \in UnderSlotLock <=> pc[t] \in UnderSlotLock,
           Under(label, local[t].call.op) <=> Under(pc[t], local[t].call.op)
    PROVE  LockInv'
<1>1. /\ DOMAIN local' = Threads /\ \A u \in Threads : u # t => local'[u] = local[u]
      /\ Locals(local'[t]) /\ local'[t] = local[t]
  BY DEF LockInv
<1> QED BY <1>1, MovesOn

\* What thread t knows at the label where it is.
LEMMA Here ==
    ASSUME LockInv, NEW t \in Threads
    PROVE  /\ Fits(pc[t], local[t].call.op) /\ Locals(local[t]) /\ DOMAIN local = Threads
           /\ slot_lock = t <=> pc[t] \in UnderSlotLock
           /\ \A i \in Idx : session_lock[i] = t
                 <=> Under(pc[t], local[t].call.op) /\ local[t].entry = i
           /\ DOMAIN session_lock = Idx
           /\ t # NoThread /\ \A u \in Threads : u # NoThread
  BY ThreadsAssumption DEF LockInv, Owned

\* From a label without a lock to another with none.
LEMMA Unlocked ==
    ASSUME LockInv, NEW t \in Threads, NEW label \in Labelled, Go(t, label),
           UNCHANGED <<local, lockVars>>, Fits(label, local[t].call.op),
           pc[t] \notin UnderSlotLock, label \notin UnderSlotLock,
           ~Under(pc[t], local[t].call.op), ~Under(label, local[t].call.op)
    PROVE  LockInv'
  BY GoesOn

LEMMA BeginStep ==
    ASSUME LockInv, NEW t \in Threads, NEW c \in Calls, Begin(t, c) PROVE LockInv'
<1>1. pc[t] = "idle" /\ c.op \in Functions
  BY ThreadsAssumption DEF Begin
<1>2. /\ DOMAIN local' = Threads /\ \A u \in Threads : u # t => local'[u] = local[u]
      /\ local'[t] = [local[t] EXCEPT !.call = c]
      /\ Go(t, FirstLabel(c.op)) /\ slot_lock' = slot_lock /\ session_lock' = session_lock
  BY Here DEF Begin, lockVars
<1>3. Locals(local'[t]) /\ local'[t].call = c
  BY <1>2, Here DEF Locals
<1>4. /\ FirstLabel(c.op) \in {"check", "lockGlobal", "find"}
      /\ Fits(FirstLabel(c.op), c.op)
  BY <1>1 DEF FirstLabel, Fits, Functions
<1>5. /\ FirstLabel(c.op) \notin UnderSlotLock /\ "idle" \notin UnderSlotLock
      /\ \A op : ~Under("idle", op) /\ ~Under(FirstLabel(c.op), op)
  BY <1>4 DEF UnderSlotLock, Under
<1>6. slot_lock # t /\ \A i \in Idx : session_lock[i] # t
  BY <1>1, <1>5, Here
<1>7. MovesTo(t, FirstLabel(c.op))
  BY <1>2, <1>3, <1>4, <1>5, <1>6, Here DEF MovesTo, Go
<1> QED BY <1>7, Moves

LEMMA CheckStep == ASSUME LockInv, NEW t \in Threads, Check(t) PROVE LockInv'
<1>1. CASE Fail(t, "CKR_CRYPTOKI_NOT_INITIALIZED")
  BY <1>1, StepLeaves
<1>2. CASE Go(t, "lockSlot") /\ UNCHANGED <<local, lockVars>>
  <2>1. pc[t] = "check" /\ local[t].call.op \in SlotCalls
    BY Here DEF Check, Fits
  <2>2. /\ Fits("lockSlot", local[t].call.op)
        /\ ~Under("check", local[t].call.op) /\ ~Under("lockSlot", local[t].call.op)
        /\ "check" \notin UnderSlotLock /\ "lockSlot" \notin UnderSlotLock
    BY <2>1 DEF Fits, Under, UnderSlotLock, SlotCalls, PinCalls
  <2> QED BY <1>2, <2>1, <2>2, Unlocked
<1> QED BY <1>1, <1>2 DEF Check

LEMMA LockSessionStep == ASSUME LockInv, NEW t \in Threads, LockSession(t) PROVE LockInv'
<1> DEFINE op == local[t].call.op
           label == IF op \in Decides THEN "decide" ELSE "work"
<1>1. /\ pc[t] = "lockSession"
      /\ op \in SessionUsers \ (TableCalls \cup AttributeCalls \cup {"C_GenerateRandom"})
  BY Here DEF LockSession, Fits
<1>2. /\ session_lock[local[t].entry] = NoThread /\ Go(t, label)
      /\ session_lock' = [session_lock EXCEPT ![local[t].entry] = t]
      /\ local' = local /\ slot_lock' = slot_lock
  BY DEF LockSession, CallOf, Entry
<1>3. /\ Fits(label, op) /\ Under(label, op) /\ label \notin UnderSlotLock
      /\ "lockSession" \notin UnderSlotLock /\ ~Under("lockSession", op)
  BY <1>1 DEF Fits, Under, UnderSlotLock
<1>4. slot_lock # t /\ \A i \in Idx : session_lock[i] # t
  BY <1>1, <1>3, Here
<1>5. /\ local[t].entry \in Idx
      /\ \A u \in Threads, i \in Idx : u # t => (session_lock'[i] = u <=> session_lock[i] = u)
      /\ \A i \in Idx : session_lock'[i] = t <=> local[t].entry = i
      /\ DOMAIN session_lock' = Idx
  BY <1>2, <1>4, Here DEF Locals
<1>6. label \in Labelled
  OBVIOUS
<1>7. Go(t, label) => pc' = [pc EXCEPT ![t] = label]
  BY DEF Go
<1> HIDE DEF label
<1>8. MovesTo(t, label)
  BY <1>2, <1>3, <1>4, <1>5, <1>6, <1>7, Here DEF MovesTo
<1> QED BY <1>8, Moves

LEMMA DecideStep == ASSUME LockInv, NEW t \in Threads, Decide(t) PROVE LockInv'
<1> DEFINE op == local[t].call.op
<1>1. pc[t] = "decide" /\ op \in Decides
  BY Here DEF Decide, Fits
<1>2. CASE Fail(t, SessionRefuses(Entry(t), CallOf(t)))
  BY <1>2, StepLeaves
<1>3. /\ AfterDecide(op) \in {"lockSlot", "lookup", "scan", "generate"}
      /\ Fits(AfterDecide(op), op)
      /\ Under(AfterDecide(op), op) <=> op # "C_GenerateKeyPair"
      /\ AfterDecide("C_GenerateKeyPair") = "generate"
  BY <1>1 DEF AfterDecide, Fits, Under, Decides, PinCalls, KeyCalls, AttributeCalls
<1>4. /\ Under("decide", op) /\ "decide" \notin UnderSlotLock
      /\ AfterDecide(op) \notin UnderSlotLock
  BY <1>3 DEF Under, UnderSlotLock
<1>5. CASE /\ op # "C_GenerateKeyPair" /\ Go(t, AfterDecide(op))
           /\ UNCHANGED <<local, lockVars>>
  <2> HIDE DEF op
  <2> QED BY <1>1, <1>3, <1>4, <1>5, GoesOn DEF op
<1>6. CASE /\ op = "C_GenerateKeyPair" /\ Go(t, "generate")
           /\ session_lock' = [session_lock EXCEPT ![local[t].entry] = NoThread]
           /\ UNCHANGED <<local, slot_lock>>
  <2>1. /\ \A i \in Idx : session_lock'[i] # t
        /\ \A u \in Threads, i \in Idx : u # t => (session_lock'[i] = u <=> session_lock[i] = u)
        /\ DOMAIN session_lock' = Idx
    BY <1>1, <1>4, <1>6, Here
  <2>2. slot_lock # t
    BY <1>1, <1>4, Here
  <2>3. ~Under("generate", op) /\ Fits("generate", op) /\ "generate" \notin UnderSlotLock
    BY <1>6 DEF Under, Fits, UnderSlotLock
  <2>4. MovesTo(t, "generate")
    BY <1>6, <2>1, <2>2, <2>3, Here DEF MovesTo, Go
  <2> QED BY <2>4, Moves
<1>7. \/ Fail(t, SessionRefuses(Entry(t), CallOf(t)))
      \/ /\ Go(t, AfterDecide(op))
         /\ session_lock' = IF op # "C_GenerateKeyPair" THEN session_lock
                            ELSE [session_lock EXCEPT ![local[t].entry] = NoThread]
         /\ UNCHANGED <<local, slot_lock>>
  BY DEF Decide, CallOf, Entry
<1> QED BY <1>2, <1>3, <1>5, <1>6, <1>7 DEF lockVars

\* Two fields of one thread's locals change.
LEMMA TwoFields ==
    ASSUME NEW f, NEW t \in DOMAIN f, NEW a, NEW b
    PROVE  /\ LET g == [f EXCEPT ![t].item = a, ![t].handle = b]
              IN  /\ DOMAIN g = DOMAIN f /\ \A u \in DOMAIN f : u # t => g[u] = f[u]
                  /\ g[t] = [f[t] EXCEPT !.item = a, !.handle = b]
           /\ LET g == [f EXCEPT ![t].item = a, ![t].seen = b]
              IN  /\ DOMAIN g = DOMAIN f /\ \A u \in DOMAIN f : u # t => g[u] = f[u]
                  /\ g[t] = [f[t] EXCEPT !.item = a, !.seen = b]
  OBVIOUS

LEMMA LookupStep == ASSUME LockInv, NEW t \in Threads, Lookup(t) PROVE LockInv'
<1> DEFINE op == local[t].call.op
<1>1. pc[t] = "lookup" /\ op \in KeyCalls \cup AttributeCalls
  BY Here DEF Lookup, Fits
<1>2. CASE Leave(t)
  BY <1>2, Leaving
<1>3. ASSUME NEW k, NEW h, local' = [local EXCEPT ![t].item = k, ![t].handle = h],
             Go(t, "use"), UNCHANGED lockVars
      PROVE  LockInv'
  <2>1. /\ DOMAIN local' = Threads /\ \A u \in Threads : u # t => local'[u] = local[u]
        /\ local'[t] = [local[t] EXCEPT !.item = k, !.handle = h]
    <3>1. DOMAIN local = Threads
      BY Here
    <3> QED BY <1>3, <3>1, TwoFields
  <2>2. /\ Locals(local'[t]) /\ local'[t].call = local[t].call
        /\ local'[t].entry = local[t].entry
    BY <2>1, Here DEF Locals
  <2>3. /\ Fits("use", op) /\ (Under("use", op) <=> Under("lookup", op))
        /\ "lookup" \notin UnderSlotLock /\ "use" \notin UnderSlotLock
    BY <1>1 DEF Fits, Under, UnderSlotLock
  <2> QED BY <1>1, <1>3, <2>1, <2>2, <2>3, MovesOn, SMTT(30)
<1> QED BY <1>2, <1>3 DEF Lookup

LEMMA ScanStep == ASSUME LockInv, NEW t \in Threads, Scan(t) PROVE LockInv'
<1>1. pc[t] = "scan" /\ pc = [pc EXCEPT ![t] = "scan"]
  BY DEF Scan, LockInv
<1>2. CASE Leave(t)
  BY <1>2, Leaving
<1>3. ASSUME NEW n, NEW s, local' = [local EXCEPT ![t].item = n, ![t].seen = s],
             UNCHANGED <<pc, lockVars>>
      PROVE  LockInv'
  <2>1. /\ DOMAIN local' = Threads /\ \A u \in Threads : u # t => local'[u] = local[u]
        /\ local'[t] = [local[t] EXCEPT !.item = n, !.seen = s]
    <3>1. DOMAIN local = Threads
      BY Here
    <3> QED BY <1>3, <3>1, TwoFields
  <2>2. /\ Locals(local'[t]) /\ local'[t].call = local[t].call
        /\ local'[t].entry = local[t].entry
    BY <2>1, Here DEF Locals
  <2>3. Go(t, "scan") /\ Fits("scan", local[t].call.op)
    BY <1>1, <1>3, Here DEF Go
  <2> QED BY <1>1, <1>3, <2>1, <2>2, <2>3, MovesOn, SMTT(30)
<1> QED BY <1>2, <1>3, SMTT(30) DEF Scan

LEMMA GenerateStep == ASSUME LockInv, NEW t \in Threads, Generate(t) PROVE LockInv'
<1>1. pc[t] = "generate" /\ local[t].call.op = "C_GenerateKeyPair"
  BY Here DEF Generate, Fits
<1>2. CASE Leave(t)
  BY <1>2, Leaving
<1>3. CASE Go(t, "slot") /\ UNCHANGED <<local, lockVars>>
  <2>1. /\ Fits("slot", local[t].call.op) /\ "slot" \notin UnderSlotLock
        /\ "generate" \notin UnderSlotLock
        /\ ~Under("slot", local[t].call.op) /\ ~Under("generate", local[t].call.op)
    BY <1>1 DEF Fits, UnderSlotLock, Under
  <2> QED BY <1>1, <1>3, <2>1, Unlocked
<1> QED BY <1>2, <1>3 DEF Generate

LEMMA ReadSlotIdStep == ASSUME LockInv, NEW t \in Threads, ReadSlotId(t) PROVE LockInv'
<1>1. pc[t] = "slot" /\ local[t].call.op \in TableCalls \cup {"C_GenerateKeyPair"}
  BY Here DEF ReadSlotId, Fits
<1>2. /\ Fits("lockSlot", local[t].call.op)
      /\ "slot" \notin UnderSlotLock /\ "lockSlot" \notin UnderSlotLock
      /\ ~Under("slot", local[t].call.op) /\ ~Under("lockSlot", local[t].call.op)
  BY <1>1 DEF Fits, UnderSlotLock, Under, TableCalls, PinCalls
<1>3. Go(t, "lockSlot") /\ UNCHANGED <<local, lockVars>>
  BY DEF ReadSlotId
<1> QED BY <1>1, <1>2, <1>3, Unlocked

LEMMA LockSlotStep == ASSUME LockInv, NEW t \in Threads, LockSlot(t) PROVE LockInv'
<1> DEFINE op == local[t].call.op
<1>1. /\ pc[t] = "lockSlot" /\ slot_lock = NoThread /\ slot_lock' = t
      /\ pc' = [pc EXCEPT ![t] = "body"] /\ UNCHANGED <<local, session_lock>>
  BY DEF LockSlot, Go
<1>2. /\ Fits("body", op) /\ "body" \in UnderSlotLock
      /\ Under("body", op) <=> Under("lockSlot", op)
  BY <1>1, Here DEF Fits, UnderSlotLock, Under
<1>3. \A u \in Threads : u # t => (slot_lock' = u <=> slot_lock = u)
  BY <1>1, Here
<1>4. \A i \in Idx : session_lock'[i] = t <=> Under("body", op) /\ local'[t].entry = i
  BY <1>1, <1>2, Here
<1>5. MovesTo(t, "body")
  BY <1>1, <1>2, <1>3, <1>4, Here DEF MovesTo
<1> QED BY <1>5, Moves

LEMMA RelockStep ==
    ASSUME LockInv, NEW t \in Threads, pc[t] = "body", Relock(t) PROVE LockInv'
<1>1. /\ local[t].call.op \in {"C_CloseAllSessions", "C_InitToken"}
      /\ Go(t, "hang") /\ UNCHANGED <<local, lockVars>>
  BY DEF Relock, CallOf
<1>2. /\ Fits("hang", local[t].call.op) /\ "hang" \in UnderSlotLock /\ "body" \in UnderSlotLock
      /\ ~Under("hang", local[t].call.op) /\ ~Under("body", local[t].call.op)
  BY <1>1 DEF Fits, UnderSlotLock, Under, PinCalls
<1> QED BY <1>1, <1>2, GoesOn

LEMMA CreateStep ==
    ASSUME LockInv, NEW t \in Threads, pc[t] = "body", Create(t) PROVE LockInv'
<1> DEFINE op == local[t].call.op
<1>1. PICK k, h : local' = [local EXCEPT ![t].item = k, ![t].handle = h]
  BY DEF Create
<1>2. op = "C_CreateObject" /\ Go(t, "save") /\ UNCHANGED lockVars
  BY DEF Create, CallOf
<1>3. /\ DOMAIN local' = Threads /\ \A u \in Threads : u # t => local'[u] = local[u]
      /\ local'[t] = [local[t] EXCEPT !.item = k, !.handle = h]
  <2>1. DOMAIN local = Threads
    BY Here
  <2> QED BY <1>1, <2>1, TwoFields
<1>4. Locals(local'[t]) /\ local'[t].call = local[t].call
  BY <1>3, Here DEF Locals
<1>5. /\ Fits("save", op) /\ "save" \in UnderSlotLock /\ "body" \in UnderSlotLock
      /\ ~Under("save", op) /\ ~Under("body", op)
  BY <1>2 DEF Fits, UnderSlotLock, Under, PinCalls
<1> QED BY <1>2, <1>3, <1>4, <1>5, MovesOn

LEMMA SaveStep == ASSUME LockInv, NEW t \in Threads, Save(t) PROVE LockInv'
<1> DEFINE op == local[t].call.op
<1>1. /\ pc[t] = "save" /\ op = "C_CreateObject" /\ slot_lock' = NoThread
      /\ pc' = [pc EXCEPT ![t] = "log"] /\ UNCHANGED <<local, session_lock>>
  BY Here DEF Save, Go, Fits
<1>2. /\ Fits("log", op) /\ "log" \notin UnderSlotLock /\ "save" \in UnderSlotLock
      /\ ~Under("log", op) /\ ~Under("save", op)
  BY <1>1 DEF Fits, UnderSlotLock, Under
<1>3. slot_lock = t /\ \A i \in Idx : session_lock[i] # t
  BY <1>1, <1>2, Here
<1>4. MovesTo(t, "log")
  BY <1>1, <1>2, <1>3, Here DEF MovesTo
<1> QED BY <1>4, Moves

LEMMA FirstKeyStep ==
    ASSUME LockInv, NEW t \in Threads, pc[t] = "body", FirstKey(t) PROVE LockInv'
<1> DEFINE op == local[t].call.op
<1>1. op = "C_GenerateKeyPair" /\ Go(t, "pair") /\ UNCHANGED lockVars
  BY DEF FirstKey, CallOf
<1>2. /\ Fits("pair", op) /\ "pair" \in UnderSlotLock /\ "body" \in UnderSlotLock
      /\ ~Under("pair", op) /\ ~Under("body", op)
  BY <1>1 DEF Fits, UnderSlotLock, Under, PinCalls
<1>3. PICK k \in ObjIdx : local' = [local EXCEPT ![t].item = k]
  BY DEF FirstKey
<1>4. /\ DOMAIN local' = Threads /\ \A u \in Threads : u # t => local'[u] = local[u]
      /\ Locals(local'[t]) /\ local'[t].call = local[t].call
  BY <1>3, Here DEF Locals
<1> QED BY <1>1, <1>2, <1>4, MovesOn

LEMMA FreeEntryStep ==
    ASSUME LockInv, NEW t \in Threads, pc[t] = "body", FreeEntry(t) PROVE LockInv'
<1> DEFINE op == local[t].call.op
<1>1. Go(t, "clear") /\ UNCHANGED lockVars /\ op \in {"C_CloseSession", "C_DestroyObject"}
  BY DEF FreeEntry, CallOf
<1>2. /\ Fits("clear", op) /\ "clear" \in UnderSlotLock /\ "body" \in UnderSlotLock
      /\ ~Under("clear", op) /\ ~Under("body", op)
  BY <1>1 DEF Fits, UnderSlotLock, Under, PinCalls
<1>3. \/ \E i \in Idx : local' = [local EXCEPT ![t].entry = i]
      \/ \E k \in ObjIdx : local' = [local EXCEPT ![t].item = k]
  BY DEF FreeEntry
<1>4. /\ DOMAIN local' = Threads /\ \A u \in Threads : u # t => local'[u] = local[u]
      /\ Locals(local'[t]) /\ local'[t].call = local[t].call
  <2>1. ASSUME NEW i \in Idx, local' = [local EXCEPT ![t].entry = i] PROVE <1>4
    BY <2>1, Here DEF Locals
  <2>2. ASSUME NEW k, local' = [local EXCEPT ![t].item = k] PROVE <1>4
    BY <2>2, Here DEF Locals
  <2> QED BY <1>3, <2>1, <2>2
<1> QED BY <1>1, <1>2, <1>4, MovesOn

LEMMA BodyStep == ASSUME LockInv, NEW t \in Threads, Body(t) PROVE LockInv'
  BY Leaving, RelockStep, CreateStep, FirstKeyStep, FreeEntryStep DEF Body

\* C_Initialize and C_Finalize take neither a slot's lock nor a session's.
LEMMA LibraryMoves ==
    ASSUME LockInv, NEW t \in Threads, NEW label \in Labelled, Go(t, label),
           UNCHANGED <<local, lockVars>>,
           pc[t] \in {"lockGlobal", "test", "reset", "cleanup"},
           label \in {"test", "reset", "start", "cleanup", "end"}
    PROVE  LockInv'
<1>1. local[t].call.op \in LibraryCalls
  BY Here DEF Fits
<1>2. /\ Fits(label, local[t].call.op) /\ label \notin UnderSlotLock
      /\ pc[t] \notin UnderSlotLock
      /\ ~Under(label, local[t].call.op) /\ ~Under(pc[t], local[t].call.op)
  BY <1>1 DEF Fits, UnderSlotLock, Under, LibraryCalls
<1> QED BY <1>2, Unlocked

LEMMA LibraryStep ==
    ASSUME LockInv, NEW t \in Threads, LockGlobal(t) \/ Test(t) \/ Reset(t) \/ Cleanup(t)
    PROVE  LockInv'
<1>1. CASE LockGlobal(t)
  <2>1. pc[t] = "lockGlobal" /\ Go(t, "test") /\ UNCHANGED <<local, lockVars>>
    BY <1>1 DEF LockGlobal
  <2> QED BY <2>1, LibraryMoves
<1>2. CASE Test(t)
  <2>1. CASE Leave(t)
    BY <2>1, Leaving
  <2>2. CASE Go(t, "reset") /\ UNCHANGED <<local, lockVars>>
    BY <1>2, <2>2, LibraryMoves DEF Test
  <2>3. CASE Go(t, "cleanup") /\ UNCHANGED <<local, lockVars>>
    BY <1>2, <2>3, LibraryMoves DEF Test
  <2> QED BY <1>2, <2>1, <2>2, <2>3 DEF Test
<1>3. CASE Reset(t)
  <2>1. pc[t] = "reset" /\ Go(t, "start") /\ UNCHANGED <<local, lockVars>>
    BY <1>3 DEF Reset
  <2> QED BY <2>1, LibraryMoves
<1>4. CASE Cleanup(t)
  <2>1. pc[t] = "cleanup" /\ Go(t, "end") /\ UNCHANGED <<local, lockVars>>
    BY <1>4 DEF Cleanup
  <2> QED BY <2>1, LibraryMoves
<1> QED BY <1>1, <1>2, <1>3, <1>4

LEMMA LockInvStep == LockInv /\ [ThreadsNext]_everything => LockInv'
<1> SUFFICES ASSUME LockInv, [ThreadsNext]_everything PROVE LockInv'
  OBVIOUS
<1>1. ASSUME NEW t \in Threads, Step(t) PROVE LockInv'
  <2>1. CASE Work(t) \/ Use(t) \/ SecondKey(t) \/ Clear(t) \/ Log(t) \/ Start(t) \/ End(t)
    BY <2>1, Leaving DEF Work, Use, SecondKey, Clear, Log, Start, End
  <2>2. CASE Check(t) \/ FindSession(t) \/ LockSession(t) \/ Decide(t)
    BY <2>2, CheckStep, FindStep, LockSessionStep, DecideStep
  <2>3. CASE Lookup(t) \/ Scan(t) \/ Generate(t)
    BY <2>3, LookupStep, ScanStep, GenerateStep
  <2>4. CASE ReadSlotId(t) \/ LockSlot(t) \/ Body(t) \/ Save(t)
    BY <2>4, ReadSlotIdStep, LockSlotStep, BodyStep, SaveStep
  <2>5. CASE LockGlobal(t) \/ Test(t) \/ Reset(t) \/ Cleanup(t)
    BY <2>5, LibraryStep
  <2> QED BY <1>1, <2>1, <2>2, <2>3, <2>4, <2>5 DEF Step
<1>2. CASE UNCHANGED everything
  <2>1. UNCHANGED <<pc, local, slot_lock, session_lock>>
    BY <1>2 DEF everything, threadVars, lockVars
  <2> QED BY <2>1 DEF LockInv, Owned, Locals, Fits
<1> QED BY <1>1, <1>2, BeginStep DEF ThreadsNext

\* However many threads call the library, and whatever they call while the
\* others do, a thread owns the lock of the slot, and of the session it works
\* on, exactly between the code's lock and unlock: every way out of a call
\* gives back what it took, no call takes a lock it holds, and two threads are
\* never inside one slot or one session.
THEOREM LocksAreHeld == ThreadsSpec => []LocksHeld
<1>1. ThreadsSpec => []LockInv
  BY LockInvInit, LockInvStep, PTL DEF ThreadsSpec
<1> QED BY <1>1, LockInvImplies, PTL
=============================================================================
