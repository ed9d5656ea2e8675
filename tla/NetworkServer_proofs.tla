------------------------- MODULE NetworkServer_proofs -------------------------
(***************************************************************************)
(* The server with any number of clients and requests.                     *)
(*                                                                         *)
(* LibraryUpWhileServing is inductive with two facts beside it: C_Finalize *)
(* runs only after the slots are freed and the library runs whenever there *)
(* are slots, and a client's thread is there only while the main thread    *)
(* accepts, closes or ends.  The server is one of HsmSession's callers,    *)
(* which gives the library's types, and with what its steps do to the      *)
(* connections and the buffers (ServerEffect) its own types and the length *)
(* of its responses.                                                       *)
(***************************************************************************)
EXTENDS NetworkServer, HsmSession_proofs, SequenceTheorems

\* The main thread before the first accept, and after the end.
Quiet == {"begin", "socket", "listening", "armed", "exited"}

\* The main thread between C_Initialize and C_Finalize.
Served == {"socket", "listening", "armed", "accept", "closing", "finalize"}

Ending == {"end", "return"}

LibraryInv ==
    /\ Open = {}
    /\ slots => initialized
    /\ main \in Served => slots
    /\ main = "end" => initialized /\ ~slots

ThreadInv ==
    /\ DOMAIN thread = Clients
    /\ main \in Quiet => \A c \in Clients : thread[c] \in {"none", "done"}

StackInv ==
    /\ DOMAIN stack = Clients
    /\ \A c \in Clients :
         /\ DOMAIN stack[c] = {"cmd", "length", "rv", "size"}
         /\ stack[c].rv = "CKR_CRYPTOKI_NOT_INITIALIZED" => main \in {"return", "exited"}

ServerInv == main \in Quiet \cup Served \cup Ending /\ LibraryInv /\ ThreadInv /\ StackInv

LEMMA ServerInvImplies == ServerInv => LibraryUpWhileServing
  BY DEF ServerInv, LibraryInv, ThreadInv, StackInv, LibraryUpWhileServing, Quiet, Served, Ending

LEMMA ServerInvInit == ServerInit => ServerInv
<1> SUFFICES ASSUME ServerInit PROVE ServerInv
  OBVIOUS
<1>1. Open = {}
  BY DEF ServerInit, Init, Open
<1>2. Stack.rv = "CKR_OK" /\ DOMAIN Stack = {"cmd", "length", "rv", "size"}
  BY DEF Stack
<1> QED BY <1>1, <1>2 DEF ServerInit, ServerInv, LibraryInv, ThreadInv, StackInv, Quiet, Served, Ending

\* What the library does at the start, at the end, and when the process ends.
LEMMA LibraryCallsKeep ==
    /\ C_Initialize /\ Open = {} => Open' = {}
    /\ C_Finalize => ~initialized'
    /\ C_Finalize /\ Open = {} => Open' = {}
    /\ Crash => ~initialized' /\ Open' = {}
  BY DEF C_Initialize, C_Finalize, Crash, ProcessEnds, StartNow, hsm_init_slot, SlotHolds, Return,
         sessionVars, Open

LEMMA VarsKeep == UNCHANGED vars => initialized' = initialized /\ Open' = Open
  BY DEF vars, sessionVars, Open

LEMMA ExitKeeps == ServerInv /\ Exit => ServerInv'
<1> SUFFICES ASSUME ServerInv, Exit PROVE ServerInv'
  OBVIOUS
<1>1. /\ main' = "exited" /\ slots' = FALSE /\ stack' = stack /\ Crash
      /\ thread' = [c \in Clients |-> IF thread[c] = "none" THEN "none" ELSE "done"]
  BY DEF Exit
<1>2. LibraryInv'
  BY <1>1, LibraryCallsKeep DEF LibraryInv, Served
<1>3. ThreadInv' /\ StackInv'
  BY <1>1 DEF ServerInv, ThreadInv, StackInv
<1> QED BY <1>1, <1>2, <1>3 DEF ServerInv, Quiet

\* A step that changes neither the library nor the threads.
LEMMA ElsewhereKeeps == ServerInv /\ UNCHANGED <<vars, main, thread, stack, slots>> => ServerInv'
  BY VarsKeep DEF ServerInv, LibraryInv, ThreadInv, StackInv

\* A step of a client's thread: only one that finds the library not running
\* says so.
LEMMA ServeKeeps ==
    ASSUME ServerInv, NEW c \in Clients, NEW l,
           thread[c] \notin {"none", "done"},
           UNCHANGED <<vars, main, slots>>,
           thread' = [thread EXCEPT ![c] = l],
           DOMAIN stack' = Clients,
           \A d \in Clients : d # c => stack'[d] = stack[d],
           DOMAIN stack'[c] = {"cmd", "length", "rv", "size"},
           stack'[c].rv = "CKR_CRYPTOKI_NOT_INITIALIZED" =>
              stack[c].rv = "CKR_CRYPTOKI_NOT_INITIALIZED" \/ ~initialized
    PROVE  ServerInv'
<1>1. main \notin Quiet
  BY DEF ServerInv, ThreadInv
<1>2. ~initialized => main = "return"
  BY <1>1 DEF ServerInv, LibraryInv, Served, Ending
<1>3. LibraryInv'
  BY VarsKeep DEF ServerInv, LibraryInv
<1>4. ThreadInv'
  BY <1>1 DEF ServerInv, ThreadInv
<1>5. StackInv'
  BY <1>2 DEF ServerInv, StackInv
<1> QED BY <1>3, <1>4, <1>5 DEF ServerInv

LEMMA ThreadKeeps ==
    ASSUME ServerInv, NEW c \in Clients, NEW l, thread[c] \notin {"none", "done"},
           UNCHANGED <<vars, main, slots, stack>>, thread' = [thread EXCEPT ![c] = l]
    PROVE  ServerInv'
  BY ServeKeeps DEF ServerInv, StackInv

\* The response code a thread puts on its stack.
LEMMA RespondKeeps ==
    ASSUME ServerInv, NEW c \in Clients, NEW code, NEW size, Respond(c, code, size),
           thread[c] \notin {"none", "done"}, UNCHANGED <<vars, main, slots>>,
           code = "CKR_CRYPTOKI_NOT_INITIALIZED" => ~initialized
    PROVE  ServerInv'
<1>1. /\ stack' = [stack EXCEPT ![c] = [stack[c] EXCEPT !.rv = code,
                      !.size = IF code = "CKR_OK" THEN size ELSE 0]]
      /\ thread' = [thread EXCEPT ![c] = "send"]
  BY DEF Respond, Go
<1>2. /\ DOMAIN stack' = Clients /\ \A d \in Clients : d # c => stack'[d] = stack[d]
      /\ DOMAIN stack'[c] = {"cmd", "length", "rv", "size"} /\ stack'[c].rv = code
  BY <1>1 DEF ServerInv, StackInv
<1> QED BY <1>1, <1>2, ServeKeeps

LEMMA HeaderKeeps ==
    ASSUME ServerInv, NEW c \in Clients, thread[c] = "header", NEW cmd, NEW length,
           TakeHeader(c, cmd, length), UNCHANGED <<vars, main, slots>>
    PROVE  ServerInv'
<1>1. stack' = [stack EXCEPT ![c] = [stack[c] EXCEPT !.cmd = cmd, !.length = length]]
  BY DEF TakeHeader
<1>2. /\ DOMAIN stack' = Clients /\ \A d \in Clients : d # c => stack'[d] = stack[d]
      /\ DOMAIN stack'[c] = {"cmd", "length", "rv", "size"} /\ stack'[c].rv = stack[c].rv
  BY <1>1 DEF ServerInv, StackInv
<1>3. PICK l : thread' = [thread EXCEPT ![c] = l]
  BY DEF TakeHeader, Close, NextRound, Go
<1> QED BY <1>2, <1>3, ServeKeeps

LEMMA ServeStep == ASSUME ServerInv, NEW c \in Clients, Serve(c) PROVE ServerInv'
<1>1. CASE ReadHeader(c)
  <2>1. thread[c] = "header" /\ UNCHANGED <<vars, main, slots>>
    BY <1>1 DEF ReadHeader, Elsewhere
  <2>2. CASE Close(c) /\ UNCHANGED <<stream, stack>>
    BY <2>1, <2>2, ThreadKeeps DEF Close, NextRound
  <2>3. CASE \E cmd, length : TakeHeader(c, cmd, length)
    BY <2>1, <2>3, HeaderKeeps
  <2> QED BY <1>1, <2>2, <2>3 DEF ReadHeader, ShortHeader
<1>2. CASE ReadData(c)
  <2>1. thread[c] = "data" /\ UNCHANGED <<vars, main, slots, stack>>
    BY <1>2 DEF ReadData, Elsewhere
  <2>2. PICK l : thread' = [thread EXCEPT ![c] = l]
    BY <1>2 DEF ReadData, Close, NextRound, Go
  <2> QED BY <2>1, <2>2, ThreadKeeps
<1>3. CASE Process(c)
  <2>1. thread[c] = "process" /\ UNCHANGED <<vars, main, slots>>
    BY <1>3 DEF Process, Elsewhere, NotImplemented
  <2>2. CASE Go(c, "look") /\ UNCHANGED stack
    BY <2>1, <2>2, ThreadKeeps DEF Go
  <2>3. ASSUME NEW code, NEW size, Respond(c, code, size),
               code = "CKR_CRYPTOKI_NOT_INITIALIZED" => ~initialized
        PROVE  ServerInv'
    BY <2>1, <2>3, RespondKeeps
  <2> QED BY <1>3, <2>2, <2>3 DEF Process, LooksAtSlots, NotImplemented
<1>4. CASE Look(c)
  <2>1. CASE Exit
    BY <2>1, ExitKeeps
  <2>2. ASSUME NEW code, NEW size, Respond(c, code, size), UNCHANGED <<vars, main, slots>>,
               code = "CKR_CRYPTOKI_NOT_INITIALIZED" => ~initialized
        PROVE  ServerInv'
    BY <1>4, <2>2, RespondKeeps DEF Look
  <2>3. \A h : slots => RandomCode(h) # "CKR_CRYPTOKI_NOT_INITIALIZED"
    BY DEF ServerInv, LibraryInv, RandomCode, hsm_get_session
  <2> QED BY <1>4, <2>1, <2>2, <2>3 DEF Look, Elsewhere
<1>5. CASE Send(c)
  <2>1. CASE Exit
    BY <2>1, ExitKeeps
  <2>2. CASE /\ stack' = [stack EXCEPT ![c] = [Stack EXCEPT !.length = stack[c].length]]
             /\ NextRound(c, running) /\ UNCHANGED <<vars, main, slots>>
    <3>1. /\ DOMAIN stack' = Clients /\ \A d \in Clients : d # c => stack'[d] = stack[d]
          /\ DOMAIN stack'[c] = {"cmd", "length", "rv", "size"} /\ stack'[c].rv = "CKR_OK"
      BY <2>2 DEF ServerInv, StackInv, Stack
    <3>2. PICK l : thread' = [thread EXCEPT ![c] = l]
      BY <2>2 DEF NextRound
    <3> QED BY <1>5, <2>2, <3>1, <3>2, ServeKeeps DEF Send
  <2> QED BY <1>5, <2>1, <2>2 DEF Send, Elsewhere
<1> QED BY <1>1, <1>2, <1>3, <1>4, <1>5 DEF Serve

LEMMA MainStep == ServerInv /\ (Main \/ AcceptFails) => ServerInv'
<1> SUFFICES ASSUME ServerInv, Main \/ AcceptFails PROVE ServerInv'
  OBVIOUS
<1>1. CASE Begin
  <2>1. /\ main = "begin" /\ C_Initialize /\ slots' = initialized'
        /\ main' = IF initialized' THEN "socket" ELSE "exited"
        /\ UNCHANGED <<thread, stack>>
    BY <1>1 DEF Begin, MainGo
  <2>2. LibraryInv'
    BY <2>1, LibraryCallsKeep DEF ServerInv, LibraryInv, Served
  <2>3. ThreadInv' /\ StackInv'
    BY <2>1 DEF ServerInv, ThreadInv, StackInv, Quiet
  <2> QED BY <2>1, <2>2, <2>3 DEF ServerInv, Quiet, Served
<1>2. CASE Listen
  <2>1. CASE Exit
    BY <2>1, ExitKeeps
  <2>2. CASE main' = "listening" /\ UNCHANGED <<vars, thread, stack, slots>>
    BY <1>2, <2>2, VarsKeep
       DEF Listen, ServerInv, LibraryInv, ThreadInv, StackInv, Quiet, Served, Ending
  <2> QED BY <1>2, <2>1, <2>2 DEF Listen, MainGo
<1>3. CASE InstallHandlers
  BY <1>3, VarsKeep DEF InstallHandlers, MainGo, ServerInv, LibraryInv, ThreadInv, StackInv,
                        Quiet, Served, Ending
<1>4. CASE Run
  BY <1>4, VarsKeep DEF Run, MainGo, WhileRunning, ServerInv, LibraryInv, ThreadInv, StackInv,
                        Quiet, Served, Ending
<1>5. CASE Accept
  <2>1. CASE Exit
    BY <2>1, ExitKeeps
  <2>2. CASE /\ NextRound(Head(backlog), running) \/ UNCHANGED thread
             /\ main' = WhileRunning(running) /\ UNCHANGED <<vars, stack, slots>>
    <3>1. main = "accept" /\ main' \in {"accept", "closing"} /\ DOMAIN thread' = DOMAIN thread
      BY <1>5, <2>2 DEF Accept, NextRound, WhileRunning
    <3> QED BY <2>2, <3>1, VarsKeep DEF ServerInv, LibraryInv, ThreadInv, StackInv, Quiet, Served, Ending
  <2> QED BY <1>5, <2>1, <2>2 DEF Accept, MainGo
<1>6. CASE AcceptFails
  BY <1>6, VarsKeep DEF AcceptFails, MainGo, ServerInv, LibraryInv, ThreadInv, StackInv,
                        Quiet, Served, Ending
<1>7. CASE CloseListener
  BY <1>7, VarsKeep DEF CloseListener, MainGo, ServerInv, LibraryInv, ThreadInv, StackInv,
                        Quiet, Served, Ending
<1>8. CASE FreeSlots
  BY <1>8, VarsKeep DEF FreeSlots, MainGo, ServerInv, LibraryInv, ThreadInv, StackInv,
                        Quiet, Served, Ending
<1>9. CASE Finalize
  BY <1>9, LibraryCallsKeep DEF Finalize, MainGo, ServerInv, LibraryInv, ThreadInv, StackInv,
                                Quiet, Served, Ending
<1>10. CASE Return0
  BY <1>10, ExitKeeps DEF Return0
<1> QED BY <1>1, <1>2, <1>3, <1>4, <1>5, <1>6, <1>7, <1>8, <1>9, <1>10 DEF Main

LEMMA SignalStep == ServerInv /\ Signal => ServerInv'
<1> SUFFICES ASSUME ServerInv, Signal PROVE ServerInv'
  OBVIOUS
<1>1. CASE Exit
  BY <1>1, ExitKeeps
<1>2. CASE UNCHANGED <<vars, main, slots, thread, stack>>
  BY <1>2, ElsewhereKeeps
<1>3. ASSUME NEW c \in Clients, ShortHeader(c), UNCHANGED <<vars, main, slots>> PROVE ServerInv'
  BY <1>3, HeaderKeeps DEF ShortHeader
<1>4. ASSUME NEW c \in Clients, thread[c] = "data", Close(c), UNCHANGED <<vars, main, slots, stack>>
      PROVE  ServerInv'
  BY <1>4, ThreadKeeps DEF Close, NextRound
<1> QED BY <1>1, <1>2, <1>3, <1>4 DEF Signal

LEMMA ServerInvStep == ServerInv /\ [ServerNext]_allVars => ServerInv'
<1> SUFFICES ASSUME ServerInv, [ServerNext]_allVars PROVE ServerInv'
  OBVIOUS
<1>1. ASSUME NEW c \in Clients, Connect(c) \/ SendByte(c) \/ Disconnect(c) PROVE ServerInv'
  BY <1>1, ElsewhereKeeps DEF Connect, SendByte, Disconnect, ByClient
<1>2. ASSUME NEW c \in Clients, NEW r, Ask(c, r) PROVE ServerInv'
  BY <1>2, ElsewhereKeeps DEF Ask, ByClient
<1>3. CASE UNCHANGED allVars
  BY <1>3, ElsewhereKeeps DEF allVars, serverVars
<1> QED BY <1>1, <1>2, <1>3, MainStep, ServeStep, SignalStep DEF ServerNext

-----------------------------------------------------------------------------
\* However many clients there are and whenever they come, go or are cut off:
\* while the main thread serves, the library runs with its slots and without a
\* session; a thread meets freed slots only after C_Finalize of the main thread
\* has begun, and only then is a client told that the library does not run.
THEOREM LibraryStaysUp == ServerSpec => []LibraryUpWhileServing
<1>1. ServerSpec => []ServerInv
  BY ServerInvInit, ServerInvStep, PTL DEF ServerSpec
<1> QED BY <1>1, ServerInvImplies, PTL
-----------------------------------------------------------------------------
(* The library behind the server.                                          *)

\* What a step of the server does to the library.
LEMMA LibraryStep == ~hung /\ [ServerNext]_allVars => [Next]_vars /\ ~hung'
<1> SUFFICES ASSUME ~hung, [ServerNext]_allVars PROVE [Next]_vars /\ ~hung'
  OBVIOUS
<1>1. UNCHANGED vars => [Next]_vars /\ ~hung'
  BY DEF vars
<1>2. C_Initialize \/ C_Finalize => [Next]_vars /\ ~hung'
  BY DEF Next, Call, C_Initialize, C_Finalize, StartNow, Return
<1>3. Exit => [Next]_vars /\ ~hung'
  BY DEF Exit, Next, Crash, ProcessEnds
<1>4. ASSUME Main \/ AcceptFails \/ Signal
      PROVE  UNCHANGED vars \/ C_Initialize \/ C_Finalize \/ Exit
  BY <1>4 DEF Main, Begin, Listen, InstallHandlers, Run, Accept, AcceptFails, CloseListener,
              FreeSlots, Finalize, Return0, Signal
<1>5. ASSUME NEW c \in Clients, Serve(c) PROVE UNCHANGED vars \/ Exit
  <2>1. Process(c) => UNCHANGED vars
    BY DEF Process, NotImplemented
  <2> QED BY <1>5, <2>1 DEF Serve, ReadHeader, ReadData, Look, Send
<1>6. ASSUME NEW c \in Clients, Connect(c) \/ SendByte(c) \/ Disconnect(c) \/ \E r : Ask(c, r)
      PROVE  UNCHANGED vars
  BY <1>6 DEF Connect, SendByte, Disconnect, Ask, ByClient
<1>7. UNCHANGED allVars => UNCHANGED vars
  BY DEF allVars
<1> QED BY <1>1, <1>2, <1>3, <1>4, <1>5, <1>6, <1>7 DEF ServerNext

\* However the server is used and stopped, it uses the library as HsmSession
\* specifies it: what is proved of every behaviour of HsmSession holds of the
\* library behind the server.
THEOREM ServerUsesLibrary == ServerSpec => Spec
<1>1. ServerInit => Init /\ ~hung
  BY DEF ServerInit, Init
<1> QED BY <1>1, LibraryStep, PTL DEF ServerSpec, Spec
-----------------------------------------------------------------------------
(* What a step does to the connections, the threads and their buffers.     *)

Labels == {"begin", "socket", "listening", "armed", "accept", "closing", "finalize", "end",
           "return", "exited"}

\* A thread that has read the header of a request and not answered it.
Busy(c) == thread[c] \in {"data", "process", "look", "send"}

\* A signal stops the server for good.
Flags ==
    /\ main' \in Labels /\ running' \in BOOLEAN /\ signalled' \in BOOLEAN /\ slots' \in BOOLEAN
    /\ signalled => signalled'
    /\ running' => running \/ main = "armed"

Stays == UNCHANGED <<backlog, conn, clientVars, stream, answers, thread, stack>>

Accepts ==
    /\ main = "accept" /\ backlog # <<>> /\ backlog' = Tail(backlog)
    /\ \/ NextRound(Head(backlog), running)
       \/ conn' = [conn EXCEPT ![Head(backlog)] = "leaked"] /\ UNCHANGED thread
    /\ UNCHANGED <<clientVars, stream, answers, stack>>

Resets ==
    /\ backlog' = <<>>
    /\ conn' = [c \in Clients |-> IF conn[c] = "backlog" THEN "closed" ELSE conn[c]]
    /\ UNCHANGED <<clientVars, stream, answers, thread, stack>>

Begins(c) ==
    /\ thread[c] = "header"
    /\ Len(stream[c]) >= 2
    /\ TakeHeader(c, stream[c][1], stream[c][2])
    /\ stream' = [stream EXCEPT ![c] = SubSeq(stream[c], 3, Len(stream[c]))]
    /\ UNCHANGED <<backlog, clientVars, answers>>

BeginsShort(c) ==
    /\ ShortHeader(c)
    /\ gone[c] \/ (signalled' /\ ~running')
    /\ UNCHANGED <<backlog, clientVars, answers>>

Quits(c) ==
    /\ thread[c] \in {"header", "data"}
    /\ Close(c)
    /\ gone[c] \/ signalled'
    /\ UNCHANGED <<backlog, clientVars, stream, answers, stack>>

TakesData(c) ==
    /\ thread[c] = "data"
    /\ Len(stream[c]) >= stack[c].length
    /\ stream' = [stream EXCEPT ![c] = SubSeq(stream[c], stack[c].length + 1, Len(stream[c]))]
    /\ Go(c, "process")
    /\ UNCHANGED <<backlog, conn, clientVars, answers, stack>>

Looks(c) ==
    /\ thread[c] = "process"
    /\ Go(c, "look")
    /\ UNCHANGED <<backlog, conn, clientVars, stream, answers, stack>>

Composes(c) ==
    /\ thread[c] \in {"process", "look"}
    /\ \E code \in Codes, size \in Nat :
         /\ code = "CKR_OK" => Open # {} \/ size \in {INFO_SIZE, ULONG_SIZE, 2 * ULONG_SIZE}
         /\ Respond(c, code, size)
    /\ UNCHANGED <<backlog, conn, clientVars, stream, answers>>

Answers(c) ==
    /\ thread[c] = "send"
    /\ answers' = [answers EXCEPT ![c] = Append(answers[c],
          [cmd |-> stack[c].cmd, size |-> stack[c].size, announced |-> stack[c].size % BYTE])]
    /\ stack' = [stack EXCEPT ![c] = [Stack EXCEPT !.length = stack[c].length]]
    /\ NextRound(c, running)
    /\ UNCHANGED <<backlog, clientVars, stream>>

ByThread(c) == Begins(c) \/ BeginsShort(c) \/ Quits(c) \/ TakesData(c) \/ Looks(c) \/ Composes(c)
               \/ Answers(c)

ServerEffect ==
    \/ Stays \/ Exit \/ Accepts \/ Resets
    \/ \E c \in Clients : ByThread(c) \/ Connect(c) \/ SendByte(c) \/ Disconnect(c)
    \/ \E c \in Clients : \E r \in Requests[c] : Ask(c, r)

LEMMA SizesKnown == INFO_SIZE \in Nat /\ ULONG_SIZE \in Nat /\ 2 * ULONG_SIZE \in Nat /\ RandomSizes \subseteq Nat
  BY ServerAssumption

LEMMA ServeEffect == ASSUME NEW c \in Clients, Serve(c) PROVE Exit \/ ByThread(c)
<1> USE DEF Elsewhere
<1>1. CASE ReadHeader(c)
  BY <1>1 DEF ReadHeader, ByThread, Begins, BeginsShort, Quits
<1>2. CASE ReadData(c)
  BY <1>2 DEF ReadData, ByThread, TakesData, Quits
<1>3. CASE Process(c)
  <2>1. thread[c] = "process" /\ UNCHANGED <<backlog, conn, clientVars, stream, answers>>
    BY <1>3 DEF Process
  <2>2. CASE Go(c, "look") /\ UNCHANGED stack
    BY <2>1, <2>2 DEF ByThread, Looks
  <2>3. ASSUME NEW code \in Codes, NEW size \in {0, INFO_SIZE}, Respond(c, code, size),
               code = "CKR_OK" => size = INFO_SIZE
        PROVE  ByThread(c)
    BY <2>1, <2>3, SizesKnown DEF ByThread, Composes
  <2>4. {"CKR_OK", "CKR_CRYPTOKI_NOT_INITIALIZED", "CKR_FUNCTION_FAILED", "CKR_FUNCTION_NOT_SUPPORTED"}
           \subseteq Codes
    BY DEF Codes
  <2> QED BY <1>3, <2>2, <2>3, <2>4 DEF Process, LooksAtSlots, NotImplemented
<1>4. CASE Look(c)
  <2>1. thread[c] = "look"
    BY <1>4 DEF Look
  <2>2. ASSUME NEW code \in Codes, NEW size \in Nat, Respond(c, code, size),
               code = "CKR_OK" => Open # {} \/ size \in {ULONG_SIZE, 2 * ULONG_SIZE},
               UNCHANGED <<backlog, conn, clientVars, stream, answers>>
        PROVE  ByThread(c)
    BY <2>1, <2>2 DEF ByThread, Composes
  <2>3. "CKR_OK" \in Codes /\ "CKR_SESSION_HANDLE_INVALID" \in Codes
    BY DEF Codes
  <2>4. \A h \in Handles : RandomCode(h) \in Codes /\ (RandomCode(h) = "CKR_OK" => Open # {})
    BY CodeTypes DEF RandomCode, hsm_get_session
  <2> QED BY <1>4, <2>2, <2>3, <2>4, SizesKnown DEF Look
<1>5. CASE Send(c)
  BY <1>5 DEF Send, ByThread, Answers
<1> QED BY <1>1, <1>2, <1>3, <1>4, <1>5 DEF Serve

LEMMA ServerEffects == [ServerNext]_allVars => ServerEffect
<1> SUFFICES ASSUME [ServerNext]_allVars PROVE ServerEffect
  OBVIOUS
<1>1. CASE Main \/ AcceptFails
  <2>1. CASE Begin \/ Listen \/ InstallHandlers \/ Run \/ AcceptFails \/ FreeSlots \/ Finalize \/ Return0
    BY <2>1 DEF ServerEffect, Stays, Begin, Listen, InstallHandlers, Run, AcceptFails, FreeSlots,
                Finalize, Return0
  <2>2. CASE Accept \/ CloseListener
    BY <2>2 DEF ServerEffect, Accepts, Resets, Accept, CloseListener
  <2> QED BY <1>1, <2>1, <2>2 DEF Main
<1>2. CASE Signal
  <2>1. CASE Exit \/ Stays
    BY <2>1 DEF ServerEffect
  <2>2. ASSUME NEW c \in Clients, ShortHeader(c), signalled', ~running',
               UNCHANGED <<backlog, clientVars, answers>>
        PROVE  ServerEffect
    BY <2>2 DEF ServerEffect, ByThread, BeginsShort
  <2>3. ASSUME NEW c \in Clients, thread[c] = "data", Close(c), signalled',
               UNCHANGED <<backlog, clientVars, answers, stream, stack>>
        PROVE  ServerEffect
    BY <2>3 DEF ServerEffect, ByThread, Quits
  <2> QED BY <1>2, <2>1, <2>2, <2>3 DEF Signal, Stays
<1>3. CASE UNCHANGED allVars
  BY <1>3 DEF ServerEffect, Stays, allVars, serverVars
<1> QED BY <1>1, <1>2, <1>3, ServeEffect DEF ServerNext, ServerEffect

LEMMA ServerFlags ==
    ASSUME main \in Labels, running \in BOOLEAN, signalled \in BOOLEAN, slots \in BOOLEAN,
           initialized' \in BOOLEAN, [ServerNext]_allVars
    PROVE  Flags
<1>1. ASSUME Exit, signalled' \in BOOLEAN, signalled => signalled' PROVE Flags
  <2>1. main' = "exited" /\ running' = FALSE /\ slots' = FALSE
    BY <1>1 DEF Exit
  <2> QED BY <1>1, <2>1 DEF Flags, Labels
<1>2. CASE UNCHANGED <<main, running, signalled, slots>>
  BY <1>2 DEF Flags
<1>3. CASE Main \/ AcceptFails
  <2>1. CASE Begin
    BY <2>1 DEF Begin, MainGo, Flags, Labels
  <2>2. CASE Listen \/ Accept \/ Return0
    <3>1. Listen \/ Accept \/ Return0 => \/ Exit /\ UNCHANGED signalled
                                       \/ /\ main' \in {"listening", "accept", "closing"}
                                          /\ UNCHANGED <<running, signalled, slots>>
      BY DEF Listen, Accept, Return0, MainGo, WhileRunning
    <3>2. CASE main' \in {"listening", "accept", "closing"} /\ UNCHANGED <<running, signalled, slots>>
      BY <3>2 DEF Flags, Labels
    <3> QED BY <1>1, <2>2, <3>1, <3>2
  <2>3. CASE Run
    BY <2>3 DEF Run, MainGo, WhileRunning, Flags, Labels
  <2>4. CASE InstallHandlers \/ AcceptFails \/ CloseListener \/ FreeSlots \/ Finalize
    <3>1. /\ main' \in {"armed", "closing", "finalize", "end", "return"} /\ slots' \in {slots, FALSE}
          /\ UNCHANGED <<running, signalled>>
      BY <2>4 DEF InstallHandlers, AcceptFails, CloseListener, FreeSlots, Finalize, MainGo
    <3> QED BY <3>1 DEF Flags, Labels
  <2> QED BY <1>3, <2>1, <2>2, <2>3, <2>4 DEF Main
<1>4. CASE Signal
  <2>1. Signal => signalled' = TRUE
    BY DEF Signal
  <2>2. Signal => Exit \/ (running' = FALSE /\ UNCHANGED <<main, slots>>)
    BY DEF Signal
  <2>3. CASE running' = FALSE /\ signalled' = TRUE /\ UNCHANGED <<main, slots>>
    BY <2>3 DEF Flags
  <2> QED BY <1>1, <1>4, <2>1, <2>2, <2>3
<1>5. ASSUME NEW c \in Clients, Serve(c) PROVE Flags
  <2>1. Serve(c) => (Exit /\ UNCHANGED signalled) \/ UNCHANGED <<main, running, signalled, slots>>
    BY DEF Serve, ReadHeader, ReadData, Process, Look, Send, Elsewhere
  <2> QED BY <1>1, <1>2, <1>5, <2>1
<1>6. ASSUME NEW c \in Clients, Connect(c) \/ SendByte(c) \/ Disconnect(c) \/ \E r : Ask(c, r)
      PROVE  Flags
  <2>1. UNCHANGED <<main, running, signalled, slots>>
    BY <1>6 DEF Connect, SendByte, Disconnect, Ask, ByClient
  <2> QED BY <1>2, <2>1
<1>7. CASE UNCHANGED allVars
  <2>1. UNCHANGED <<main, running, signalled, slots>>
    BY <1>7 DEF allVars, serverVars
  <2> QED BY <1>2, <2>1
<1> QED BY <1>3, <1>4, <1>5, <1>6, <1>7 DEF ServerNext
-----------------------------------------------------------------------------
(* The types.                                                              *)

Conns   == {"none", "backlog", "served", "leaked", "closed"}
Threads == {"none", "header", "data", "process", "look", "send", "done"}

MainOK == main \in Labels /\ running \in BOOLEAN /\ signalled \in BOOLEAN /\ slots \in BOOLEAN

\* A connection, its place in the backlog and its thread.
ConnectionOK(c) ==
    /\ conn[c] = "served" <=> thread[c] \notin {"none", "done"}
    /\ conn[c] \in {"none", "backlog", "leaked"} => thread[c] = "none"
    /\ conn[c] = "backlog" <=> \E n \in DOMAIN backlog : backlog[n] = c

ConnectionsOK ==
    /\ backlog \in Seq(Clients)
    /\ \A m, n \in DOMAIN backlog : backlog[m] = backlog[n] => m = n
    /\ conn \in [Clients -> Conns] /\ thread \in [Clients -> Threads]
    /\ \A c \in Clients : ConnectionOK(c)

\* What the clients and the threads hold.  A thread that has read a header has
\* a command, and waits for data only by a length there is room for.
ContentsOK ==
    /\ stack \in [Clients -> Buffers]
    /\ gone \in [Clients -> BOOLEAN]
    /\ stream \in [Clients -> Seq(Nat)] /\ left \in [Clients -> Seq(Nat)]
    /\ answers \in [Clients -> Seq(Response)]
    /\ DOMAIN asked = Clients /\ \A c \in Clients : asked[c] \in Seq(Requests[c])
    /\ \A c \in Clients : Busy(c) => stack[c].cmd \in Nat
    /\ \A c \in Clients : thread[c] = "data" => stack[c].length \in 1 .. BUFFER_SIZE

TypesInv == MainOK /\ ConnectionsOK /\ ContentsOK

LEMMA TypesInvImplies == TypeOK /\ TypesInv => ServerTypeOK
  BY DEF TypesInv, MainOK, ConnectionsOK, ConnectionOK, ContentsOK, ServerTypeOK, Labels, Conns, Threads

LEMMA TypesInvInit == ServerInit => TypesInv
<1> SUFFICES ASSUME ServerInit PROVE TypesInv
  OBVIOUS
<1>1. MainOK
  BY DEF ServerInit, MainOK, Labels
<1>0. ConnectionsOK
  <2>1. backlog = <<>> /\ backlog \in Seq(Clients) /\ DOMAIN backlog = {}
    BY DEF ServerInit
  <2> QED BY <2>1 DEF ServerInit, ConnectionsOK, ConnectionOK, Conns, Threads
<1>2. Stack \in Buffers
  BY DEF Stack, Buffers, Codes
<1>3. ContentsOK
  BY <1>2 DEF ServerInit, ContentsOK, Busy
<1> QED BY <1>0, <1>1, <1>3 DEF TypesInv

\* A thread that is there goes on or ends, with its connection.
LEMMA ConnectionsGoOn ==
    ASSUME ConnectionsOK, NEW c \in Clients, thread[c] \notin {"none", "done"}, UNCHANGED backlog,
           NEW l \in Threads \ {"none"}, thread' = [thread EXCEPT ![c] = l],
           NEW k, conn' = [conn EXCEPT ![c] = k], l = "done" => k = "closed", l # "done" => k = "served"
    PROVE  ConnectionsOK'
<1>1. conn[c] = "served"
  BY DEF ConnectionsOK, ConnectionOK
<1>2. conn' \in [Clients -> Conns] /\ thread' \in [Clients -> Threads]
  BY DEF ConnectionsOK, Conns
<1>3. ASSUME NEW d \in Clients PROVE ConnectionOK(d)'
  BY <1>1 DEF ConnectionsOK, ConnectionOK
<1> QED BY <1>2, <1>3 DEF ConnectionsOK

LEMMA ConnectionsStep == ConnectionsOK /\ ServerEffect => ConnectionsOK'
<1> SUFFICES ASSUME ConnectionsOK, ServerEffect PROVE ConnectionsOK'
  OBVIOUS
<1>1. ASSUME UNCHANGED <<backlog, conn, thread>> PROVE ConnectionsOK'
  BY <1>1 DEF ConnectionsOK, ConnectionOK
<1>2. CASE Exit
  <2>1. backlog' = <<>> /\ DOMAIN backlog' = {}
    BY <1>2 DEF Exit
  <2>2. conn' \in [Clients -> Conns] /\ thread' \in [Clients -> Threads]
    BY <1>2 DEF Exit, ConnectionsOK, Conns, Threads
  <2>3. ASSUME NEW d \in Clients PROVE ConnectionOK(d)'
    BY <1>2, <2>1 DEF Exit, ConnectionsOK, ConnectionOK
  <2> QED BY <2>1, <2>2, <2>3 DEF ConnectionsOK
<1>3. CASE Resets
  <2>1. backlog' = <<>> /\ DOMAIN backlog' = {}
    BY <1>3 DEF Resets
  <2>2. conn' \in [Clients -> Conns] /\ thread' \in [Clients -> Threads]
    BY <1>3 DEF Resets, ConnectionsOK, Conns, Threads
  <2>3. ASSUME NEW d \in Clients PROVE ConnectionOK(d)'
    BY <1>3, <2>1 DEF Resets, ConnectionsOK, ConnectionOK
  <2> QED BY <2>1, <2>2, <2>3 DEF ConnectionsOK
<1>4. CASE Accepts
  <2> DEFINE c == Head(backlog)
  <2>1. /\ c \in Clients /\ 1 \in DOMAIN backlog /\ c = backlog[1]
        /\ backlog' \in Seq(Clients) /\ Len(backlog') = Len(backlog) - 1 /\ Len(backlog) \in Nat
        /\ \A n \in 1 .. Len(backlog') : backlog'[n] = backlog[n + 1] /\ n + 1 \in DOMAIN backlog
    BY <1>4 DEF Accepts, ConnectionsOK
  <2>2. \A m, n \in DOMAIN backlog' : backlog'[m] = backlog'[n] => m = n
    <3> SUFFICES ASSUME NEW m \in DOMAIN backlog', NEW n \in DOMAIN backlog', backlog'[m] = backlog'[n]
                 PROVE  m = n
      OBVIOUS
    <3>1. m \in 1 .. Len(backlog') /\ n \in 1 .. Len(backlog')
      BY <2>1
    <3>2. /\ m + 1 \in DOMAIN backlog /\ n + 1 \in DOMAIN backlog
          /\ backlog[m + 1] = backlog[n + 1]
      BY <2>1, <3>1
    <3>3. m + 1 = n + 1
      BY ONLY ConnectionsOK, <3>2 DEF ConnectionsOK
    <3> QED BY <3>1, <3>3
  <2>3. \A d \in Clients : (\E n \in DOMAIN backlog' : backlog'[n] = d)
                             <=> d # c /\ \E n \in DOMAIN backlog : backlog[n] = d
    <3> SUFFICES ASSUME NEW d \in Clients
                 PROVE  (\E n \in DOMAIN backlog' : backlog'[n] = d)
                           <=> d # c /\ \E n \in DOMAIN backlog : backlog[n] = d
      OBVIOUS
    <3>1. ASSUME NEW n \in DOMAIN backlog', backlog'[n] = d
          PROVE  d # c /\ \E m \in DOMAIN backlog : backlog[m] = d
      <4>1. n \in 1 .. Len(backlog') /\ n + 1 # 1
        BY <2>1
      <4> QED BY <2>1, <3>1, <4>1 DEF ConnectionsOK
    <3>2. ASSUME d # c, NEW n \in DOMAIN backlog, backlog[n] = d
          PROVE  \E m \in DOMAIN backlog' : backlog'[m] = d
      <4>1. n # 1 /\ n \in 1 .. Len(backlog)
        BY <2>1, <3>2 DEF ConnectionsOK
      <4>2. n - 1 \in 1 .. Len(backlog') /\ (n - 1) + 1 = n
        BY <2>1, <4>1
      <4>3. n - 1 \in DOMAIN backlog' /\ backlog'[n - 1] = d
        BY <2>1, <3>2, <4>2
      <4> QED BY <4>3
    <3> QED BY <3>1, <3>2
  <2>4. conn[c] = "backlog" /\ thread[c] = "none"
    BY <2>1 DEF ConnectionsOK, ConnectionOK
  <2>5. PICK k, l : /\ conn' = [conn EXCEPT ![c] = k] /\ thread' = [thread EXCEPT ![c] = l]
                    /\ <<k, l>> \in {<<"served", "header">>, <<"closed", "done">>, <<"leaked", "none">>}
    <3>1. CASE NextRound(c, running)
      BY <3>1 DEF NextRound
    <3>2. CASE conn' = [conn EXCEPT ![c] = "leaked"] /\ UNCHANGED thread
      <4>1. thread' = [thread EXCEPT ![c] = "none"]
        BY <2>4, <3>2 DEF ConnectionsOK
      <4> QED BY <3>2, <4>1
    <3> QED BY <1>4, <3>1, <3>2 DEF Accepts
  <2> HIDE DEF c
  <2>6. conn' \in [Clients -> Conns] /\ thread' \in [Clients -> Threads]
    BY <2>5 DEF ConnectionsOK, Conns, Threads
  <2>7. ASSUME NEW d \in Clients PROVE ConnectionOK(d)'
    BY <2>1, <2>3, <2>5 DEF ConnectionsOK, ConnectionOK
  <2> QED BY <2>1, <2>2, <2>6, <2>7 DEF ConnectionsOK
<1>5. ASSUME NEW c \in Clients, ByThread(c) PROVE ConnectionsOK'
  <2>0. UNCHANGED backlog /\ thread[c] \notin {"none", "done"}
    BY <1>5 DEF ByThread, Begins, BeginsShort, ShortHeader, Quits, TakesData, Looks, Composes, Answers
  <2>1. CASE UNCHANGED conn /\ \E l \in Threads \ {"none", "done"} : Go(c, l)
    <3>1. conn[c] = "served" /\ conn' = [conn EXCEPT ![c] = "served"]
      BY <2>0, <2>1 DEF ConnectionsOK, ConnectionOK
    <3> QED BY <2>0, <2>1, <3>1, ConnectionsGoOn DEF Go
  <2>2. CASE \E on : NextRound(c, on)
    <3>1. PICK on : NextRound(c, on)
      BY <2>2
    <3>2. CASE on
      <4>1. thread' = [thread EXCEPT ![c] = "header"] /\ conn' = [conn EXCEPT ![c] = "served"]
        BY <3>1, <3>2 DEF NextRound
      <4>2. "header" \in Threads \ {"none"} /\ "header" # "done"
        BY DEF Threads
      <4> QED BY ONLY c \in Clients, ConnectionsOK, <2>0, <4>1, <4>2, ConnectionsGoOn
    <3>3. CASE ~on
      <4>1. thread' = [thread EXCEPT ![c] = "done"] /\ conn' = [conn EXCEPT ![c] = "closed"]
        BY <3>1, <3>3 DEF NextRound
      <4> QED BY <2>0, <4>1, ConnectionsGoOn DEF Threads
    <3> QED BY <3>2, <3>3
  <2>3. ASSUME NEW cmd, NEW length, TakeHeader(c, cmd, length) PROVE ConnectionsOK'
    BY <2>1, <2>2, <2>3 DEF TakeHeader, Close, Threads
  <2> QED BY <1>5, <2>1, <2>2, <2>3 DEF ByThread, Begins, BeginsShort, ShortHeader, Quits, Close,
                                        TakesData, Looks, Composes, Respond, Answers, Threads
<1>6. ASSUME NEW c \in Clients, Connect(c) PROVE ConnectionsOK'
  <2>1. /\ backlog' = Append(backlog, c) /\ conn[c] = "none" /\ conn' = [conn EXCEPT ![c] = "backlog"]
        /\ UNCHANGED thread
    BY <1>6 DEF Connect, ByClient
  <2>2. /\ backlog' \in Seq(Clients) /\ Len(backlog') = Len(backlog) + 1 /\ Len(backlog) \in Nat
        /\ \A n \in 1 .. Len(backlog) : backlog'[n] = backlog[n]
        /\ backlog'[Len(backlog) + 1] = c
        /\ DOMAIN backlog = 1 .. Len(backlog) /\ DOMAIN backlog' = 1 .. Len(backlog) + 1
    BY <2>1 DEF ConnectionsOK
  <2>3. \A n \in DOMAIN backlog : backlog[n] # c
    BY <2>1 DEF ConnectionsOK, ConnectionOK
  <2>4. \A m, n \in DOMAIN backlog' : backlog'[m] = backlog'[n] => m = n
    BY <2>2, <2>3 DEF ConnectionsOK
  <2>5. \A d \in Clients : (\E n \in DOMAIN backlog' : backlog'[n] = d)
                             <=> d = c \/ \E n \in DOMAIN backlog : backlog[n] = d
    BY <2>2
  <2>6. conn' \in [Clients -> Conns] /\ thread' \in [Clients -> Threads]
    BY <2>1 DEF ConnectionsOK, Conns
  <2>7. ASSUME NEW d \in Clients PROVE ConnectionOK(d)'
    BY <2>1, <2>5 DEF ConnectionsOK, ConnectionOK
  <2> QED BY <2>2, <2>4, <2>6, <2>7 DEF ConnectionsOK
<1>7. ASSUME NEW c \in Clients, SendByte(c) \/ Disconnect(c) \/ \E r : Ask(c, r) PROVE ConnectionsOK'
  BY <1>1, <1>7 DEF SendByte, Disconnect, Ask, ByClient
<1> QED BY <1>1, <1>2, <1>3, <1>4, <1>5, <1>6, <1>7 DEF ServerEffect, Stays

\* A request as a client sends it.
Message(r) == <<r.cmd, r.length>> \o [n \in 1 .. r.length |-> Data]

LEMMA Joined ==
    ASSUME NEW S, NEW h \in Seq(S), NEW d \in Seq(S)
    PROVE  /\ h \o d \in Seq(S) /\ Len(h \o d) = Len(h) + Len(d)
           /\ \A i \in 1 .. Len(h) : (h \o d)[i] = h[i]
  BY ConcatProperties

LEMMA MessageBytes ==
    ASSUME NEW r, r.cmd \in Nat, r.length \in Nat
    PROVE  /\ Message(r) \in Seq(Nat) /\ Len(Message(r)) = 2 + r.length
           /\ Message(r)[1] = r.cmd /\ Message(r)[2] = r.length
<1>1. Data \in Nat
  BY DEF Data
<1> DEFINE a == r.cmd
           b == r.length
           h == <<a, b>>
           d == [n \in 1 .. b |-> Data]
<1>2. a \in Nat /\ b \in Nat
  OBVIOUS
<1> HIDE DEF a, b
<1>3. h \in Seq(Nat) /\ Len(h) = 2 /\ h[1] = a /\ h[2] = b
  BY <1>2
<1>4. d \in Seq(Nat) /\ Len(d) = b
  BY <1>1, <1>2
<1> HIDE DEF h, d
<1>5. /\ h \o d \in Seq(Nat) /\ Len(h \o d) = Len(h) + Len(d)
      /\ \A i \in 1 .. Len(h) : (h \o d)[i] = h[i]
  BY <1>3, <1>4, Joined
<1>6. 1 \in 1 .. Len(h) /\ 2 \in 1 .. Len(h)
  BY <1>3
<1>7. Message(r) = h \o d
  BY DEF Message, h, d, a, b
<1>8. a = r.cmd /\ b = r.length
  BY DEF a, b
<1> QED BY <1>3, <1>4, <1>5, <1>6, <1>7, <1>8

\* The contents, but for those of one client.
LEMMA ContentsBut ==
    ASSUME ContentsOK, NEW c \in Clients,
           UNCHANGED <<gone, left, asked, answers>>,
           NEW l \in Threads, thread' = [thread EXCEPT ![c] = l],
           NEW b \in Buffers, stack' = [stack EXCEPT ![c] = b],
           NEW s \in Seq(Nat), stream' = [stream EXCEPT ![c] = s],
           DOMAIN thread = Clients,
           l \in {"data", "process", "look", "send"} => b.cmd \in Nat,
           l = "data" => b.length \in 1 .. BUFFER_SIZE
    PROVE  ContentsOK'
<1>1. stack' \in [Clients -> Buffers] /\ stream' \in [Clients -> Seq(Nat)]
  BY DEF ContentsOK
<1>2. ASSUME NEW d \in Clients
      PROVE  /\ Busy(d)' => stack'[d].cmd \in Nat
             /\ thread'[d] = "data" => stack'[d].length \in 1 .. BUFFER_SIZE
  <2>1. CASE d = c
    BY <2>1 DEF Busy, ContentsOK
  <2>2. CASE d # c
    BY <2>2 DEF Busy, ContentsOK
  <2> QED BY <2>1, <2>2
<1> QED BY <1>1, <1>2 DEF ContentsOK

\* A thread that goes on, or ends, with the same buffers and the same bytes.
LEMMA ContentsSame ==
    ASSUME ContentsOK, NEW c \in Clients, DOMAIN thread = Clients,
           UNCHANGED <<gone, left, asked, answers, stack, stream>>,
           NEW l \in Threads, thread' = [thread EXCEPT ![c] = l],
           Busy(c) \/ l \in {"header", "done"}, l # "data"
    PROVE  ContentsOK'
<1>1. stack[c] \in Buffers /\ stream[c] \in Seq(Nat) /\ (Busy(c) => stack[c].cmd \in Nat)
  BY DEF ContentsOK
<1>2. stack' = [stack EXCEPT ![c] = stack[c]] /\ stream' = [stream EXCEPT ![c] = stream[c]]
  BY DEF ContentsOK
<1> QED BY <1>1, <1>2, ContentsBut

LEMMA HeaderContents ==
    ASSUME ContentsOK, NEW c \in Clients, DOMAIN thread = Clients,
           NEW cmd \in Nat, NEW length \in Nat, TakeHeader(c, cmd, length),
           NEW s \in Seq(Nat), stream' = [stream EXCEPT ![c] = s],
           UNCHANGED <<gone, left, asked, answers>>
    PROVE  ContentsOK'
<1> DEFINE b == [stack[c] EXCEPT !.cmd = cmd, !.length = length]
<1>1. b \in Buffers /\ b.cmd = cmd /\ b.length = length /\ stack' = [stack EXCEPT ![c] = b]
  BY DEF TakeHeader, ContentsOK, Buffers
<1> HIDE DEF b
<1>2. CASE length > BUFFER_SIZE
  <2>1. thread' = [thread EXCEPT ![c] = "done"]
    BY <1>2 DEF TakeHeader, Close, NextRound
  <2> QED BY <1>1, <2>1, ContentsBut DEF Threads
<1>3. CASE ~(length > BUFFER_SIZE)
  <2>1. PICK l \in {"data", "process"} : /\ thread' = [thread EXCEPT ![c] = l]
                                         /\ l = "data" => length > 0
    BY <1>3 DEF TakeHeader, Go, ReadsData
  <2>2. l = "data" => length \in 1 .. BUFFER_SIZE
    BY <1>3, <2>1, ServerAssumption
  <2> QED BY <1>1, <2>1, <2>2, ContentsBut DEF Threads
<1> QED BY <1>2, <1>3

LEMMA OldLengthsType == ASSUME ContentsOK, NEW c \in Clients PROVE OldLengths(c) \subseteq Nat
<1>1. Lengths \subseteq Nat
  BY ServerAssumption DEF Lengths
<1>2. stack[c].length \in Nat \cup {Unread}
  BY DEF ContentsOK, Buffers
<1> QED BY <1>1, <1>2 DEF OldLengths

\* An element more at the end.
LEMMA Appended ==
    ASSUME NEW S, NEW s \in Seq(S), NEW e \in S
    PROVE  /\ Append(s, e) \in Seq(S) /\ Len(Append(s, e)) = Len(s) + 1 /\ Len(s) \in Nat
           /\ \A i \in 1 .. Len(s) : Append(s, e)[i] = s[i]
           /\ Append(s, e)[Len(s) + 1] = e
  OBVIOUS

\* Bytes dropped at the front.
LEMMA Dropped ==
    ASSUME NEW S, NEW s \in Seq(S), NEW m \in Nat, m <= Len(s)
    PROVE  /\ SubSeq(s, m + 1, Len(s)) \in Seq(S)
           /\ Len(SubSeq(s, m + 1, Len(s))) = Len(s) - m
           /\ \A i \in 1 .. Len(s) - m : SubSeq(s, m + 1, Len(s))[i] = s[i + m]
  OBVIOUS

LEMMA ThreadContents ==
    ASSUME ContentsOK, ConnectionsOK, NEW c \in Clients, ByThread(c) PROVE ContentsOK'
<1>1. DOMAIN thread = Clients
  BY DEF ConnectionsOK
<1>2. stack[c] \in Buffers /\ stream[c] \in Seq(Nat) /\ Len(stream[c]) \in Nat
  BY DEF ContentsOK
<1>3. CASE Begins(c)
  <2>1. stream[c][1] \in Nat /\ stream[c][2] \in Nat
    BY <1>2, <1>3 DEF Begins
  <2>2. SubSeq(stream[c], 3, Len(stream[c])) \in Seq(Nat)
    BY <1>2
  <2> QED BY <1>1, <1>3, <2>1, <2>2, HeaderContents DEF Begins, clientVars
<1>4. CASE BeginsShort(c)
  <2>1. PICK length \in OldLengths(c) : TakeHeader(c, Head(stream[c]), length)
    BY <1>4 DEF BeginsShort, ShortHeader
  <2>2. length \in Nat /\ Head(stream[c]) \in Nat /\ <<>> \in Seq(Nat)
    BY <1>2, <1>4, <2>1, OldLengthsType DEF BeginsShort, ShortHeader
  <2> QED BY <1>1, <1>4, <2>1, <2>2, HeaderContents DEF BeginsShort, ShortHeader, clientVars
<1>5. CASE Quits(c)
  BY <1>1, <1>5, ContentsSame DEF Quits, Close, NextRound, Threads, clientVars
<1>6. CASE TakesData(c)
  <2>1. Busy(c) /\ stack[c].length \in Nat
    BY <1>6 DEF TakesData, Busy, ContentsOK
  <2>2. SubSeq(stream[c], stack[c].length + 1, Len(stream[c])) \in Seq(Nat)
    BY <1>2, <1>6, <2>1, Dropped DEF TakesData
  <2>3. stack' = [stack EXCEPT ![c] = stack[c]]
    BY <1>6 DEF TakesData, ContentsOK
  <2>4. stack[c].cmd \in Nat
    BY <2>1 DEF ContentsOK
  <2> QED BY <1>1, <1>2, <1>6, <2>2, <2>3, <2>4, ContentsBut DEF TakesData, Go, Threads, clientVars
<1>7. CASE Looks(c)
  BY <1>1, <1>7, ContentsSame DEF Looks, Go, Threads, Busy, clientVars
<1>8. CASE Composes(c)
  <2>1. PICK code \in Codes, size \in Nat : Respond(c, code, size)
    BY <1>8 DEF Composes
  <2> DEFINE z == IF code = "CKR_OK" THEN size ELSE 0
             b == [stack[c] EXCEPT !.rv = code, !.size = z]
  <2>2. z \in Nat /\ stack' = [stack EXCEPT ![c] = b] /\ thread' = [thread EXCEPT ![c] = "send"]
    BY <2>1 DEF Respond, Go
  <2> HIDE DEF z
  <2>3. b \in Buffers /\ b.cmd = stack[c].cmd
    BY <1>2, <2>1, <2>2 DEF Buffers
  <2>4. stack[c].cmd \in Nat
    BY <1>8 DEF Composes, ContentsOK, Busy
  <2>5. stream' = [stream EXCEPT ![c] = stream[c]]
    BY <1>8 DEF Composes, ContentsOK
  <2> HIDE DEF b
  <2> QED BY <1>1, <1>2, <1>8, <2>2, <2>3, <2>4, <2>5, ContentsBut DEF Composes, Threads, clientVars
<1>9. CASE Answers(c)
  <2>1. stack[c].cmd \in Nat /\ stack[c].size \in Nat
    BY <1>2, <1>9 DEF Answers, ContentsOK, Busy, Buffers
  <2>2. stack[c].size % BYTE \in 0 .. BYTE - 1
    BY <2>1, ServerAssumption
  <2>3. answers' \in [Clients -> Seq(Response)]
    <3> DEFINE a == [cmd |-> stack[c].cmd, size |-> stack[c].size, announced |-> stack[c].size % BYTE]
    <3>1. a \in Response /\ answers[c] \in Seq(Response)
      BY <2>1, <2>2 DEF Response, ContentsOK
    <3>2. answers' = [answers EXCEPT ![c] = Append(answers[c], a)]
      BY <1>9 DEF Answers
    <3> HIDE DEF a
    <3>3. Append(answers[c], a) \in Seq(Response)
      BY <3>1
    <3> QED BY <3>2, <3>3 DEF ContentsOK
  <2> DEFINE b == [Stack EXCEPT !.length = stack[c].length]
  <2>4. b \in Buffers /\ stack' = [stack EXCEPT ![c] = b]
    BY <1>2, <1>9 DEF Answers, Stack, Buffers, Codes
  <2>5. PICK l \in {"header", "done"} : thread' = [thread EXCEPT ![c] = l]
    BY <1>9 DEF Answers, NextRound
  <2> HIDE DEF b
  <2>6. \A d \in Clients : /\ Busy(d)' => d # c /\ Busy(d) /\ stack'[d] = stack[d]
                           /\ thread'[d] = "data" => d # c /\ thread[d] = "data" /\ stack'[d] = stack[d]
    BY <1>1, <2>4, <2>5 DEF Busy, ContentsOK
  <2>7. /\ stack' \in [Clients -> Buffers]
        /\ \A d \in Clients : Busy(d)' => stack'[d].cmd \in Nat
        /\ \A d \in Clients : thread'[d] = "data" => stack'[d].length \in 1 .. BUFFER_SIZE
    BY <2>4, <2>6 DEF ContentsOK
  <2>8. UNCHANGED <<gone, stream, left, asked>>
    BY <1>9 DEF Answers, clientVars
  <2> QED BY <2>3, <2>7, <2>8 DEF ContentsOK
<1> QED BY <1>3, <1>4, <1>5, <1>6, <1>7, <1>8, <1>9 DEF ByThread

LEMMA ContentsStep == ContentsOK /\ ConnectionsOK /\ ServerEffect => ContentsOK'
<1> SUFFICES ASSUME ContentsOK, ConnectionsOK, ServerEffect PROVE ContentsOK'
  OBVIOUS
<1>1. ASSUME UNCHANGED <<gone, left, asked, answers, stack, stream>>,
             \A d \in Clients : thread'[d] = thread[d] \/ ~Busy(d)'
      PROVE  ContentsOK'
  <2>1. \A d \in Clients : Busy(d)' => Busy(d) /\ thread'[d] = thread[d]
    BY <1>1 DEF Busy
  <2>2. \A d \in Clients : thread'[d] = "data" => thread[d] = "data"
    BY <1>1 DEF Busy
  <2> QED BY <1>1, <2>1, <2>2 DEF ContentsOK
<1>2. CASE Stays \/ Resets
  BY <1>1, <1>2 DEF Stays, Resets, clientVars
<1>3. CASE Exit
  BY <1>1, <1>3 DEF Exit, clientVars, Busy
<1>4. CASE Accepts
  BY <1>1, <1>4 DEF Accepts, NextRound, clientVars, Busy, ConnectionsOK
<1>5. ASSUME NEW c \in Clients, Connect(c) \/ Disconnect(c) \/ SendByte(c) PROVE ContentsOK'
  <2>1. UNCHANGED <<answers, thread, stack, asked>>
    BY <1>5 DEF Connect, Disconnect, SendByte, ByClient, clientVars
  <2>2. gone' \in [Clients -> BOOLEAN]
    BY <1>5 DEF Connect, Disconnect, SendByte, clientVars, ContentsOK
  <2>3. stream' \in [Clients -> Seq(Nat)] /\ left' \in [Clients -> Seq(Nat)]
    <3>1. CASE UNCHANGED <<stream, left>>
      BY <3>1 DEF ContentsOK
    <3>2. CASE SendByte(c)
      <4>1. left[c] \in Seq(Nat) /\ left[c] # <<>> /\ stream[c] \in Seq(Nat)
        BY <3>2 DEF SendByte, ContentsOK
      <4>2. Append(stream[c], Head(left[c])) \in Seq(Nat) /\ Tail(left[c]) \in Seq(Nat)
        BY <4>1
      <4> QED BY <3>2, <4>2 DEF SendByte, ContentsOK
    <3> QED BY <1>5, <3>1, <3>2 DEF Connect, Disconnect, clientVars
  <2> QED BY <2>1, <2>2, <2>3 DEF ContentsOK, Busy
<1>6. ASSUME NEW c \in Clients, NEW r \in Requests[c], Ask(c, r) PROVE ContentsOK'
  <2>1. /\ UNCHANGED <<answers, thread, stack, gone, stream>>
        /\ left' = [left EXCEPT ![c] = <<r.cmd, r.length>> \o [n \in 1 .. r.length |-> Data]]
        /\ asked' = [asked EXCEPT ![c] = Append(asked[c], r)]
    BY <1>6 DEF Ask, ByClient
  <2>2. DOMAIN asked' = Clients /\ \A d \in Clients : asked'[d] \in Seq(Requests[d])
    <3>1. asked[c] \in Seq(Requests[c])
      BY DEF ContentsOK
    <3>2. Append(asked[c], r) \in Seq(Requests[c])
      BY <3>1, Appended
    <3>3. \A d \in Clients : asked'[d] = IF d = c THEN Append(asked[c], r) ELSE asked[d]
      BY <2>1 DEF ContentsOK
    <3>4. DOMAIN asked' = Clients
      BY <2>1 DEF ContentsOK
    <3> QED BY <3>2, <3>3, <3>4 DEF ContentsOK
  <2>3. r.cmd \in Nat /\ r.length \in Nat
    BY ServerAssumption
  <2>4. <<r.cmd, r.length>> \o [n \in 1 .. r.length |-> Data] \in Seq(Nat)
    BY <2>3, MessageBytes DEF Message
  <2>5. left' \in [Clients -> Seq(Nat)]
    BY <2>1, <2>4 DEF ContentsOK
  <2> QED BY <2>1, <2>2, <2>5 DEF ContentsOK, Busy
<1> QED BY <1>2, <1>3, <1>4, <1>5, <1>6, ThreadContents DEF ServerEffect

LEMMA TypesStep == TypesInv /\ TypeOK' /\ [ServerNext]_allVars => TypesInv'
<1> SUFFICES ASSUME TypesInv, TypeOK', [ServerNext]_allVars PROVE TypesInv'
  OBVIOUS
<1>1. initialized' \in BOOLEAN
  BY DEF TypeOK
<1>2. MainOK'
  BY <1>1, ServerFlags DEF TypesInv, MainOK, Flags
<1> QED BY <1>2, ServerEffects, ConnectionsStep, ContentsStep DEF TypesInv

LEMMA LibraryTypes == ServerSpec => []TypeOK
  BY ServerUsesLibrary, TypeCorrect, PTL

LEMMA TypesAlways == ServerSpec => []TypesInv
  BY LibraryTypes, TypesInvInit, TypesStep, PTL DEF ServerSpec

\* However many clients come, go and are cut off: every variable keeps its
\* type, a connection waits in the backlog once at most, and it is served
\* exactly as long as its thread runs; accept, the threads, close of the
\* listening socket and the end of the process agree on who closes it.
THEOREM ServerTypesCorrect == ServerSpec => []ServerTypeOK
  BY LibraryTypes, TypesAlways, TypesInvImplies, PTL
-----------------------------------------------------------------------------
(* The length of a response.                                               *)

\* What is announced of a response that fits in a byte.
SizesFit == INFO_SIZE < BYTE /\ 2 * ULONG_SIZE < BYTE

FramedInv ==
    \A c \in Clients :
        /\ stack[c].size \in 0 .. BYTE - 1
        /\ \A n \in DOMAIN answers[c] : answers[c][n].announced = answers[c][n].size

LEMMA FramedInit == ServerInit => FramedInv
<1>1. ServerInit => \A c \in Clients : stack[c].size = 0 /\ answers[c] = <<>>
  BY DEF ServerInit, Stack
<1> QED BY <1>1, ServerAssumption DEF FramedInv

LEMMA SmallSizes ==
    ASSUME SizesFit
    PROVE  {0, INFO_SIZE, ULONG_SIZE, 2 * ULONG_SIZE} \subseteq 0 .. BYTE - 1
  BY ServerAssumption DEF SizesFit

LEMMA FramedStep ==
    ASSUME SizesFit, Open = {}, ContentsOK, FramedInv, ServerEffect PROVE FramedInv'
<1>1. ASSUME NEW c \in Clients, NEW b, stack' = [stack EXCEPT ![c] = b], b.size \in 0 .. BYTE - 1,
             UNCHANGED answers
      PROVE  FramedInv'
  BY <1>1 DEF FramedInv, ContentsOK
<1>2. ASSUME UNCHANGED <<stack, answers>> PROVE FramedInv'
  BY <1>2 DEF FramedInv
<1>3. ASSUME NEW c \in Clients, NEW cmd, NEW length, TakeHeader(c, cmd, length), UNCHANGED answers
      PROVE  FramedInv'
  <2> DEFINE b == [stack[c] EXCEPT !.cmd = cmd, !.length = length]
  <2>1. b.size = stack[c].size /\ stack' = [stack EXCEPT ![c] = b]
    BY <1>3 DEF TakeHeader, ContentsOK, Buffers
  <2> HIDE DEF b
  <2> QED BY <1>1, <1>3, <2>1 DEF FramedInv
<1>4. ASSUME NEW c \in Clients, Composes(c) PROVE FramedInv'
  <2>1. PICK code \in Codes, size \in {INFO_SIZE, ULONG_SIZE, 2 * ULONG_SIZE} \cup Nat :
          /\ Respond(c, code, size)
          /\ code = "CKR_OK" => size \in {INFO_SIZE, ULONG_SIZE, 2 * ULONG_SIZE}
    BY <1>4 DEF Composes
  <2> DEFINE z == IF code = "CKR_OK" THEN size ELSE 0
             b == [stack[c] EXCEPT !.rv = code, !.size = z]
  <2>2. z \in 0 .. BYTE - 1
    BY <2>1, SmallSizes
  <2>3. stack' = [stack EXCEPT ![c] = b]
    BY <2>1 DEF Respond
  <2> HIDE DEF z
  <2>4. b.size = z
    BY DEF ContentsOK, Buffers
  <2> HIDE DEF b
  <2> QED BY <1>1, <1>4, <2>2, <2>3, <2>4 DEF Composes
<1>5. ASSUME NEW c \in Clients, Answers(c) PROVE FramedInv'
  <2> DEFINE a == [cmd |-> stack[c].cmd, size |-> stack[c].size, announced |-> stack[c].size % BYTE]
             b == [Stack EXCEPT !.length = stack[c].length]
  <2>1. answers' = [answers EXCEPT ![c] = Append(answers[c], a)] /\ stack' = [stack EXCEPT ![c] = b]
    BY <1>5 DEF Answers
  <2>2. a.announced = a.size /\ b.size \in 0 .. BYTE - 1
    BY SmallSizes, ServerAssumption DEF FramedInv, Stack
  <2> HIDE DEF a, b
  <2>4. /\ answers[c] \in Seq(Response)
        /\ DOMAIN Append(answers[c], a) = 1 .. Len(answers[c]) + 1 /\ Len(answers[c]) \in Nat
        /\ DOMAIN answers[c] = 1 .. Len(answers[c])
        /\ \A n \in 1 .. Len(answers[c]) : Append(answers[c], a)[n] = answers[c][n]
        /\ Append(answers[c], a)[Len(answers[c]) + 1] = a
    BY DEF ContentsOK
  <2>5. \A n \in DOMAIN Append(answers[c], a) :
           Append(answers[c], a)[n].announced = Append(answers[c], a)[n].size
    BY <2>2, <2>4 DEF FramedInv
  <2>6. \A d \in Clients : d # c => stack'[d] = stack[d] /\ answers'[d] = answers[d]
    BY <2>1 DEF ContentsOK
  <2>7. answers'[c] = Append(answers[c], a) /\ stack'[c] = b
    BY <2>1 DEF ContentsOK
  <2>8. \A d \in Clients : /\ stack'[d].size \in 0 .. BYTE - 1
                            /\ \A n \in DOMAIN answers'[d] :
                                 answers'[d][n].announced = answers'[d][n].size
    <3> SUFFICES ASSUME NEW d \in Clients
                 PROVE  /\ stack'[d].size \in 0 .. BYTE - 1
                        /\ \A n \in DOMAIN answers'[d] :
                             answers'[d][n].announced = answers'[d][n].size
      OBVIOUS
    <3>1. CASE d = c
      BY <2>2, <2>5, <2>7, <3>1, Zenon
    <3>2. CASE d # c
      BY <2>6, <3>2, Zenon DEF FramedInv
    <3> QED BY <3>1, <3>2
  <2> QED BY <2>8, Zenon DEF FramedInv
<1>6. ASSUME NEW c \in Clients, ByThread(c) PROVE FramedInv'
  BY <1>2, <1>3, <1>4, <1>5, <1>6
     DEF ByThread, Begins, BeginsShort, ShortHeader, Quits, TakesData, Looks
<1>7. ASSUME NEW c \in Clients, Connect(c) \/ SendByte(c) \/ Disconnect(c) \/ \E r : Ask(c, r)
      PROVE  FramedInv'
  BY <1>2, <1>7 DEF Connect, SendByte, Disconnect, Ask, ByClient
<1> QED BY <1>2, <1>6, <1>7 DEF ServerEffect, Stays, Exit, Accepts, Resets

\* On a build whose CK_INFO and slot list are shorter than the length byte can
\* tell: that byte is the length of every response.  Random data is not sent at
\* all, since no client can have the session C_GenerateRandom asks for.
THEOREM ResponsesAreFramed == SizesFit /\ ServerSpec => []ResponseFramed
<1> SUFFICES ASSUME SizesFit PROVE ServerSpec => []ResponseFramed
  OBVIOUS
<1>1. ServerSpec => []ServerInv
  BY ServerInvInit, ServerInvStep, PTL DEF ServerSpec
<1>2. FramedInv /\ TypesInv /\ ServerInv /\ [ServerNext]_allVars => FramedInv'
  BY ServerEffects, FramedStep DEF TypesInv, ServerInv, LibraryInv
<1>3. FramedInv => ResponseFramed
  BY DEF FramedInv, ResponseFramed
<1> QED BY <1>1, <1>2, <1>3, TypesAlways, FramedInit, PTL DEF ServerSpec
=============================================================================
