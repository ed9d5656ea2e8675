---------------------------- MODULE NetworkServer ----------------------------
(***************************************************************************)
(* network_server.c: the main thread, which accepts connections and hands  *)
(* each to a detached thread, the signal handler, and the library behind   *)
(* them, which is HsmSession.  A step of a thread ends where it waits for  *)
(* somebody else or reads what another thread may change.  A client sends  *)
(* requests a byte at a time; a header is two bytes here, the command and  *)
(* the length of the data, whose four bytes the model does not cut.        *)
(***************************************************************************)
EXTENDS HsmSession, Sequences

CONSTANTS
    Clients,        \* connections made to the server
    Requests,       \* what each client asks: commands and the lengths of their data
    BUFFER_SIZE,    \* the longest data there is room for
    MAX_CLIENTS,    \* connections that may wait to be accepted
    RandomSizes,    \* of CMD_GENERATE_RANDOM: how many bytes
    INFO_SIZE,      \* sizeof(CK_INFO)
    ULONG_SIZE,     \* sizeof(CK_ULONG)
    BYTE,           \* how many values the length byte of a response has
    MaxRequests     \* bound of the model on the requests of a client

CMD_FINALIZE        == 2
CMD_GET_INFO        == 3
CMD_GET_SLOT_LIST   == 4
CMD_GENERATE_RANDOM == 21

\* The commands the server knows.
Known == {CMD_GET_INFO, CMD_GET_SLOT_LIST, CMD_GENERATE_RANDOM}

\* A byte of data.  Which one it is does not matter.
Data == 0

ASSUME ServerAssumption ==
    /\ \A c \in Clients : \A r \in Requests[c] : r.cmd \in Nat \ {Data} /\ r.length \in Nat
    /\ BUFFER_SIZE \in Nat /\ MAX_CLIENTS \in Nat \ {0} /\ MaxRequests \in Nat
    /\ INFO_SIZE \in Nat /\ ULONG_SIZE \in Nat /\ BYTE \in Nat \ {0}
    /\ RandomSizes \subseteq Nat

Lengths == {0} \cup {r.length : r \in UNION {Requests[c] : c \in Clients}}

\* What a thread has on its stack: the header and the response of the round
\* of its loop; of the round before, the bytes of the length.
Unread == -1     \* uninitialized
Stack == [cmd |-> Unread, length |-> Unread, rv |-> "CKR_OK", size |-> 0]

VARIABLES
    main,       \* where the main thread is
    running,    \* g_server.running
    signalled,  \* was there a SIGINT or SIGTERM?
    backlog,    \* the connections to be accepted, in order
    conn,       \* of each client: the connection at the server's end
    gone,       \* of each client: has it closed its end?
    left,       \* of each client: the bytes of its request not yet sent
    stream,     \* of each client: the bytes sent and not yet read
    asked,      \* of each client: the requests it has begun
    answers,    \* of each client: the responses sent to it
    thread,     \* of each client: where its thread is
    stack,      \* of each client: the thread's buffers
    slots       \* g_hsm_context.slots is allocated

clientVars == <<gone, left, asked>>
serverVars == <<main, running, signalled, backlog, conn, clientVars, stream, answers,
                thread, stack, slots>>
allVars    == <<vars, serverVars>>

ServerInit ==
    /\ Init
    /\ main = "begin"
    /\ running = FALSE
    /\ signalled = FALSE
    /\ backlog = <<>>
    /\ conn = [c \in Clients |-> "none"]
    /\ gone = [c \in Clients |-> FALSE]
    /\ left = [c \in Clients |-> <<>>]
    /\ stream = [c \in Clients |-> <<>>]
    /\ asked = [c \in Clients |-> <<>>]
    /\ answers = [c \in Clients |-> <<>>]
    /\ thread = [c \in Clients |-> "none"]
    /\ stack = [c \in Clients |-> Stack]
    /\ slots = FALSE

\* main returned, or the process was killed: its threads and sockets go.
Exit ==
    /\ main' = "exited"
    /\ running' = FALSE
    /\ slots' = FALSE
    /\ backlog' = <<>>
    /\ conn' = [c \in Clients |-> IF conn[c] = "none" THEN "none" ELSE "closed"]
    /\ thread' = [c \in Clients |-> IF thread[c] = "none" THEN "none" ELSE "done"]
    /\ Crash
    /\ UNCHANGED <<clientVars, stream, answers, stack>>
-----------------------------------------------------------------------------
(* The main thread.                                                        *)

MainGo(label) == main' = label

Begin ==
    /\ main = "begin"
    /\ C_Initialize
    /\ slots' = initialized'
    /\ MainGo(IF initialized' THEN "socket" ELSE "exited")
    /\ UNCHANGED <<running, signalled, backlog, conn, clientVars, stream, answers, thread, stack>>

\* socket, setsockopt, bind and listen; a failure ends the program without
\* C_Finalize.
Listen ==
    /\ main = "socket"
    /\ \/ MainGo("listening") /\ UNCHANGED <<vars, running, backlog, conn, clientVars, stream,
                                             answers, thread, stack, slots>>
       \/ Exit
    /\ UNCHANGED signalled

\* From here on the handler runs; until `running' is set it has no effect.
InstallHandlers ==
    /\ main = "listening"
    /\ MainGo("armed")
    /\ UNCHANGED <<vars, running, signalled, backlog, conn, clientVars, stream, answers, thread,
                   stack, slots>>

\* Mutant: the loop does not look at running.
LoopForEver(on) == "accept"

\* while (g_server.running)
WhileRunning(on) == IF on THEN "accept" ELSE "closing"

Run ==
    /\ main = "armed"
    /\ running' = TRUE
    /\ MainGo(WhileRunning(TRUE))
    /\ UNCHANGED <<vars, signalled, backlog, conn, clientVars, stream, answers, thread, stack, slots>>

\* Mutant: the main thread joins the client's thread before the next accept.
JoinAll == \A c \in Clients : thread[c] \in {"none", "done"}

\* pthread_detach: nobody waits for a thread.
Detached == TRUE

\* Mutant: the thread ends without closing its socket.
NextRoundLeavesOpen(c, on) ==
    /\ thread' = [thread EXCEPT ![c] = IF on THEN "header" ELSE "done"]
    /\ conn' = [conn EXCEPT ![c] = "served"]

\* Where a thread goes on, and what becomes of its connection: it closes it
\* when the server no longer runs.
NextRound(c, on) ==
    /\ thread' = [thread EXCEPT ![c] = IF on THEN "header" ELSE "done"]
    /\ conn' = [conn EXCEPT ![c] = IF on THEN "served" ELSE "closed"]

\* accept, which signal() restarts, so that a signal does not wake it; then
\* the thread.  The result of pthread_create is not looked at: without a
\* thread the connection stays open and nobody reads it, and what
\* pthread_detach does with the identifier that was not set may end the
\* process.
Accept ==
    /\ main = "accept"
    /\ backlog # <<>>
    /\ Detached
    /\ \/ /\ \/ NextRound(Head(backlog), running)
             \/ conn' = [conn EXCEPT ![Head(backlog)] = "leaked"] /\ UNCHANGED thread
          /\ backlog' = Tail(backlog)
          /\ MainGo(WhileRunning(running))
          /\ UNCHANGED <<vars, running, clientVars, stream, answers, stack, slots>>
       \/ Exit
    /\ UNCHANGED signalled

\* An error of accept ends the loop.
AcceptFails ==
    /\ main = "accept"
    /\ MainGo("closing")
    /\ UNCHANGED <<vars, running, signalled, backlog, conn, clientVars, stream, answers, thread,
                   stack, slots>>

\* close of the listening socket resets what waits to be accepted.
CloseListener ==
    /\ main = "closing"
    /\ backlog' = <<>>
    /\ conn' = [c \in Clients |-> IF conn[c] = "backlog" THEN "closed" ELSE conn[c]]
    /\ MainGo("finalize")
    /\ UNCHANGED <<vars, running, signalled, clientVars, stream, answers, thread, stack, slots>>

\* C_Finalize frees the slots, and then clears `initialized'.
FreeSlots ==
    /\ main = "finalize"
    /\ slots' = FALSE
    /\ MainGo("end")
    /\ UNCHANGED <<vars, running, signalled, backlog, conn, clientVars, stream, answers, thread, stack>>

Finalize ==
    /\ main = "end"
    /\ C_Finalize
    /\ MainGo("return")
    /\ UNCHANGED <<running, signalled, backlog, conn, clientVars, stream, answers, thread, stack, slots>>

Return0 == main = "return" /\ Exit /\ UNCHANGED signalled

Main ==
    \/ Begin \/ Listen \/ InstallHandlers \/ Run \/ Accept
    \/ CloseListener \/ FreeSlots \/ Finalize \/ Return0
-----------------------------------------------------------------------------
(* handle_client.                                                          *)

Go(c, label) == thread' = [thread EXCEPT ![c] = label]

\* The steps of a client's thread leave these alone.
Elsewhere == UNCHANGED <<main, running, signalled, backlog, clientVars, slots>>

Close(c) == NextRound(c, FALSE)

\* Mutant: the data of a command that is not implemented is left unread.
ReadsDataOfKnown(cmd, length) ==
    length > 0 /\ cmd \in Known

ReadsData(cmd, length) == length > 0

\* The header is taken for read: cmd, and a length that may be that of the
\* request before.
TakeHeader(c, cmd, length) ==
    /\ stack' = [stack EXCEPT ![c] = [@ EXCEPT !.cmd = cmd, !.length = length]]
    /\ IF length > BUFFER_SIZE THEN Close(c)
       ELSE Go(c, IF ReadsData(cmd, length) THEN "data" ELSE "process") /\ UNCHANGED conn

\* A byte that was never written: any length.
OldLengths(c) == IF stack[c].length = Unread THEN Lengths ELSE {stack[c].length}

\* recv returns less than the header, and n <= 0 is all that is looked at.
ShortHeader(c) ==
    /\ thread[c] = "header"
    /\ Len(stream[c]) = 1
    /\ \E length \in OldLengths(c) : TakeHeader(c, Head(stream[c]), length)
    /\ stream' = [stream EXCEPT ![c] = <<>>]

ReadHeader(c) ==
    /\ thread[c] = "header"
    /\ \/ /\ Len(stream[c]) >= 2
          /\ TakeHeader(c, stream[c][1], stream[c][2])
          /\ stream' = [stream EXCEPT ![c] = SubSeq(@, 3, Len(@))]
       \/ gone[c] /\ ShortHeader(c)
       \/ gone[c] /\ Close(c) /\ UNCHANGED <<stream, stack>>     \* end of file, or reset
    /\ Elsewhere /\ UNCHANGED <<vars, answers>>

ReadData(c) ==
    /\ thread[c] = "data"
    /\ \/ /\ Len(stream[c]) >= stack[c].length
          /\ stream' = [stream EXCEPT ![c] = SubSeq(@, stack[c].length + 1, Len(@))]
          /\ Go(c, "process") /\ UNCHANGED conn
       \/ gone[c] /\ Close(c) /\ UNCHANGED stream
    /\ Elsewhere /\ UNCHANGED <<vars, answers, stack>>

\* The response is put together: its code, and its size if that is CKR_OK.
Respond(c, code, size) ==
    /\ stack' = [stack EXCEPT ![c] = [@ EXCEPT !.rv = code,
                                               !.size = IF code = "CKR_OK" THEN size ELSE 0]]
    /\ Go(c, "send")

\* A call of the library that looks at `initialized' and goes on to the slots.
LooksAtSlots(c) ==
    \/ ~initialized /\ Respond(c, "CKR_CRYPTOKI_NOT_INITIALIZED", 0)
    \/ initialized /\ Go(c, "look") /\ UNCHANGED stack

\* Mutant: the command is implemented, with C_Finalize.
FinalizeForClient(c) == C_Finalize /\ Respond(c, "CKR_OK", 0)

\* The commands the switch does not know.
NotImplemented(c) == Respond(c, "CKR_FUNCTION_NOT_SUPPORTED", 0) /\ UNCHANGED vars

Process(c) ==
    /\ thread[c] = "process"
    /\ CASE stack[c].cmd = CMD_GET_INFO ->
              /\ Respond(c, IF initialized THEN "CKR_OK" ELSE "CKR_CRYPTOKI_NOT_INITIALIZED", INFO_SIZE)
              /\ UNCHANGED vars
         [] stack[c].cmd = CMD_GET_SLOT_LIST -> LooksAtSlots(c) /\ UNCHANGED vars
         [] stack[c].cmd = CMD_GENERATE_RANDOM ->     \* refused at once when it does not fit
              /\ LooksAtSlots(c) \/ Respond(c, "CKR_FUNCTION_FAILED", 0)
              /\ UNCHANGED vars
         [] OTHER -> NotImplemented(c)
    /\ Elsewhere /\ UNCHANGED <<conn, stream, answers>>

\* Mutant: no session is needed.
RandomForAnyone(h) == "CKR_OK"

RandomCode(h) == hsm_get_session(h)

\* The rest of C_GetSlotList and C_GenerateRandom.  With the slots freed in
\* between, the thread reads what is not there, or finds no slot at all.
Look(c) ==
    /\ thread[c] = "look"
    /\ \/ /\ IF stack[c].cmd = CMD_GET_SLOT_LIST
             THEN Respond(c, "CKR_OK", IF slots THEN 2 * ULONG_SIZE ELSE ULONG_SIZE)
             ELSE \E h \in Handles, n \in RandomSizes :
                    Respond(c, IF slots THEN RandomCode(h) ELSE "CKR_SESSION_HANDLE_INVALID", n)
          /\ Elsewhere /\ UNCHANGED <<vars, conn, stream, answers>>
       \/ ~slots /\ Exit /\ UNCHANGED signalled

\* send, its result ignored.  To a client that has closed its end it may
\* raise SIGPIPE, which nobody handles.
Send(c) ==
    /\ thread[c] = "send"
    /\ \/ /\ answers' = [answers EXCEPT ![c] = Append(@,
                [cmd |-> stack[c].cmd, size |-> stack[c].size, announced |-> stack[c].size % BYTE])]
          /\ stack' = [stack EXCEPT ![c] = [Stack EXCEPT !.length = stack[c].length]]
          /\ NextRound(c, running)
          /\ Elsewhere /\ UNCHANGED <<vars, stream>>
       \/ gone[c] /\ Exit /\ UNCHANGED signalled

Serve(c) == ReadHeader(c) \/ ReadData(c) \/ Process(c) \/ Look(c) \/ Send(c)
-----------------------------------------------------------------------------
(* The clients and whoever stops the server.                               *)

ByClient == UNCHANGED <<vars, main, running, signalled, answers, thread, stack, slots>>

Connect(c) ==
    /\ main \notin {"begin", "socket", "finalize", "end", "return", "exited"}
    /\ conn[c] = "none"
    /\ Len(backlog) < MAX_CLIENTS
    /\ conn' = [conn EXCEPT ![c] = "backlog"]
    /\ backlog' = Append(backlog, c)
    /\ ByClient /\ UNCHANGED <<clientVars, stream>>

Reachable(c) == conn[c] \in {"backlog", "served", "leaked"} /\ ~gone[c]

Ask(c, r) ==
    /\ Reachable(c)
    /\ left[c] = <<>>
    /\ Len(asked[c]) < MaxRequests
    /\ left' = [left EXCEPT ![c] = <<r.cmd, r.length>> \o [n \in 1 .. r.length |-> Data]]
    /\ asked' = [asked EXCEPT ![c] = Append(@, r)]
    /\ ByClient /\ UNCHANGED <<backlog, conn, gone, stream>>

SendByte(c) ==
    /\ Reachable(c)
    /\ left[c] # <<>>
    /\ stream' = [stream EXCEPT ![c] = Append(@, Head(left[c]))]
    /\ left' = [left EXCEPT ![c] = Tail(@)]
    /\ ByClient /\ UNCHANGED <<backlog, conn, gone, asked>>

Disconnect(c) ==
    /\ Reachable(c)
    /\ gone' = [gone EXCEPT ![c] = TRUE]
    /\ ByClient /\ UNCHANGED <<backlog, conn, left, stream, asked>>

\* SIGINT or SIGTERM, once.  It ends the process until the handlers are
\* there.  A thread it finds waiting in recv with a part of what it waits for
\* gets that part.
Signal ==
    /\ ~signalled
    /\ main # "exited"
    /\ signalled' = TRUE
    /\ \/ main \in {"begin", "socket", "listening"} /\ Exit
       \/ /\ main \notin {"begin", "socket", "listening"}
          /\ running' = FALSE
          /\ UNCHANGED <<vars, main, backlog, clientVars, answers, slots>>
          /\ \/ UNCHANGED <<conn, stream, thread, stack>>
             \/ \E c \in Clients : ShortHeader(c)
             \/ \E c \in Clients :
                  /\ thread[c] = "data"
                  /\ Len(stream[c]) \in 1 .. stack[c].length - 1
                  /\ Close(c)
                  /\ UNCHANGED <<stream, stack>>

ServerNext ==
    \/ Main \/ AcceptFails
    \/ \E c \in Clients : Serve(c) \/ Connect(c) \/ SendByte(c) \/ Disconnect(c)
    \/ \E c \in Clients : \E r \in Requests[c] : Ask(c, r)
    \/ Signal

\* The scheduler runs the main thread and every client's thread, and accept
\* takes a connection that waits; clients, errors and signals owe nothing.
ServerSpec ==
    /\ ServerInit
    /\ [][ServerNext]_allVars
    /\ WF_allVars(Main)
    /\ \A c \in Clients : WF_allVars(Serve(c))
-----------------------------------------------------------------------------
(* Properties.                                                             *)

Response == [cmd : Nat, size : Nat, announced : 0 .. BYTE - 1]
Buffers  == [cmd : Nat \cup {Unread}, length : Nat \cup {Unread}, rv : Codes, size : Nat]

\* The types, and how a connection, its place in the backlog and its thread
\* belong together: a connection waits in one place at most, and is served
\* exactly as long as its thread runs.
ServerTypeOK ==
    /\ TypeOK
    /\ main \in {"begin", "socket", "listening", "armed", "accept", "closing", "finalize", "end",
                 "return", "exited"}
    /\ running \in BOOLEAN /\ signalled \in BOOLEAN /\ slots \in BOOLEAN
    /\ backlog \in Seq(Clients)
    /\ \A m, n \in DOMAIN backlog : backlog[m] = backlog[n] => m = n
    /\ conn \in [Clients -> {"none", "backlog", "served", "leaked", "closed"}]
    /\ thread \in [Clients -> {"none", "header", "data", "process", "look", "send", "done"}]
    /\ stack \in [Clients -> Buffers]
    /\ gone \in [Clients -> BOOLEAN]
    /\ stream \in [Clients -> Seq(Nat)] /\ left \in [Clients -> Seq(Nat)]
    /\ answers \in [Clients -> Seq(Response)]
    /\ DOMAIN asked = Clients
    /\ \A c \in Clients :
         /\ asked[c] \in Seq(Requests[c])
         /\ conn[c] = "served" <=> thread[c] \notin {"none", "done"}
         /\ conn[c] \in {"none", "backlog", "leaked"} => thread[c] = "none"
         /\ conn[c] = "backlog" <=> \E n \in DOMAIN backlog : backlog[n] = c

\* The requests of c that it has sent to their last byte.
Whole(c) == Len(asked[c]) - (IF left[c] = <<>> THEN 0 ELSE 1)

\* The n-th answer is that to the n-th request, however the bytes arrive: a
\* thread never takes data for a header.  Only one whose client is gone, or
\* that a signal has interrupted, answers what was not sent whole.
AnswersMatch ==
    \A c \in Clients :
        /\ Len(answers[c]) <= Len(asked[c])
        /\ \A n \in DOMAIN answers[c] : answers[c][n].cmd = asked[c][n].cmd
        /\ Len(answers[c]) > Whole(c) => gone[c] \/ signalled

\* The length byte of a response is its length, although it is one byte:
\* what is longer would be random data, and no client can have a session.
ResponseFramed ==
    \A c \in Clients : \A n \in DOMAIN answers[c] : answers[c][n].announced = answers[c][n].size

\* The library runs as long as the main thread serves, without a session:
\* no client is told that it does not, and no thread reads slots that are
\* gone but one that C_Finalize of the main thread has overtaken.
LibraryUpWhileServing ==
    /\ main \in {"accept", "closing", "finalize"} => initialized /\ slots
    /\ Open = {}
    /\ \A c \in Clients :
         /\ thread[c] = "look" /\ ~slots => main \in {"end", "return"}
         /\ stack[c].rv = "CKR_CRYPTOKI_NOT_INITIALIZED" => main \in {"return", "exited"}

\* A client waits for an answer.
Waits(c) == conn[c] \in {"backlog", "served"} /\ ~gone[c] /\ Len(answers[c]) < Whole(c)

\* A client that has sent whole requests gets its answers, or loses the
\* connection, whatever the other clients do or leave undone; also after the
\* signal, unless it made a thread wait for data by an old length.
RequestAnswered ==
    \A c \in Clients : Waits(c) ~> ~Waits(c) \/ (signalled /\ thread[c] = "data")

\* Once stopped, the server ends with the next connection, if there is one.
StopsAtNextConnection ==
    main = "accept" /\ ~running /\ backlog # <<>> ~> main = "exited"
=============================================================================
