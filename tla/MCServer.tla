------------------------------ MODULE MCServer ------------------------------
(***************************************************************************)
(* Small instances of NetworkServer: two clients, a library without PINs.  *)
(***************************************************************************)
EXTENDS NetworkServer, TLC

CONSTANTS zero, c1, c2

NoPinLen == [pin \in {} |-> 0]
NoDigest == [pin \in {} |-> zero]

\* One client asks with data and without, for what is implemented and what is
\* not, and for too much; the other connects and asks nothing.
MCRequests ==
    [c \in Clients |-> IF c = c2 THEN {} ELSE
       {[cmd |-> CMD_GET_INFO, length |-> 0], [cmd |-> CMD_GET_SLOT_LIST, length |-> 2],
        [cmd |-> CMD_GENERATE_RANDOM, length |-> 1], [cmd |-> CMD_FINALIZE, length |-> 1]}]

\* "Press Ctrl+C to stop", and the handler's "Received shutdown signal,
\* stopping server..." (network_server.c): a signal stops the server.
Shutdown == signalled ~> main = "exited"
=============================================================================
