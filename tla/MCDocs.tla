------------------------------- MODULE MCDocs -------------------------------
(***************************************************************************)
(* What the documents, comments and tests of the repository say and the    *)
(* code does not do.  Each run of this module checks one statement and     *)
(* ends with the behaviour that contradicts it.                            *)
(***************************************************************************)
EXTENDS MCObjects

\* The lengths in test_basic.c: the SO PIN "1234567890" and the label
\* "PST HSM Token".
TestPinLen == pinA :> 10
TestLabelLength == 13

\* The comments in C_InitToken ("Close all sessions") and above
\* C_CloseAllSessions ("Close all sessions on a slot") say that these calls
\* close what is open and go on: no call waits for ever.
CallsReturn == ~hung

\* C_InitToken's "Set token label": the token carries the label it was given.
LabelKept == token_initialized => token_label >= TestLabelLength

\* "Persistent token object" (pkcs11_internal.h), "Stockage persistant"
\* (README.md): an object saved on the token is found by the library that
\* runs, also after a restart.
TokenObjectsPersist == initialized => \A h \in DOMAIN key_files : Known(h)
=============================================================================
