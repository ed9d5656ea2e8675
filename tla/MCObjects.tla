----------------------------- MODULE MCObjects ------------------------------
(***************************************************************************)
(* Small instance of HsmObjects: one PIN, one session entry, a table of    *)
(* three objects, and the templates that change what the calls do.         *)
(***************************************************************************)
EXTENDS HsmObjects, TLC

CONSTANTS pinA, zero

MCPinLen == pinA :> 4
MCDigest == [pin \in Pins |-> pin]
MCDigests == Pins \cup {zero}

Template(class, token) == [class |-> class, token |-> token, label |-> NoLabel]

\* Objects without a class and private keys of the session in one instance;
\* objects of the token and of the session in the other.
SessionTemplates == {Template("none", FALSE), Template("OBJ_TYPE_PRIVATE_KEY", FALSE)}
TokenTemplates   == {Template("none", TRUE), Template("none", FALSE)}

\* The handles these templates lead to, and no object's.
MCObjectHandles == {0} \cup {HandleBase[type] * BaseGap + n :
    type \in {"OBJ_TYPE_PUBLIC_KEY", "OBJ_TYPE_PRIVATE_KEY", "OBJ_TYPE_DATA"}, n \in 1 .. MaxObject}

\* The fields nothing reads: rv, what an inactive operation last named, and
\* the results of a search that is over.
ObjectsView ==
    <<initialized, pinVars, retryVars, sessionVars, token_file, hung, tableVars, key_files,
      [i \in Idx |-> IF operation[i].active THEN operation[i] ELSE NoOperation],
      [i \in Idx |-> IF find[i].active THEN find[i] ELSE NoFind]>>

\* Leaves out the operations and searches as well: no step on the slot, the
\* sessions, the objects or the files reads them.
FilesView == <<initialized, pinVars, retryVars, sessionVars, token_file, hung, tableVars, key_files>>
=============================================================================
