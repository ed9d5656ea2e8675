---------------------------- MODULE ObjectStore -----------------------------
(***************************************************************************)
(* What the slot promises about its objects, without a table: a set of     *)
(* objects, told apart by their handles.  A handle that may have been      *)
(* given out before is not given to another object while the process       *)
(* lives, and an object keeps everything but its label until it is removed.*)
(***************************************************************************)

VARIABLES store,    \* the objects, records with a handle and a label
          used      \* handles that may have been given out

vars == <<store, used>>

Init == store = {} /\ used = {}

Add ==
    LET new == store' \ store
    IN  /\ store \subseteq store'
        /\ \A o \in new : o.handle \notin used /\ o.handle \in used'
        /\ \A o, p \in new : o.handle = p.handle => o = p
        /\ used \subseteq used'

Remove == \E o \in store : store' = store \ {o} /\ UNCHANGED used

Relabel ==
    /\ \E o \in store, p \in store' :
         /\ store' = (store \ {o}) \cup {p}
         /\ p = [o EXCEPT !.label = p.label]
    /\ UNCHANGED used

\* The library is finalized: handles stay given out.
Clear == store' = {} /\ UNCHANGED used

\* The process ends.
Restart == store' = {} /\ used' = {}

Next == Add \/ Remove \/ Relabel \/ Clear \/ Restart

Spec == Init /\ [][Next]_vars
=============================================================================
