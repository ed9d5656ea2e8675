----------------------------- MODULE PinPolicy ------------------------------
(***************************************************************************)
(* What the token promises about its PINs, whatever its tables look like:  *)
(* each user has a budget of attempts, a wrong PIN spends one, and a       *)
(* session comes to act for a user only while that user's budget is not    *)
(* spent.  Only a success, an initialization by someone entitled to it or  *)
(* a new start of the library fills the budget again.                      *)
(***************************************************************************)
EXTENDS Integers

CONSTANTS Users,      \* the users with a PIN
          SO,         \* the one of them who may renew the other PIN
          Sessions,   \* the names sessions go by
          Budget      \* attempts in a full budget, at least one

VARIABLES attempts,   \* [Users -> 0 .. Budget]
          holders     \* [Users -> SUBSET Sessions]: who acts for the user

vars == <<attempts, holders>>

Full == [u \in Users |-> Budget]
Nobody == [u \in Users |-> {}]

Init == attempts = Full /\ holders = Nobody

Reject(u) ==
    /\ attempts[u] > 0
    /\ attempts' = [attempts EXCEPT ![u] = @ - 1]
    /\ UNCHANGED holders

Accept(u, s) ==
    /\ attempts[u] > 0
    /\ \A v \in Users : s \notin holders[v]
    /\ attempts' = [attempts EXCEPT ![u] = Budget]
    /\ holders' = [holders EXCEPT ![u] = @ \cup {s}]

\* A holder proves the PIN again, to change it.
Confirm(u) ==
    /\ attempts[u] > 0
    /\ holders[u] # {}
    /\ attempts' = [attempts EXCEPT ![u] = Budget]
    /\ UNCHANGED holders

Release(s) ==
    /\ holders' = [u \in Users |-> holders[u] \ {s}]
    /\ UNCHANGED attempts

\* The security officer gives the user a new PIN.
Renew(u) ==
    /\ u # SO
    /\ holders[SO] # {}
    /\ attempts' = [attempts EXCEPT ![u] = Budget]
    /\ UNCHANGED holders

\* The token is initialized while nobody uses it, or the library starts anew.
Reset == attempts' = Full /\ holders' = Nobody

Next ==
    \/ \E u \in Users : Reject(u) \/ Confirm(u) \/ Renew(u)
    \/ \E u \in Users, s \in Sessions : Accept(u, s)
    \/ \E s \in Sessions : Release(s)
    \/ Reset

Spec == Init /\ [][Next]_vars
=============================================================================
