----------------------------- MODULE MCSession ------------------------------
(***************************************************************************)
(* Small instance of HsmSession: three PINs, one of them too short,       *)
(* and a digest per PIN; the two usable PINs are interchangeable.          *)
(***************************************************************************)
EXTENDS HsmSession, TLC

CONSTANTS short, pinA, pinB, zero

MCPinLen == (short :> 3) @@ (pinA :> 4) @@ (pinB :> 4)
MCDigest == [pin \in Pins |-> pin]
MCDigests == Pins \cup {zero}

\* No guard and no state property reads rv, so states that differ only in it
\* have the same future: TLC keeps one of them.  Action properties still see
\* the rv' of every step it generates.
AllButReturn == <<initialized, pinVars, retryVars, sessionVars, token_file, hung>>

PinSymmetry == Permutations({pinA, pinB})
=============================================================================
