-------------------------- MODULE OneShotChallenge --------------------------
(***************************************************************************)
(* What the service promises about a challenge, whether it is the nonce of *)
(* an AUTH_CHALLENGE or the PIN of a pairing: a nonce is given out once,   *)
(* at most one is open per device, and an open nonce is either granted,    *)
(* once, or given up, never to be opened again.                            *)
(***************************************************************************)
EXTENDS Naturals

CONSTANTS Device, Nonce, NoNonce

VARIABLES
    open,    \* the nonce each device may still answer
    used,    \* the nonces given out so far
    grants   \* how often each nonce was granted

vars == <<open, used, grants>>

Init ==
    /\ open = [d \in Device |-> NoNonce]
    /\ used = {}
    /\ grants = [n \in Nonce |-> 0]

\* A new challenge supersedes the device's open one.
Issue(d, n) ==
    /\ n \notin used
    /\ open' = [open EXCEPT ![d] = n]
    /\ used' = used \cup {n}
    /\ UNCHANGED grants

Grant(d) ==
    /\ open[d] # NoNonce
    /\ grants' = [grants EXCEPT ![open[d]] = @ + 1]
    /\ open' = [open EXCEPT ![d] = NoNonce]
    /\ UNCHANGED used

\* A failed answer closes one challenge, a restart closes them all.
GiveUp(D) ==
    /\ open' = [d \in Device |-> IF d \in D THEN NoNonce ELSE open[d]]
    /\ UNCHANGED <<used, grants>>

Next ==
    \/ \E d \in Device, n \in Nonce : Issue(d, n)
    \/ \E d \in Device : Grant(d)
    \/ \E D \in SUBSET Device : GiveUp(D)

Spec == Init /\ [][Next]_vars
=============================================================================
