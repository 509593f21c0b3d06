----------------------------- MODULE LoginChain ------------------------------
(***************************************************************************)
(* What logging in promises: a login lives, through however many rotations *)
(* of its refresh token, until it ends, and an ended login never comes     *)
(* back.  Authentication implements this module.                           *)
(***************************************************************************)

CONSTANT Logins

VARIABLE chain    \* what has become of each login

TypeOK == chain \in [Logins -> {"none", "live", "dead"}]

Init == chain = [l \in Logins |-> "none"]

Begin(l) == chain[l] = "none" /\ chain' = [chain EXCEPT ![l] = "live"]

\* Some live logins end: one of them, or all those of a user.
End(ls) ==
    /\ \A l \in ls : chain[l] = "live"
    /\ chain' = [l \in Logins |-> IF l \in ls THEN "dead" ELSE chain[l]]

Next ==
    \/ \E l \in Logins : Begin(l)
    \/ \E ls \in SUBSET Logins : End(ls)

Spec == Init /\ [][Next]_chain
=============================================================================
