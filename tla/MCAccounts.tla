----------------------------- MODULE MCAccounts -----------------------------
(* Two parts of the account of a user that share no state, in one run: a   *)
(* behaviour is one of one of them.                                        *)
EXTENDS Authentication, SavedCards, TLC

VARIABLE part

vars == <<authVars, cardVars, part>>

Init ==
    /\ part \in {"auth", "cards"}
    /\ AuthInit /\ CardInit

Next ==
    \/ part = "auth" /\ AuthNext /\ UNCHANGED <<cardVars, part>>
    \/ part = "cards" /\ CardNext /\ UNCHANGED <<authVars, part>>

Spec == Init /\ [][Next]_vars

\* The cfg gives requests and rows of the two parts the same names.
Symmetry ==
    {f @@ g @@ h : f \in Permutations(AuthReqs), g \in Permutations(Sess), h \in Permutations(Values)}
=============================================================================
