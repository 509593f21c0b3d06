----------------------------- MODULE MCService ------------------------------
(* Four parts of the service that share no state, in one run: a behaviour  *)
(* is one of one of them.                                                  *)
EXTENDS LegalDocuments, Seeding, Listing, Dispatch, TLC

VARIABLE part

vars == <<legalVars, seedVars, listVars, hit, part>>

Init ==
    /\ part \in {"legal", "seed", "list", "hit"}
    /\ LegalInit /\ SeedInit /\ ListInit /\ DispatchInit

Next ==
    \/ part = "legal" /\ LegalNext /\ UNCHANGED <<seedVars, listVars, hit, part>>
    \/ part = "seed" /\ SeedNext /\ UNCHANGED <<legalVars, listVars, hit, part>>
    \/ part = "list" /\ ListNext /\ UNCHANGED <<legalVars, seedVars, hit, part>>
    \/ part = "hit" /\ DispatchNext /\ UNCHANGED <<legalVars, seedVars, listVars, part>>

Spec == Init /\ [][Next]_vars

MCTypeOrder == <<"CCS1", "CCS2", "Type 2">>
MCTypeIds == <<2, 3>>
=============================================================================
