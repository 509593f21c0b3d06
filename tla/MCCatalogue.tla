----------------------------- MODULE MCCatalogue ----------------------------
(* What users choose from and register, and what administrators offer: five  *)
(* parts that share no state, in one run; a behaviour is one of one of them. *)
EXTENDS StationCatalogue, Vehicles, PushDevices, Tariff, Discounts, TLC

VARIABLE part

vars == <<catVars, carVars, pushVars, tariffVars, offerVars, part>>

Init ==
    /\ part \in {"stations", "cars", "push", "tariff", "offers"}
    /\ CatInit /\ CarInit /\ PushInit /\ TariffInit /\ OfferInit

Next ==
    \/ part = "stations" /\ CatNext /\ UNCHANGED <<carVars, pushVars, tariffVars, offerVars, part>>
    \/ part = "cars" /\ CarNext /\ UNCHANGED <<catVars, pushVars, tariffVars, offerVars, part>>
    \/ part = "push" /\ PushNext /\ UNCHANGED <<catVars, carVars, tariffVars, offerVars, part>>
    \/ part = "tariff" /\ TariffNext /\ UNCHANGED <<catVars, carVars, pushVars, offerVars, part>>
    \/ part = "offers" /\ OfferNext /\ UNCHANGED <<catVars, carVars, pushVars, tariffVars, part>>

Spec == Init /\ [][Next]_vars

\* The cfg gives requests and rows of the parts the same names.
Symmetry ==
    {f @@ g @@ h : f \in Permutations(CarReqs), g \in Permutations(Cars), h \in Permutations(UserCars)}

MCPrices == {-1, 1}
=============================================================================
