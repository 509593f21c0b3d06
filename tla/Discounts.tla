------------------------------ MODULE Discounts ------------------------------
(***************************************************************************)
(* Discounts of stations.  Source: modules/discount/discount.service.ts,   *)
(* types/discount and the model Discount.                                  *)
(*                                                                         *)
(* A row is looked up or validated first and written in a later statement  *)
(* that fails if the row or the station is gone or the station has another *)
(* discount: one step.  The connector that a request may name is checked   *)
(* and not stored.                                                         *)
(***************************************************************************)
EXTENDS Naturals

CONSTANTS Depots,             \* stations
          Offers,             \* rows of Discount, ever
          Anywhere,           \* no station
          MaxDay              \* bound on dates

ASSUME AnywhereAssumption == Anywhere \notin Depots
ASSUME DayAssumption == MaxDay \in Nat

VARIABLES open,       \* stations that exist
          offer,      \* Discount
          switched,   \* discounts that were given the other kind of reduction (history)
          redated     \* discounts of which one date alone was edited (history)

offerVars == <<open, offer, switched, redated>>

Days == 0 .. MaxDay
Kinds == {"percent", "fixedPrice"}
OfferRows == [at : Depots \cup {Anywhere}, kinds : SUBSET Kinds, from : Days, to : Days]
NoOffer == [at |-> Anywhere, kinds |-> {}, from |-> 0, to |-> 0]

OfferTypeOK ==
    /\ open \subseteq Depots
    /\ offer \in [Offers -> OfferRows]
    /\ switched \subseteq Offers
    /\ redated \subseteq Offers

OfferInit ==
    /\ open = Depots
    /\ offer = [d \in Offers |-> NoOffer]
    /\ switched = {}
    /\ redated = {}

Offered == {d \in Offers : offer[d] # NoOffer}

\* Discount.stationId is unique.
Free(s, d) == s \in open /\ \A e \in Offered \ {d} : offer[e].at # s

\* At least one of them is enough.
OneKind_Any(ks) == ks # {}

\* validateXor, which knows only what the request says
OneKind(ks) == \E k \in Kinds : ks = {k}

CreateDiscount(d, s, ks, from, to) ==
    /\ d \notin Offered
    /\ from < to
    /\ OneKind(ks)
    /\ Free(s, d)
    /\ offer' = [offer EXCEPT ![d] = [at |-> s, kinds |-> ks, from |-> from, to |-> to]]
    /\ switched' = switched \ {d}
    /\ redated' = redated \ {d}
    /\ UNCHANGED open

\* What a request leaves out stays, and null counts as left out: the kind a discount
\* had stays beside the new one.
UpdateKind(d, ks) ==
    /\ d \in Offered
    /\ OneKind(ks)
    /\ offer' = [offer EXCEPT ![d].kinds = @ \cup ks]
    /\ switched' = IF ks \subseteq offer[d].kinds THEN switched ELSE switched \cup {d}
    /\ UNCHANGED <<open, redated>>

\* The order of the dates is checked if the request has both.
UpdateDates(d, from, to) ==
    /\ d \in Offered
    /\ \/ from < to /\ redated' = redated
       \/ /\ from = offer[d].from \/ to = offer[d].to
          /\ redated' = redated \cup {d}
    /\ offer' = [offer EXCEPT ![d].from = from, ![d].to = to]
    /\ UNCHANGED <<open, switched>>

UpdateStation(d, s) ==
    /\ d \in Offered
    /\ Free(s, d)
    /\ offer' = [offer EXCEPT ![d].at = s]
    /\ UNCHANGED <<open, switched, redated>>

DeleteDiscount(d) ==
    /\ d \in Offered
    /\ offer' = [offer EXCEPT ![d] = NoOffer]
    /\ UNCHANGED <<open, switched, redated>>

\* onDelete: Cascade
DeleteDepot(s) ==
    /\ s \in open
    /\ open' = open \ {s}
    /\ offer' = [d \in Offers |-> IF offer[d].at = s THEN NoOffer ELSE offer[d]]
    /\ UNCHANGED <<switched, redated>>

OfferNext ==
    \/ \E d \in Offers, s \in Depots, ks \in SUBSET Kinds, from, to \in Days :
           CreateDiscount(d, s, ks, from, to)
    \/ \E d \in Offers, ks \in SUBSET Kinds : UpdateKind(d, ks)
    \/ \E d \in Offers, from, to \in Days : UpdateDates(d, from, to)
    \/ \E d \in Offers, s \in Depots : UpdateStation(d, s)
    \/ \E d \in Offers : DeleteDiscount(d)
    \/ \E s \in Depots : DeleteDepot(s)

OfferSpec == OfferInit /\ [][OfferNext]_offerVars

-----------------------------------------------------------------------------

\* A station has one discount at most and a discount a station; it reduces by a
\* percentage or to a price, and by both only if an update changed its kind
\* (discount.service.ts:61-63, 73-74); it ends after it starts unless one of its dates
\* was edited alone (line 57).
OfferInv ==
    /\ OfferTypeOK
    /\ \A d \in Offered :
           /\ offer[d].at \in open
           /\ \A e \in Offered : offer[e].at = offer[d].at => e = d
           /\ offer[d].kinds # {}
           /\ offer[d].kinds = Kinds => d \in switched
           /\ offer[d].to <= offer[d].from => d \in redated
=============================================================================
