--------------------------- MODULE CatalogueProofs ---------------------------
(***************************************************************************)
(* Five parts of the catalogue, for any instance: what a charge costs,     *)
(* discounts, devices that get pushes, stations with their connectors, QR  *)
(* codes and likes, and the cars of users beside the models they come      *)
(* from.  They share no state; each has its own theorems.                  *)
(***************************************************************************)
EXTENDS StationCatalogue, Vehicles, PushDevices, Tariff, Discounts, TLAPS

(* Tariff.                                                                 *)

LEMMA Products ==
    /\ \A p \in Int : 0 * p = 0
    /\ \A e, p \in Int : e * p \in Int
    /\ \A e, p \in Int : e > 0 /\ p > 0 => e * p > 0
OBVIOUS

LEMMA EffectiveType == \A c, s \in Prices \cup {0} : Effective(c, s) \in Int
BY PricesAssumption DEF Effective

\* The price that a call would read now counts as one in force.
PriceKnown == InForce(Effective(connPrice, stationPrice))

LEMMA TariffInitInv == TariffInit => TariffInv /\ PriceKnown
<1> SUFFICES ASSUME TariffInit PROVE TariffInv /\ PriceKnown
  OBVIOUS
<1>1. TariffTypeOK
  BY PricesAssumption, ReadingAssumption DEF TariffInit, TariffTypeOK, Readings, Quiet
<1>2. TariffCallsOK
  BY DEF TariffInit, TariffCallsOK, Quiet
<1>3. CostInForce
  BY Products, PricesAssumption DEF TariffInit, CostInForce
<1>4. PriceKnown
  BY DEF TariffInit, PriceKnown, InForce, Effective
<1>5. QED  BY <1>1, <1>2, <1>3, <1>4 DEF TariffInv

\* An edit of a price adds to the prices that were in force and touches no bill.
LEMMA PriceEdited ==
    ASSUME TariffInv, NEW p \in Int, inForce' = inForce \cup {p}, UNCHANGED <<bill, billReq>>,
           connPrice' \in Prices \cup {0}, stationPrice' \in Prices \cup {0}
    PROVE  TariffInv'
<1>1. TariffTypeOK'
  BY DEF TariffInv, TariffTypeOK
<1>2. TariffCallsOK'
  BY DEF TariffInv, TariffCallsOK, InForce
<1>3. CostInForce'
  BY DEF TariffInv, CostInForce
<1>4. QED  BY <1>1, <1>2, <1>3 DEF TariffInv

\* A call's last statement, or its end.
LEMMA CallEnded ==
    ASSUME TariffInv, NEW r \in BillReqs, billReq' = [billReq EXCEPT ![r] = Quiet],
           UNCHANGED <<connPrice, stationPrice, inForce>>,
           bill' \in [energy : Readings, cost : Int, over : BOOLEAN], CostInForce'
    PROVE  TariffInv'
<1>1. Quiet \in [pc : {"idle", "meter", "stop"}, reading : Readings, price : Int]
  BY ReadingAssumption DEF Quiet, Readings
<1>2. TariffTypeOK'
  BY <1>1 DEF TariffInv, TariffTypeOK
<1>3. TariffCallsOK'
  BY DEF TariffInv, TariffTypeOK, TariffCallsOK, InForce, Quiet
<1>4. QED  BY <1>2, <1>3 DEF TariffInv

LEMMA PriceKnownStep == PriceKnown /\ [TariffNext]_tariffVars => PriceKnown'
<1>1. ASSUME NEW p, SetConnectorPrice(p) \/ SetStationPrice(p) PROVE PriceKnown'
  BY <1>1 DEF SetConnectorPrice, SetStationPrice, PriceKnown, InForce, Effective
<1>2. ASSUME PriceKnown, UNCHANGED <<connPrice, stationPrice, inForce>> PROVE PriceKnown'
  BY <1>2 DEF PriceKnown, InForce, Effective
<1>3. QED
  BY <1>1, <1>2
     DEF TariffNext, tariffVars, CallReads, MeterWrites, StopWrites, BillCutOff

LEMMA TariffStep == TariffInv /\ PriceKnown /\ [TariffNext]_tariffVars => TariffInv'
<1> SUFFICES ASSUME TariffInv, PriceKnown, [TariffNext]_tariffVars PROVE TariffInv'
  OBVIOUS
<1>1. ASSUME NEW p \in Prices \cup {0}, SetConnectorPrice(p) \/ SetStationPrice(p)
      PROVE  TariffInv'
  <2>1. connPrice \in Prices \cup {0} /\ stationPrice \in Prices \cup {0}
    BY DEF TariffInv, TariffTypeOK
  <2>2. Effective(p, stationPrice) \in Int /\ Effective(connPrice, p) \in Int
    BY <2>1, EffectiveType
  <2>3. QED  BY <1>1, <2>1, <2>2, PriceEdited DEF SetConnectorPrice, SetStationPrice
<1>2. ASSUME NEW r \in BillReqs, NEW pc \in {"meter", "stop"}, NEW e \in Readings, CallReads(r, pc, e)
      PROVE  TariffInv'
  <2> DEFINE p == Effective(connPrice, stationPrice)
  <2>1. p \in Int
    BY EffectiveType DEF TariffInv, TariffTypeOK
  <2>2. p \in inForce
    BY DEF PriceKnown, InForce
  <2>3. /\ billReq' = [billReq EXCEPT ![r] = [pc |-> pc, reading |-> e, price |-> p]]
        /\ UNCHANGED <<connPrice, stationPrice, bill, inForce>>
    BY <1>2 DEF CallReads
  <2> HIDE DEF p
  <2>4. TariffTypeOK'
    BY <2>1, <2>3 DEF TariffInv, TariffTypeOK
  <2>5. TariffCallsOK'
    BY <2>2, <2>3 DEF TariffInv, TariffTypeOK, TariffCallsOK, InForce
  <2>6. CostInForce'
    BY <2>3 DEF TariffInv, CostInForce
  <2>7. QED  BY <2>4, <2>5, <2>6 DEF TariffInv
<1>3. ASSUME NEW r \in BillReqs, MeterWrites(r) PROVE TariffInv'
  <2>1. PICK e \in Readings, p \in Int : e = billReq[r].reading /\ p = billReq[r].price
    BY DEF TariffInv, TariffTypeOK
  <2>2. p \in inForce /\ e * p \in Int
    BY <1>3, <2>1, Products DEF MeterWrites, TariffInv, TariffCallsOK, InForce, Readings
  <2>3. bill' = [bill EXCEPT !.energy = e, !.cost = e * p]
    BY <1>3, <2>1 DEF MeterWrites, CostOf
  <2>4. /\ bill' \in [energy : Readings, cost : Int, over : BOOLEAN]
        /\ bill'.energy = e /\ bill'.cost = e * p
    BY <2>2, <2>3 DEF TariffInv, TariffTypeOK
  <2>5. CostInForce'
    BY <1>3, <2>2, <2>4 DEF MeterWrites, CostInForce
  <2>6. QED  BY <1>3, <2>4, <2>5, CallEnded DEF MeterWrites
<1>4. ASSUME NEW r \in BillReqs, StopWrites(r) PROVE TariffInv'
  <2>1. PICK e \in Readings, p \in Int : e = billReq[r].reading /\ p = billReq[r].price
    BY DEF TariffInv, TariffTypeOK
  <2>2. e \in Int /\ e >= 0 /\ p \in inForce /\ e * p \in Int
    BY <1>4, <2>1, Products DEF StopWrites, TariffInv, TariffCallsOK, InForce, Readings
  <2>3. bill' = [energy |-> IF e > 0 THEN e ELSE bill.energy,
                 cost |-> IF e * p > 0 THEN e * p ELSE bill.cost, over |-> TRUE]
    BY <1>4, <2>1 DEF StopWrites, CostOf
  <2>4. bill.energy \in Readings /\ bill.cost \in Int
    BY DEF TariffInv, TariffTypeOK
  <2>5. bill' \in [energy : Readings, cost : Int, over : BOOLEAN]
    BY <2>1, <2>2, <2>3, <2>4
  <2>6. ASSUME \A q \in inForce : q > 0
        PROVE  \E q \in inForce : bill'.cost = bill'.energy * q
    <3>1. p > 0
      BY <2>2, <2>6
    <3>2. CASE e > 0
      <4>1. e * p > 0
        BY <2>2, <3>1, <3>2, Products
      <4>2. bill'.cost = e * p /\ bill'.energy = e
        BY <2>3, <3>2, <4>1
      <4>3. QED  BY <2>2, <4>2
    <3>3. CASE e = 0
      <4>1. ~ (e * p > 0)
        BY <2>2, <3>3, Products
      <4>2. bill'.cost = bill.cost /\ bill'.energy = bill.energy
        BY <2>3, <3>3, <4>1
      <4>3. QED  BY <2>6, <4>2 DEF TariffInv, CostInForce
    <3>4. QED  BY <2>2, <3>2, <3>3
  <2>7. CostInForce'
    BY <1>4, <2>6 DEF StopWrites, CostInForce
  <2>8. QED  BY <1>4, <2>5, <2>7, CallEnded DEF StopWrites
<1>5. ASSUME NEW r \in BillReqs, BillCutOff(r) PROVE TariffInv'
  <2>1. bill' \in [energy : Readings, cost : Int, over : BOOLEAN] /\ CostInForce'
    BY <1>5 DEF BillCutOff, TariffInv, TariffTypeOK, CostInForce
  <2>2. QED  BY <1>5, <2>1, CallEnded DEF BillCutOff
<1>6. ASSUME UNCHANGED tariffVars PROVE TariffInv'
  BY <1>6 DEF tariffVars, TariffInv, TariffTypeOK, TariffCallsOK, CostInForce, InForce
<1>7. QED  BY <1>1, <1>2, <1>3, <1>4, <1>5, <1>6 DEF TariffNext

\* What a session costs is its energy at one price that was in force since it began,
\* whatever prices (none of them negative), readings and stops come in which order.
THEOREM CostsAPrice == TariffSpec => []TariffInv
<1>1. QED  BY TariffInitInv, TariffStep, PriceKnownStep, PTL DEF TariffSpec

-----------------------------------------------------------------------------
(* Discounts.                                                              *)

LEMMA OfferInitInv == OfferInit => OfferInv
BY DayAssumption DEF OfferInit, OfferInv, OfferTypeOK, Offered, NoOffer, OfferRows, Days

\* One discount is written, no two discounts share a station, and what is known of the
\* others stays known.
LEMMA OneWritten ==
    ASSUME OfferInv, NEW d \in Offers, NEW o \in OfferRows, offer' = [offer EXCEPT ![d] = o],
           open' = open, switched' \subseteq Offers, redated' \subseteq Offers,
           switched \ {d} \subseteq switched', redated \ {d} \subseteq redated',
           o = NoOffer \/ (Free(o.at, d) /\ o.kinds # {}
                            /\ (o.kinds = Kinds => d \in switched')
                            /\ (o.to <= o.from => d \in redated'))
    PROVE  OfferInv'
<1>1. OfferTypeOK'
  BY DEF OfferInv, OfferTypeOK
<1>2. offer'[d] = o /\ \A e \in Offers : e # d => offer'[e] = offer[e]
  BY DEF OfferInv, OfferTypeOK
<1>3. ASSUME NEW e \in Offered'
      PROVE  /\ offer'[e].at \in open'
             /\ offer'[e].kinds # {}
             /\ offer'[e].kinds = Kinds => e \in switched'
             /\ offer'[e].to <= offer'[e].from => e \in redated'
  BY <1>2, <1>3 DEF OfferInv, Offered, Free
<1>4. ASSUME NEW e \in Offered', NEW f \in Offered', offer'[f].at = offer'[e].at PROVE f = e
  BY <1>2, <1>4 DEF OfferInv, Offered, Free
<1>5. QED  BY <1>1, <1>3, <1>4 DEF OfferInv

LEMMA OfferStep == OfferInv /\ [OfferNext]_offerVars => OfferInv'
<1> SUFFICES ASSUME OfferInv, [OfferNext]_offerVars PROVE OfferInv'
  OBVIOUS
<1>0. \A d \in Offers : offer[d] \in OfferRows
  BY DEF OfferInv, OfferTypeOK
<1>1. ASSUME NEW d \in Offers, NEW s \in Depots, NEW ks \in SUBSET Kinds, NEW from \in Days,
             NEW to \in Days, CreateDiscount(d, s, ks, from, to)
      PROVE  OfferInv'
  <2> DEFINE o == [at |-> s, kinds |-> ks, from |-> from, to |-> to]
  <2>1. o \in OfferRows /\ offer' = [offer EXCEPT ![d] = o] /\ Free(o.at, d)
    BY <1>1 DEF CreateDiscount, OfferRows
  <2>2. o.kinds # {} /\ o.kinds # Kinds
    BY <1>1 DEF CreateDiscount, OneKind, Kinds
  <2>3. ~ (o.to <= o.from)
    BY <1>1, DayAssumption DEF CreateDiscount, Days
  <2>4. /\ open' = open /\ switched' = switched \ {d} /\ redated' = redated \ {d}
        /\ switched \subseteq Offers /\ redated \subseteq Offers
    BY <1>1 DEF CreateDiscount, OfferInv, OfferTypeOK
  <2> HIDE DEF o
  <2>5. QED  BY <2>1, <2>2, <2>3, <2>4, OneWritten
<1>2. ASSUME NEW d \in Offers, NEW ks \in SUBSET Kinds, UpdateKind(d, ks) PROVE OfferInv'
  <2> DEFINE o == [offer[d] EXCEPT !.kinds = @ \cup ks]
  <2>1. d \in Offered /\ ks # {}
    BY <1>2 DEF UpdateKind, OneKind
  <2>2. /\ o \in OfferRows /\ o.at = offer[d].at /\ o.kinds = offer[d].kinds \cup ks
        /\ o.from = offer[d].from /\ o.to = offer[d].to
    BY <1>0 DEF OfferRows
  <2>3. offer' = [offer EXCEPT ![d] = o]
    BY <1>2, Zenon DEF UpdateKind
  <2>4. /\ open' = open /\ redated' = redated
        /\ switched' = IF ks \subseteq offer[d].kinds THEN switched ELSE switched \cup {d}
    BY <1>2 DEF UpdateKind
  <2> HIDE DEF o
  <2>5. Free(o.at, d) /\ o.kinds # {} /\ (o.to <= o.from => d \in redated')
    BY <2>1, <2>2, <2>4 DEF OfferInv, Free
  <2>6. o.kinds = Kinds => d \in switched'
    <3>1. CASE ks \subseteq offer[d].kinds
      <4>1. o.kinds = offer[d].kinds
        BY <2>2, <3>1
      <4>2. QED  BY <2>1, <2>4, <3>1, <4>1 DEF OfferInv
    <3>2. CASE ~ (ks \subseteq offer[d].kinds)
      BY <2>4, <3>2
    <3>3. QED  BY <3>1, <3>2
  <2>7. switched' \subseteq Offers /\ redated' \subseteq Offers /\ switched \subseteq switched'
    BY <2>4 DEF OfferInv, OfferTypeOK
  <2>8. QED  BY <2>2, <2>3, <2>4, <2>5, <2>6, <2>7, OneWritten
<1>3. ASSUME NEW d \in Offers, NEW from \in Days, NEW to \in Days, UpdateDates(d, from, to)
      PROVE  OfferInv'
  <2> DEFINE o == [offer[d] EXCEPT !.from = from, !.to = to]
  <2>1. d \in Offered
    BY <1>3 DEF UpdateDates
  <2>2. /\ o \in OfferRows /\ o.at = offer[d].at /\ o.kinds = offer[d].kinds
        /\ o.from = from /\ o.to = to
    BY <1>0 DEF OfferRows
  <2>3. offer' = [offer EXCEPT ![d] = o]
    BY <1>3, Zenon DEF UpdateDates
  <2>4. /\ open' = open /\ switched' = switched
        /\ (from < to /\ redated' = redated) \/ redated' = redated \cup {d}
    BY <1>3 DEF UpdateDates
  <2> HIDE DEF o
  <2>5. Free(o.at, d) /\ o.kinds # {} /\ (o.kinds = Kinds => d \in switched')
    BY <2>1, <2>2, <2>4 DEF OfferInv, Free
  <2>6. o.to <= o.from => d \in redated'
    BY <2>2, <2>4, DayAssumption DEF Days
  <2>7. switched' \subseteq Offers /\ redated' \subseteq Offers /\ redated \subseteq redated'
    BY <2>4 DEF OfferInv, OfferTypeOK
  <2>8. QED  BY <2>2, <2>3, <2>4, <2>5, <2>6, <2>7, OneWritten
<1>4. ASSUME NEW d \in Offers, NEW s \in Depots, UpdateStation(d, s) PROVE OfferInv'
  <2> DEFINE o == [offer[d] EXCEPT !.at = s]
  <2>1. d \in Offered /\ Free(s, d)
    BY <1>4 DEF UpdateStation
  <2>2. /\ o \in OfferRows /\ o.at = s /\ o.kinds = offer[d].kinds
        /\ o.from = offer[d].from /\ o.to = offer[d].to
    BY <1>0 DEF OfferRows
  <2>3. offer' = [offer EXCEPT ![d] = o] /\ open' = open
        /\ switched' = switched /\ redated' = redated
    BY <1>4, Zenon DEF UpdateStation
  <2> HIDE DEF o
  <2>4. o.kinds # {} /\ (o.kinds = Kinds => d \in switched') /\ (o.to <= o.from => d \in redated')
    BY <2>1, <2>2, <2>3 DEF OfferInv
  <2>5. switched \subseteq Offers /\ redated \subseteq Offers
    BY DEF OfferInv, OfferTypeOK
  <2>6. QED  BY <2>1, <2>2, <2>3, <2>4, <2>5, OneWritten
<1>5. ASSUME NEW d \in Offers, DeleteDiscount(d) PROVE OfferInv'
  <2>1. NoOffer \in OfferRows /\ switched \subseteq Offers /\ redated \subseteq Offers
    BY DayAssumption DEF NoOffer, OfferRows, Days, OfferInv, OfferTypeOK
  <2>2. QED  BY <1>5, <2>1, OneWritten DEF DeleteDiscount
<1>6. ASSUME NEW s \in Depots, DeleteDepot(s) PROVE OfferInv'
  <2>1. NoOffer \in OfferRows
    BY DayAssumption DEF NoOffer, OfferRows, Days
  <2>2. \A d \in Offers : offer'[d] = IF offer[d].at = s THEN NoOffer ELSE offer[d]
    BY <1>6 DEF DeleteDepot
  <2>3. OfferTypeOK'
    BY <1>6, <2>1 DEF DeleteDepot, OfferInv, OfferTypeOK
  <2>4. Offered' = {d \in Offered : offer[d].at # s}
    BY <2>2 DEF Offered
  <2>5. \A d \in Offered' : d \in Offered /\ offer'[d] = offer[d] /\ offer[d].at # s
    BY <2>2, <2>4 DEF Offered
  <2>6. open' = open \ {s} /\ switched' = switched /\ redated' = redated
    BY <1>6 DEF DeleteDepot
  <2>7. QED  BY <2>3, <2>5, <2>6 DEF OfferInv
<1>7. ASSUME UNCHANGED offerVars PROVE OfferInv'
  BY <1>7 DEF offerVars, OfferInv, OfferTypeOK, Offered
<1>8. QED  BY <1>1, <1>2, <1>3, <1>4, <1>5, <1>6, <1>7 DEF OfferNext

\* One discount for a station; both kinds of reduction at once, or an end before the
\* start, only where updates that name a part of the row brought them about.
THEOREM OffersFit == OfferSpec => []OfferInv
<1>1. QED  BY OfferInitInv, OfferStep, PTL DEF OfferSpec

-----------------------------------------------------------------------------
(* Stations, connectors, QR codes and likes.                               *)

\* Connectors that were handed a code, or are about to draw one, have existed.
KnownConns ==
    /\ \A p \in printed : conn[p[1]].state # "unused"
    /\ \A r \in CatReqs : catReq[r].pc = "qr" => conn[catReq[r].conn].state # "unused"

LikesBounded == \A m \in Members, s \in Stations : like[<<m, s>>] <= likes

LEMMA CatInitInv == CatInit => CatalogueInv /\ KnownConns
<1> SUFFICES ASSUME CatInit PROVE CatalogueInv /\ KnownConns
  OBVIOUS
<1>1. CatTypeOK
  <2>1. Ready \in CatCalls
    BY LikesAssumption DEF Ready, CatCalls
  <2>2. QED  BY <2>1, LikesAssumption, NilAssumption DEF CatInit, CatTypeOK, ConnRows
<1>2. QED
  BY <1>1, LikesAssumption DEF CatInit, CatalogueInv, KnownConns, ReferencesOK, CodesUsedOnce,
     PrintedCodesResolve, CatCallsOK, LikesAsTold, LiveStations, LiveConns, Ready

\* The parts of CatalogueInv: what refers to stations, where codes lead, what users
\* were told of their likes.
CodesInv == CodesUsedOnce /\ PrintedCodesResolve /\ KnownConns
LikesInv == LikesBounded /\ LikesAsTold

LEMMA Parts ==
    CatalogueInv /\ KnownConns <=> CatTypeOK /\ ReferencesOK /\ CatCallsOK /\ CodesInv /\ LikesInv
BY DEF CatalogueInv, CodesInv, LikesInv, LikesBounded

\* What the actions on one connector write.
LEMMA ConnWritten ==
    ASSUME CatTypeOK, NEW c \in Conns, NEW s \in Stations,
           CreateConnector(c, s) \/ UpdateConnector(c, s)
    PROVE  /\ conn' \in [Conns -> ConnRows]
           /\ \A d \in Conns : d # c => conn'[d] = conn[d]
           /\ conn'[c] = [at |-> s, qr |-> IF CreateConnector(c, s) THEN Nil ELSE conn[c].qr,
                         state |-> "live"]
<1>1. conn[c] \in ConnRows /\ conn \in [Conns -> ConnRows]
  BY DEF CatTypeOK
<1>2. CASE CreateConnector(c, s)
  <2>1. conn' = [conn EXCEPT ![c] = [at |-> s, qr |-> Nil, state |-> "live"]]
    BY <1>2 DEF CreateConnector
  <2>2. QED  BY <1>1, <1>2, <2>1 DEF ConnRows
<1>3. CASE UpdateConnector(c, s) /\ ~ CreateConnector(c, s)
  <2> DEFINE w == [conn[c] EXCEPT !.at = s]
  <2>1. w \in ConnRows /\ w = [at |-> s, qr |-> conn[c].qr, state |-> "live"]
    BY <1>1, <1>3 DEF ConnRows, UpdateConnector, LiveConns
  <2>2. conn' = [conn EXCEPT ![c] = w]
    BY <1>3, Zenon DEF UpdateConnector
  <2> HIDE DEF w
  <2>3. QED  BY <1>1, <1>3, <2>1, <2>2
<1>4. QED  BY <1>2, <1>3

LEMMA ConnRemoved ==
    ASSUME CatTypeOK, NEW c \in Conns, RemoveConnector(c)
    PROVE  /\ conn' \in [Conns -> ConnRows]
           /\ \A d \in Conns : d # c => conn'[d] = conn[d]
           /\ conn'[c] = [at |-> Nil, qr |-> Nil, state |-> "deleted"]
BY DEF CatTypeOK, RemoveConnector, ConnRows

\* Requests go on with w, or none does.
LEMMA CatReqWritten ==
    ASSUME CatTypeOK, NEW r \in CatReqs, NEW w \in CatCalls, catReq' = [catReq EXCEPT ![r] = w]
    PROVE  /\ catReq' \in [CatReqs -> CatCalls]
           /\ catReq'[r] = w
           /\ \A n \in CatReqs : n # r => catReq'[n] = catReq[n]
BY DEF CatTypeOK

LEMMA ReadyIsCall == Ready \in CatCalls /\ Ready.pc = "idle"
BY LikesAssumption DEF Ready, CatCalls

LEMMA DrawCall ==
    ASSUME NEW c \in Conns
    PROVE  LET w == [Ready EXCEPT !.pc = "qr", !.conn = c] IN
           w \in CatCalls /\ w.pc = "qr" /\ w.conn = c
<1>1. 0 \in 0 .. MaxLikes
  BY LikesAssumption
<1>2. QED  BY <1>1 DEF Ready, CatCalls

\* Types, and what requests carry of a toggle.
TogglesOK ==
    \A r \in CatReqs :
        /\ catReq[r].pc \in {"like", "unlike"} =>
               catReq[r].member \in Members /\ catReq[r].station \in Stations
        /\ catReq[r].pc = "unlike" => catReq[r].row \in 1 .. likes
        /\ catReq[r].pc = "qr" => catReq[r].conn \in Conns

LEMMA CatTypeStep ==
    CatTypeOK /\ TogglesOK /\ LikesBounded /\ [CatNext]_catVars => CatTypeOK' /\ TogglesOK'
<1> SUFFICES ASSUME CatTypeOK, TogglesOK, LikesBounded, [CatNext]_catVars
             PROVE  CatTypeOK' /\ TogglesOK'
  OBVIOUS
<1>1. ASSUME NEW s \in Stations,
             CreateStation(s) \/ RemoveStation(s) \/ SetPrice(s) \/ RemovePrice(s)
      PROVE  CatTypeOK' /\ TogglesOK'
  <2>1. UNCHANGED <<conn, like, likes, drawn, catReq, printed, apart, told>>
    BY <1>1 DEF CreateStation, RemoveStation, SetPrice, RemovePrice
  <2>2. station' \in [Stations -> {"unused", "live", "deleted"}] /\ priced' \subseteq Stations
    BY <1>1 DEF CreateStation, RemoveStation, SetPrice, RemovePrice, CatTypeOK
  <2>3. QED  BY <2>1, <2>2 DEF CatTypeOK, TogglesOK
<1>2. ASSUME NEW c \in Conns, NEW s \in Stations,
             CreateConnector(c, s) \/ UpdateConnector(c, s)
      PROVE  CatTypeOK' /\ TogglesOK'
  <2>1. UNCHANGED <<station, priced, like, likes, drawn, catReq, printed, apart, told>>
    BY <1>2 DEF CreateConnector, UpdateConnector
  <2>2. conn' \in [Conns -> ConnRows]
    BY <1>2, ConnWritten
  <2>3. QED  BY <2>1, <2>2 DEF CatTypeOK, TogglesOK
<1>3. ASSUME NEW r \in CatReqs, NEW c \in Conns, QrBegins(r, c) PROVE CatTypeOK' /\ TogglesOK'
  <2>1. UNCHANGED <<station, priced, conn, like, likes, drawn, told>>
    BY <1>3 DEF QrBegins
  <2>2. CASE Reusable(c)
    <3>1. printed' = printed \cup {<<c, conn[c].qr>>} /\ UNCHANGED <<catReq, apart>>
      BY <1>3, <2>2 DEF QrBegins
    <3>2. conn[c].qr \in QrCodes
      BY <2>2 DEF Reusable, CatTypeOK, ConnRows
    <3>3. QED  BY <2>1, <3>1, <3>2 DEF CatTypeOK, TogglesOK
  <2>3. CASE ~ Reusable(c)
    <3> DEFINE w == [Ready EXCEPT !.pc = "qr", !.conn = c]
    <3>1. w \in CatCalls /\ w.pc = "qr" /\ w.conn = c
      BY DrawCall
    <3>2. /\ catReq' = [catReq EXCEPT ![r] = w] /\ printed' = printed
          /\ apart' = IF Generating(c) = {} THEN apart ELSE apart \ {c}
      BY <1>3, <2>3, Zenon DEF QrBegins, CatCall
    <3> HIDE DEF w
    <3>3. CatTypeOK'
      BY <2>1, <3>1, <3>2 DEF CatTypeOK
    <3>4. TogglesOK'
      BY <2>1, <3>1, <3>2, CatReqWritten DEF TogglesOK
    <3>5. QED  BY <3>3, <3>4
  <2>4. QED  BY <2>2, <2>3
<1>4. ASSUME NEW r \in CatReqs, NEW k \in QrCodes, QrStores(r, k) PROVE CatTypeOK' /\ TogglesOK'
  <2>1. PICK c \in Conns : c = catReq[r].conn
    BY <1>4 DEF QrStores, TogglesOK
  <2>2. /\ UNCHANGED <<station, priced, like, likes, apart, told>>
        /\ drawn' = drawn \cup {k}
        /\ catReq' = [catReq EXCEPT ![r] = Ready]
        /\ (conn' = [conn EXCEPT ![c].qr = k] /\ printed' = printed \cup {<<c, k>>})
               \/ (conn' = conn /\ printed' = printed)
    BY <1>4, <2>1 DEF QrStores, CatDone
  <2>3. conn' \in [Conns -> ConnRows] /\ printed' \subseteq Conns \X QrCodes
    <3>1. [conn[c] EXCEPT !.qr = k] \in ConnRows
      BY DEF CatTypeOK, ConnRows
    <3>2. [conn EXCEPT ![c].qr = k] \in [Conns -> ConnRows]
      BY <3>1 DEF CatTypeOK
    <3>3. QED  BY <2>2, <3>2 DEF CatTypeOK
  <2>4. CatTypeOK'
    BY <2>2, <2>3, ReadyIsCall DEF CatTypeOK
  <2>5. TogglesOK'
    BY <2>2, ReadyIsCall, CatReqWritten DEF TogglesOK
  <2>6. QED  BY <2>4, <2>5
<1>5. ASSUME NEW r \in CatReqs, NEW m \in Members, NEW s \in Stations, ToggleBegins(r, m, s)
      PROVE  CatTypeOK' /\ TogglesOK'
  <2>1. /\ UNCHANGED <<station, priced, conn, like, likes, drawn, printed, apart, told>>
        /\ like[<<m, s>>] \in 0 .. MaxLikes /\ like[<<m, s>>] <= likes
    BY <1>5 DEF ToggleBegins, CatTypeOK, LikesBounded
  <2> DEFINE pc == IF like[<<m, s>>] = 0 THEN "like" ELSE "unlike"
             w == [Ready EXCEPT !.pc = pc, !.member = m, !.station = s, !.row = like[<<m, s>>]]
  <2>2. /\ w \in CatCalls /\ w.pc = pc /\ w.member = m /\ w.station = s
        /\ w.row = like[<<m, s>>]
    BY <2>1 DEF Ready, CatCalls
  <2>3. catReq' = [catReq EXCEPT ![r] = w]
    BY <1>5 DEF ToggleBegins, CatCall
  <2>4. pc = "unlike" => like[<<m, s>>] \in 1 .. likes
    BY <2>1, LikesAssumption DEF CatTypeOK
  <2>5. pc \in {"like", "unlike"}
    OBVIOUS
  <2> HIDE DEF w, pc
  <2>6. CatTypeOK'
    BY <2>1, <2>2, <2>3 DEF CatTypeOK
  <2>7. TogglesOK'
    BY <2>1, <2>2, <2>3, <2>4, <2>5, CatReqWritten DEF TogglesOK
  <2>8. QED  BY <2>6, <2>7
<1>6. ASSUME NEW r \in CatReqs, Unlikes(r) \/ Likes(r) PROVE CatTypeOK' /\ TogglesOK'
  <2>1. PICK m \in Members, s \in Stations : m = catReq[r].member /\ s = catReq[r].station
    BY <1>6 DEF Unlikes, Likes, TogglesOK
  <2>2. /\ UNCHANGED <<station, priced, conn, drawn, printed, apart>>
        /\ catReq' = [catReq EXCEPT ![r] = Ready]
    BY <1>6 DEF Unlikes, Likes, CatDone
  <2>3. told' = told \/ \E b \in BOOLEAN : told' = [told EXCEPT ![<<m, s>>] = b]
    BY <1>6, <2>1 DEF Unlikes, Likes
  <2>4. \/ likes' = likes /\ like' = like
        \/ likes' = likes /\ like' = [like EXCEPT ![<<m, s>>] = 0]
        \/ /\ likes < MaxLikes /\ likes' = likes + 1
           /\ like' = [like EXCEPT ![<<m, s>>] = likes + 1]
    <3>1. CASE Likes(r)
      BY <2>1, <3>1 DEF Likes
    <3>2. CASE Unlikes(r)
      BY <2>1, <3>2 DEF Unlikes, CatTypeOK
    <3>3. QED  BY <1>6, <3>1, <3>2
  <2>5. /\ like' \in [Members \X Stations -> 0 .. MaxLikes] /\ likes' \in 0 .. MaxLikes
        /\ likes <= likes'
    BY <2>4, LikesAssumption DEF CatTypeOK
  <2>6. told' \in [Members \X Stations -> BOOLEAN]
    BY <2>3, Zenon DEF CatTypeOK
  <2>7. CatTypeOK'
    BY <2>2, <2>5, <2>6, ReadyIsCall DEF CatTypeOK
  <2>8. 1 .. likes \subseteq 1 .. likes'
    BY <2>5, LikesAssumption DEF CatTypeOK
  <2>9. TogglesOK'
    BY <2>2, <2>8, ReadyIsCall, CatReqWritten DEF TogglesOK
  <2>10. QED  BY <2>7, <2>9
<1>7. ASSUME NEW r \in CatReqs, CatCutOff(r) PROVE CatTypeOK' /\ TogglesOK'
  <2>1. /\ catReq' = [catReq EXCEPT ![r] = Ready]
        /\ UNCHANGED <<station, priced, conn, like, likes, drawn, printed, apart, told>>
    BY <1>7 DEF CatCutOff, CatDone
  <2>2. QED  BY <2>1, ReadyIsCall, CatReqWritten DEF CatTypeOK, TogglesOK
<1>8. ASSUME UNCHANGED catVars PROVE CatTypeOK' /\ TogglesOK'
  BY <1>8 DEF catVars, CatTypeOK, TogglesOK
<1>9. ASSUME NEW c \in Conns, RemoveConnector(c) PROVE CatTypeOK' /\ TogglesOK'
  <2>1. UNCHANGED <<station, priced, like, likes, drawn, catReq, printed, apart, told>>
    BY <1>9 DEF RemoveConnector
  <2>2. QED  BY <1>9, <2>1, ConnRemoved DEF CatTypeOK, TogglesOK
<1>10. QED  BY <1>1, <1>2, <1>3, <1>4, <1>5, <1>6, <1>7, <1>8, <1>9 DEF CatNext

\* No step leaves a reference to a station that is gone.
LEMMA ReferencesStep ==
    CatTypeOK /\ TogglesOK /\ ReferencesOK /\ [CatNext]_catVars => ReferencesOK'
<1> SUFFICES ASSUME CatTypeOK, TogglesOK, ReferencesOK, [CatNext]_catVars PROVE ReferencesOK'
  OBVIOUS
<1>1. ASSUME NEW s \in Stations, CreateStation(s) \/ SetPrice(s) \/ RemovePrice(s)
      PROVE  ReferencesOK'
  BY <1>1 DEF CreateStation, SetPrice, RemovePrice, CatTypeOK, ReferencesOK, LiveStations, LiveConns
<1>2. ASSUME NEW s \in Stations, RemoveStation(s) PROVE ReferencesOK'
  <2>1. LiveStations' = LiveStations \ {s}
    BY <1>2 DEF RemoveStation, LiveStations, CatTypeOK
  <2>2. UNCHANGED <<priced, conn, like>> /\ ~ Referred(s)
    BY <1>2 DEF RemoveStation
  <2>3. QED  BY <2>1, <2>2 DEF Referred, ReferencesOK, LiveConns
<1>3. ASSUME NEW c \in Conns, NEW s \in Stations, CreateConnector(c, s) \/ UpdateConnector(c, s)
      PROVE  ReferencesOK'
  <2>1. UNCHANGED <<station, priced, like>> /\ s \in LiveStations
    BY <1>3 DEF CreateConnector, UpdateConnector
  <2>2. conn'[c].at = s /\ conn'[c].state = "live" /\ \A d \in Conns : d # c => conn'[d] = conn[d]
    <3>1. \E q : conn'[c] = [at |-> s, qr |-> q, state |-> "live"]
      BY <1>3, ConnWritten
    <3>2. \A d \in Conns : d # c => conn'[d] = conn[d]
      BY <1>3, ConnWritten
    <3>3. QED  BY <3>1, <3>2
  <2>3. s # Nil
    BY NilAssumption
  <2>4. QED  BY <2>1, <2>2, <2>3 DEF ReferencesOK, LiveStations, LiveConns
<1>4. ASSUME NEW c \in Conns, RemoveConnector(c) PROVE ReferencesOK'
  <2>1. UNCHANGED <<station, priced, like>>
    BY <1>4 DEF RemoveConnector
  <2>2. conn'[c].at = Nil /\ conn'[c].state = "deleted" /\ \A d \in Conns : d # c => conn'[d] = conn[d]
    BY <1>4, ConnRemoved
  <2>3. QED  BY <2>1, <2>2 DEF ReferencesOK, LiveStations, LiveConns
<1>5. ASSUME NEW r \in CatReqs, NEW k \in QrCodes, QrStores(r, k) PROVE ReferencesOK'
  <2>1. PICK c \in Conns : c = catReq[r].conn
    BY <1>5 DEF QrStores, TogglesOK
  <2>2. UNCHANGED <<station, priced, like>> /\ (conn' = [conn EXCEPT ![c].qr = k] \/ conn' = conn)
    BY <1>5, <2>1 DEF QrStores
  <2>3. \A d \in Conns : conn'[d].at = conn[d].at /\ conn'[d].state = conn[d].state
    BY <2>2 DEF CatTypeOK, ConnRows
  <2>4. QED  BY <2>2, <2>3 DEF ReferencesOK, LiveStations, LiveConns
<1>6. ASSUME NEW r \in CatReqs, Likes(r) \/ Unlikes(r) PROVE ReferencesOK'
  <2>1. PICK m \in Members, s \in Stations : m = catReq[r].member /\ s = catReq[r].station
    BY <1>6 DEF Unlikes, Likes, TogglesOK
  <2>2. UNCHANGED <<station, priced, conn>>
    BY <1>6 DEF Unlikes, Likes
  <2>3. \/ like' = like
        \/ like' = [like EXCEPT ![<<m, s>>] = 0]
        \/ like' = [like EXCEPT ![<<m, s>>] = likes + 1] /\ s \in LiveStations
    <3>1. CASE Likes(r)
      BY <2>1, <3>1 DEF Likes
    <3>2. CASE Unlikes(r)
      BY <2>1, <3>2 DEF Unlikes, CatTypeOK
    <3>3. QED  BY <1>6, <3>1, <3>2
  <2>4. \A n \in Members, z \in Stations :
            like'[<<n, z>>] = like[<<n, z>>] \/ like'[<<n, z>>] = 0 \/ z \in LiveStations
    BY <2>3 DEF CatTypeOK
  <2>5. QED  BY <2>2, <2>4 DEF ReferencesOK, LiveStations, LiveConns
<1>7. ASSUME UNCHANGED <<station, priced, conn, like>> PROVE ReferencesOK'
  BY <1>7 DEF ReferencesOK, LiveStations, LiveConns
<1>8. QED
  BY <1>1, <1>2, <1>3, <1>4, <1>5, <1>6, <1>7
     DEF CatNext, catVars, QrBegins, ToggleBegins, CatCutOff

\* Nobody finds another like than he was told of.
LEMMA LikesStep == CatTypeOK /\ TogglesOK /\ LikesInv /\ [CatNext]_catVars => LikesInv'
<1> SUFFICES ASSUME CatTypeOK, TogglesOK, LikesInv, [CatNext]_catVars PROVE LikesInv'
  OBVIOUS
<1>1. ASSUME NEW r \in CatReqs, Likes(r) \/ Unlikes(r) PROVE LikesInv'
  <2>1. PICK m \in Members, s \in Stations : m = catReq[r].member /\ s = catReq[r].station
    BY <1>1 DEF Unlikes, Likes, TogglesOK
  <2> DEFINE p == <<m, s>>
  <2>2. /\ like[p] \in 0 .. MaxLikes /\ like[p] <= likes /\ likes \in Nat
        /\ told[p] <=> like[p] # 0
    BY LikesAssumption DEF CatTypeOK, LikesInv, LikesBounded, LikesAsTold
  <2>3. \/ UNCHANGED <<like, likes, told>>
        \/ UNCHANGED <<like, likes>> /\ like[p] # 0 /\ told' = [told EXCEPT ![p] = TRUE]
        \/ /\ likes' = likes + 1 /\ like' = [like EXCEPT ![p] = likes + 1]
           /\ told' = [told EXCEPT ![p] = TRUE]
        \/ /\ likes' = likes /\ like' = [like EXCEPT ![p] = 0]
           /\ told' = [told EXCEPT ![p] = FALSE]
    <3>1. CASE Likes(r)
      BY <2>1, <3>1 DEF Likes
    <3>2. CASE Unlikes(r) /\ like[p] = catReq[r].row
      BY <2>1, <3>2 DEF Unlikes, Throws
    <3>3. CASE Unlikes(r) /\ like[p] # catReq[r].row
      <4>1. told' = told /\ likes' = likes /\ like' = [like EXCEPT ![p] = like[p]]
        BY <2>1, <3>3 DEF Unlikes, Throws
      <4>2. like' = like
        BY <4>1 DEF CatTypeOK
      <4>3. QED  BY <4>1, <4>2
    <3>4. QED  BY <1>1, <3>1, <3>2, <3>3
  <2>4. ASSUME NEW n \in Members, NEW z \in Stations
        PROVE  like'[<<n, z>>] <= likes' /\ (told'[<<n, z>>] <=> like'[<<n, z>>] # 0)
    <3>1. /\ like[<<n, z>>] <= likes /\ (told[<<n, z>>] <=> like[<<n, z>>] # 0)
          /\ like[<<n, z>>] \in Nat
      BY LikesAssumption DEF CatTypeOK, LikesInv, LikesBounded, LikesAsTold
    <3>2. CASE <<n, z>> = p
      <4>1. like'[p] <= likes' /\ (like'[p] # 0 <=> (like[p] # 0 /\ like' = like) \/ like'[p] = likes + 1)
        BY <2>2, <2>3 DEF CatTypeOK
      <4>2. told'[p] <=> like'[p] # 0
        BY <2>2, <2>3 DEF CatTypeOK
      <4>3. QED  BY <3>2, <4>1, <4>2
    <3>3. CASE <<n, z>> # p
      <4>1. like'[<<n, z>>] = like[<<n, z>>] /\ likes <= likes'
        BY <2>2, <2>3, <3>3 DEF CatTypeOK
      <4>2. told'[<<n, z>>] = told[<<n, z>>]
        BY <2>3, <3>3, Zenon DEF CatTypeOK
      <4>3. likes' \in Nat
        BY <2>2, <2>3
      <4>4. QED  BY <2>2, <3>1, <4>1, <4>2, <4>3
    <3>4. QED  BY <3>2, <3>3
  <2>5. QED  BY <2>4 DEF LikesInv, LikesBounded, LikesAsTold
<1>2. ASSUME UNCHANGED <<like, likes, told>> PROVE LikesInv'
  BY <1>2 DEF LikesInv, LikesBounded, LikesAsTold
<1>3. QED
  BY <1>1, <1>2
     DEF CatNext, catVars, CreateStation, RemoveStation, SetPrice, RemovePrice, CreateConnector,
         UpdateConnector, RemoveConnector, QrBegins, QrStores, ToggleBegins, CatCutOff

-----------------------------------------------------------------------------
(* Where codes lead.                                                       *)

\* Requests about to draw a code for a connector that no others draw for: there is no
\* code yet, and none was given out.
Drawing(r) == catReq[r].pc = "qr"

DrawsAlone ==
    \A r \in CatReqs :
        Drawing(r) /\ catReq[r].conn \in apart =>
            /\ \A n \in CatReqs : Drawing(n) /\ catReq[n].conn = catReq[r].conn => n = r
            /\ conn[catReq[r].conn].qr = Nil
            /\ \A p \in printed : p[1] # catReq[r].conn \/ catReq[r].conn \notin LiveConns

LEMMA CallsSplit == CatCallsOK <=> TogglesOK /\ DrawsAlone
BY DEF CatCallsOK, TogglesOK, DrawsAlone, Drawing

\* The codes stay right if connectors, requests and codes stay as they are.
LEMMA CodesKept ==
    ASSUME CatTypeOK, TogglesOK, DrawsAlone, CodesInv, UNCHANGED <<conn, drawn, printed, apart>>,
           \A r \in CatReqs : catReq'[r] = catReq[r] \/ catReq'[r].pc # "qr"
    PROVE  DrawsAlone' /\ CodesInv'
<1>1. LiveConns' = LiveConns
  BY DEF LiveConns
<1>2. \A r \in CatReqs : Drawing(r)' => Drawing(r) /\ catReq'[r] = catReq[r]
  BY DEF Drawing
<1>3. DrawsAlone'
  BY <1>1, <1>2 DEF DrawsAlone
<1>4. CodesInv'
  <2>1. CodesUsedOnce' /\ PrintedCodesResolve'
    BY <1>1 DEF CodesInv, CodesUsedOnce, PrintedCodesResolve
  <2>2. KnownConns'
    BY <1>2 DEF CodesInv, KnownConns, Drawing
  <2>3. QED  BY <2>1, <2>2 DEF CodesInv
<1>5. QED  BY <1>3, <1>4

\* A connector comes, moves or goes; codes and requests stay.
LEMMA CodesOfConn ==
    ASSUME CatTypeOK, TogglesOK, DrawsAlone, CodesInv, NEW c \in Conns,
           UNCHANGED <<drawn, printed, apart, catReq>>,
           \A d \in Conns : d # c => conn'[d] = conn[d],
           conn'[c].state # "unused",
           \/ conn[c].state = "unused" /\ conn'[c].qr = Nil
           \/ conn[c].state = "live" /\ conn'[c].state = "live" /\ conn'[c].qr = conn[c].qr
           \/ conn'[c].state = "deleted" /\ conn'[c].qr = Nil
    PROVE  DrawsAlone' /\ CodesInv'
<1>1. conn'[c].qr = Nil \/ conn'[c].qr = conn[c].qr
  OBVIOUS
<1>2. ASSUME NEW d \in Conns, d \in LiveConns'
      PROVE  d \in LiveConns \/ (conn[d].state = "unused" /\ d = c)
  BY <1>2 DEF LiveConns
<1>3. KnownConns'
  BY DEF CodesInv, KnownConns, TogglesOK, CatTypeOK
<1>4. DrawsAlone'
  <2> SUFFICES ASSUME NEW r \in CatReqs, Drawing(r), catReq[r].conn \in apart
               PROVE  /\ \A n \in CatReqs : Drawing(n) /\ catReq[n].conn = catReq[r].conn => n = r
                      /\ conn'[catReq[r].conn].qr = Nil
                      /\ \A p \in printed : p[1] # catReq[r].conn \/ catReq[r].conn \notin LiveConns'
    BY DEF DrawsAlone, Drawing
  <2>1. PICK d \in Conns : d = catReq[r].conn
    BY DEF Drawing, TogglesOK
  <2>2. /\ \A n \in CatReqs : Drawing(n) /\ catReq[n].conn = d => n = r
        /\ conn[d].qr = Nil /\ conn[d].state # "unused"
        /\ \A p \in printed : p[1] # d \/ d \notin LiveConns
    BY <2>1 DEF DrawsAlone, Drawing, CodesInv, KnownConns
  <2>3. conn'[d].qr = Nil
    BY <1>1, <2>2
  <2>4. d \in LiveConns' => d \in LiveConns
    BY <1>2, <2>2
  <2>5. QED  BY <2>1, <2>2, <2>3, <2>4
<1>5. \A d \in Conns : conn'[d].qr # Nil => conn'[d].qr = conn[d].qr
  BY <1>1
<1>6. CodesUsedOnce'
  <2>1. ASSUME NEW d \in Conns, conn'[d].qr # Nil PROVE d \in LiveConns' /\ conn'[d].qr \in drawn'
    <3>1. d \in LiveConns /\ conn[d].qr \in drawn
      BY <1>5, <2>1 DEF CodesInv, CodesUsedOnce
    <3>2. CASE d = c
      BY <2>1, <3>1, <3>2, <1>5 DEF LiveConns
    <3>3. CASE d # c
      BY <3>1, <3>3 DEF LiveConns
    <3>4. QED  BY <3>1, <1>5, <2>1, <3>2, <3>3
  <2>2. QED  BY <1>5, <2>1, NilAssumption DEF CodesInv, CodesUsedOnce, CatTypeOK
<1>7. PrintedCodesResolve'
  <2>1. ASSUME NEW p \in printed, p[1] \in apart, p[1] \in LiveConns' PROVE conn'[p[1]].qr = p[2]
    <3>1. p[1] \in Conns /\ conn[p[1]].state # "unused"
      BY DEF CatTypeOK, CodesInv, KnownConns
    <3>2. p[1] \in LiveConns
      BY <1>2, <2>1, <3>1
    <3>3. conn[p[1]].qr = p[2]
      BY <2>1, <3>2 DEF CodesInv, PrintedCodesResolve
    <3>4. conn'[p[1]] = conn[p[1]] \/ conn'[p[1]].qr = conn[p[1]].qr
      BY <2>1, <3>1, <3>2 DEF LiveConns
    <3>5. QED  BY <3>3, <3>4
  <2>2. ASSUME NEW p \in printed, NEW d \in LiveConns', conn'[d].qr = p[2] PROVE d = p[1]
    <3>1. d \in Conns /\ p[2] # Nil
      BY NilAssumption DEF LiveConns, CatTypeOK
    <3>2. conn[d].qr = p[2]
      BY <1>5, <2>2, <3>1
    <3>3. QED  BY <3>1, <3>2 DEF CodesInv, CodesUsedOnce
  <2>3. QED  BY <2>1, <2>2 DEF PrintedCodesResolve
<1>8. QED  BY <1>3, <1>4, <1>6, <1>7 DEF CodesInv

\* A code is handed out again, or somebody begins to draw one.
LEMMA CodesBegin ==
    ASSUME CatTypeOK, TogglesOK, DrawsAlone, CodesInv, NEW r \in CatReqs, NEW c \in Conns, QrBegins(r, c)
    PROVE  DrawsAlone' /\ CodesInv'
<1>1. c \in LiveConns /\ UNCHANGED <<conn, drawn>> /\ LiveConns' = LiveConns
  BY DEF QrBegins, LiveConns
<1>2. conn[c].state # "unused"
  BY <1>1 DEF LiveConns
<1>3. CASE Reusable(c)
  <2>1. printed' = printed \cup {<<c, conn[c].qr>>} /\ UNCHANGED <<catReq, apart>>
    BY <1>3 DEF QrBegins
  <2>2. conn[c].qr # Nil /\ conn[c].qr \in drawn /\ \A d \in Conns : conn[d].qr = conn[c].qr => d = c
    BY <1>3 DEF Reusable, CodesInv, CodesUsedOnce
  <2>3. DrawsAlone'
    BY <1>1, <2>1, <2>2 DEF DrawsAlone, Drawing
  <2>4. CodesUsedOnce'
    BY <1>1, <2>1, <2>2 DEF CodesInv, CodesUsedOnce
  <2>5. PrintedCodesResolve'
    BY <1>1, <2>1, <2>2 DEF CodesInv, PrintedCodesResolve, LiveConns
  <2>6. KnownConns'
    BY <1>1, <1>2, <2>1 DEF CodesInv, KnownConns
  <2>7. QED  BY <2>3, <2>4, <2>5, <2>6 DEF CodesInv
<1>4. CASE ~ Reusable(c)
  <2> DEFINE w == [Ready EXCEPT !.pc = "qr", !.conn = c]
  <2>1. w \in CatCalls /\ w.pc = "qr" /\ w.conn = c
    BY DrawCall
  <2>2. /\ catReq[r] = Ready
        /\ catReq' = [catReq EXCEPT ![r] = w] /\ printed' = printed
        /\ apart' = IF Generating(c) = {} THEN apart ELSE apart \ {c}
    BY <1>4, Zenon DEF QrBegins, CatCall
  <2> HIDE DEF w
  <2>3. conn[c].qr = Nil /\ apart' \subseteq apart
    BY <1>4, <2>2 DEF Reusable
  <2>4. catReq'[r] = w /\ \A n \in CatReqs : n # r => catReq'[n] = catReq[n]
    BY <2>1, <2>2, CatReqWritten
  <2>5. c \in apart' => \A n \in CatReqs : Drawing(n) => catReq[n].conn # c
    BY <2>2 DEF Generating, Drawing
  <2>6. \A p \in printed : p[2] # Nil
    BY NilAssumption DEF CatTypeOK
  <2>7. c \in apart' => \A p \in printed : p[1] # c
    BY <1>1, <2>3, <2>6 DEF CodesInv, PrintedCodesResolve
  <2>8. DrawsAlone'
    <3> SUFFICES ASSUME NEW q \in CatReqs, Drawing(q)', catReq'[q].conn \in apart'
                 PROVE  /\ \A n \in CatReqs : Drawing(n)' /\ catReq'[n].conn = catReq'[q].conn => n = q
                        /\ conn[catReq'[q].conn].qr = Nil
                        /\ \A p \in printed : p[1] # catReq'[q].conn \/ catReq'[q].conn \notin LiveConns
      BY <1>1, <2>2 DEF DrawsAlone
    <3>1. CASE q = r
      BY <2>1, <2>3, <2>4, <2>5, <2>7, <3>1 DEF Drawing
    <3>2. CASE q # r
      <4>1. catReq'[q] = catReq[q] /\ Drawing(q) /\ catReq[q].conn \in apart
        BY <2>3, <2>4, <3>2 DEF Drawing
      <4>2. catReq[q].conn # c
        BY <2>4, <2>5, <4>1
      <4>3. QED  BY <2>1, <2>4, <4>1, <4>2 DEF DrawsAlone, Drawing
    <3>3. QED  BY <3>1, <3>2
  <2>9. CodesUsedOnce' /\ PrintedCodesResolve'
    BY <1>1, <2>2, <2>3 DEF CodesInv, CodesUsedOnce, PrintedCodesResolve
  <2>10. KnownConns'
    BY <1>1, <1>2, <2>1, <2>2, <2>4 DEF CodesInv, KnownConns
  <2>11. QED  BY <2>8, <2>9, <2>10 DEF CodesInv
<1>5. QED  BY <1>3, <1>4

\* The code that was drawn is stored and handed out.
LEMMA CodesStored ==
    ASSUME CatTypeOK, TogglesOK, DrawsAlone, CodesInv, NEW r \in CatReqs, NEW k \in QrCodes, QrStores(r, k)
    PROVE  DrawsAlone' /\ CodesInv'
<1>1. PICK c \in Conns : c = catReq[r].conn
  BY DEF QrStores, TogglesOK
<1>2. /\ Drawing(r) /\ k \notin drawn /\ drawn' = drawn \cup {k} /\ apart' = apart
      /\ catReq' = [catReq EXCEPT ![r] = Ready]
      /\ IF c \in LiveConns
         THEN conn' = [conn EXCEPT ![c].qr = k] /\ printed' = printed \cup {<<c, k>>}
         ELSE UNCHANGED <<conn, printed>>
  BY <1>1 DEF QrStores, Drawing, CatDone
<1>3. /\ \A n \in CatReqs : Drawing(n)' => n # r /\ Drawing(n) /\ catReq'[n] = catReq[n]
  BY <1>2, ReadyIsCall, CatReqWritten DEF Drawing
<1>4. CASE c \notin LiveConns
  <2>1. UNCHANGED <<conn, printed>> /\ LiveConns' = LiveConns
    BY <1>2, <1>4 DEF LiveConns
  <2>2. DrawsAlone'
    BY <1>2, <1>3, <2>1 DEF DrawsAlone
  <2>3. CodesUsedOnce' /\ PrintedCodesResolve'
    BY <1>2, <2>1 DEF CodesInv, CodesUsedOnce, PrintedCodesResolve
  <2>4. KnownConns'
    BY <1>3, <2>1 DEF CodesInv, KnownConns, Drawing
  <2>5. QED  BY <2>2, <2>3, <2>4 DEF CodesInv
<1>5. CASE c \in LiveConns
  <2>1. printed' = printed \cup {<<c, k>>}
    BY <1>2, <1>5
  <2>2. /\ conn'[c].qr = k /\ conn'[c].state = "live"
        /\ \A d \in Conns : d # c => conn'[d] = conn[d]
    BY <1>2, <1>5 DEF CatTypeOK, ConnRows, LiveConns
  <2>3. LiveConns' = LiveConns
    BY <1>5, <2>2 DEF LiveConns
  <2>4. k # Nil /\ \A p \in printed : p[2] \in drawn /\ p[2] # k
    BY <1>2, NilAssumption DEF CodesInv, CodesUsedOnce
  <2>5. \A d \in Conns : conn[d].qr # k
    BY <1>2, <2>4 DEF CodesInv, CodesUsedOnce
  <2>6. DrawsAlone'
    <3> SUFFICES ASSUME NEW q \in CatReqs, Drawing(q)', catReq'[q].conn \in apart'
                 PROVE  /\ \A n \in CatReqs : Drawing(n)' /\ catReq'[n].conn = catReq'[q].conn => n = q
                        /\ conn'[catReq'[q].conn].qr = Nil
                        /\ \A p \in printed' : p[1] # catReq'[q].conn \/ catReq'[q].conn \notin LiveConns'
      BY DEF DrawsAlone
    <3>1. q # r /\ Drawing(q) /\ catReq'[q] = catReq[q] /\ catReq[q].conn \in apart
      BY <1>2, <1>3
    <3>2. catReq[q].conn # c
      BY <1>1, <1>2, <3>1 DEF DrawsAlone
    <3>3. catReq[q].conn \in Conns
      BY <3>1 DEF TogglesOK, Drawing
    <3>4. QED  BY <1>3, <2>1, <2>2, <2>3, <3>1, <3>2, <3>3 DEF DrawsAlone
  <2>7. CodesUsedOnce'
    <3>1. ASSUME NEW d \in Conns, conn'[d].qr # Nil PROVE d \in LiveConns' /\ conn'[d].qr \in drawn'
      <4>1. CASE d = c
        BY <1>2, <1>5, <2>2, <2>3, <4>1
      <4>2. CASE d # c
        BY <1>2, <2>2, <2>3, <3>1, <4>2 DEF CodesInv, CodesUsedOnce
      <4>3. QED  BY <4>1, <4>2
    <3>2. ASSUME NEW d \in Conns, NEW e \in Conns, conn'[d].qr = conn'[e].qr, conn'[d].qr # Nil
          PROVE  d = e
      BY <2>2, <2>5, <3>2 DEF CodesInv, CodesUsedOnce
    <3>3. ASSUME NEW p \in printed'
          PROVE  p[2] \in drawn' /\ \A d \in Conns : conn'[d].qr = p[2] => d = p[1]
      <4>1. CASE p = <<c, k>>
        BY <1>2, <2>2, <2>5, <4>1
      <4>2. CASE p \in printed
        BY <1>2, <2>2, <2>4, <4>2 DEF CodesInv, CodesUsedOnce
      <4>3. QED  BY <2>1, <4>1, <4>2
    <3>4. QED  BY <3>1, <3>2, <3>3 DEF CodesUsedOnce
  <2>8. PrintedCodesResolve'
    <3>1. ASSUME NEW p \in printed', p[1] \in apart', p[1] \in LiveConns' PROVE conn'[p[1]].qr = p[2]
      <4>1. CASE p = <<c, k>>
        BY <2>2, <4>1
      <4>2. CASE p \in printed /\ p[1] = c
        <5>1. \A n \in printed : n[1] # c \/ c \notin LiveConns
          BY <1>1, <1>2, <3>1, <4>2 DEF DrawsAlone
        <5>2. QED  BY <1>5, <4>2, <5>1
      <4>3. CASE p \in printed /\ p[1] # c
        BY <1>2, <2>2, <2>3, <3>1, <4>3 DEF CodesInv, PrintedCodesResolve, LiveConns
      <4>4. QED  BY <2>1, <4>1, <4>2, <4>3
    <3>2. ASSUME NEW p \in printed', NEW d \in LiveConns', conn'[d].qr = p[2] PROVE d = p[1]
      BY <2>7, <3>2 DEF CodesUsedOnce, LiveConns
    <3>3. QED  BY <3>1, <3>2 DEF PrintedCodesResolve
  <2>9. KnownConns'
    <3>1. \A d \in Conns : conn[d].state # "unused" => conn'[d].state # "unused"
      BY <2>2
    <3>2. \A p \in printed' : p[1] \in Conns /\ conn'[p[1]].state # "unused"
      BY <2>1, <2>2, <3>1 DEF CodesInv, KnownConns, CatTypeOK
    <3>3. QED  BY <1>3, <3>1, <3>2 DEF CodesInv, KnownConns, Drawing, TogglesOK
  <2>10. QED  BY <2>6, <2>7, <2>8, <2>9 DEF CodesInv
<1>6. QED  BY <1>4, <1>5

LEMMA CodesStep ==
    CatTypeOK /\ TogglesOK /\ DrawsAlone /\ CodesInv /\ [CatNext]_catVars => DrawsAlone' /\ CodesInv'
<1> SUFFICES ASSUME CatTypeOK, TogglesOK, DrawsAlone, CodesInv, [CatNext]_catVars
             PROVE  DrawsAlone' /\ CodesInv'
  OBVIOUS
<1>1. ASSUME NEW c \in Conns, NEW s \in Stations, CreateConnector(c, s) \/ UpdateConnector(c, s)
      PROVE  DrawsAlone' /\ CodesInv'
  <2>1. UNCHANGED <<drawn, printed, apart, catReq>>
    BY <1>1 DEF CreateConnector, UpdateConnector
  <2>2. \A d \in Conns : d # c => conn'[d] = conn[d]
    BY <1>1, ConnWritten
  <2>3. conn'[c].state = "live"
    <3>1. conn'[c] = [at |-> s, qr |-> IF CreateConnector(c, s) THEN Nil ELSE conn[c].qr,
                      state |-> "live"]
      BY <1>1, ConnWritten
    <3>2. QED  BY <3>1
  <2>4. \/ conn[c].state = "unused" /\ conn'[c].qr = Nil
        \/ conn[c].state = "live" /\ conn'[c].qr = conn[c].qr
    <3>1. CASE CreateConnector(c, s)
      BY <3>1, ConnWritten DEF CreateConnector
    <3>2. CASE ~ CreateConnector(c, s)
      BY <1>1, <3>2, ConnWritten DEF UpdateConnector, LiveConns
    <3>3. QED  BY <3>1, <3>2
  <2>5. QED  BY <2>1, <2>2, <2>3, <2>4, CodesOfConn
<1>2. ASSUME NEW c \in Conns, RemoveConnector(c) PROVE DrawsAlone' /\ CodesInv'
  <2>1. UNCHANGED <<drawn, printed, apart, catReq>>
    BY <1>2 DEF RemoveConnector
  <2>2. \A d \in Conns : d # c => conn'[d] = conn[d]
    BY <1>2, ConnRemoved
  <2>3. conn'[c].state = "deleted" /\ conn'[c].qr = Nil
    BY <1>2, ConnRemoved
  <2>4. QED  BY <2>1, <2>2, <2>3, CodesOfConn
<1>3. ASSUME NEW r \in CatReqs, NEW m \in Members, NEW s \in Stations, ToggleBegins(r, m, s)
      PROVE  DrawsAlone' /\ CodesInv'
  <2> DEFINE w == [Ready EXCEPT !.pc = IF like[<<m, s>>] = 0 THEN "like" ELSE "unlike",
                                !.member = m, !.station = s, !.row = like[<<m, s>>]]
  <2>1. catReq' = [catReq EXCEPT ![r] = w] /\ UNCHANGED <<conn, drawn, printed, apart>>
    BY <1>3 DEF ToggleBegins, CatCall
  <2>2. w.pc # "qr"
    BY DEF Ready
  <2> HIDE DEF w
  <2>3. \A n \in CatReqs : catReq'[n] = catReq[n] \/ catReq'[n].pc # "qr"
    BY <2>1, <2>2 DEF CatTypeOK
  <2>4. QED  BY <2>1, <2>3, CodesKept
<1>4. ASSUME NEW r \in CatReqs, Unlikes(r) \/ Likes(r) \/ CatCutOff(r)
      PROVE  DrawsAlone' /\ CodesInv'
  <2>1. catReq' = [catReq EXCEPT ![r] = Ready] /\ UNCHANGED <<conn, drawn, printed, apart>>
    BY <1>4 DEF Unlikes, Likes, CatCutOff, CatDone
  <2>2. \A n \in CatReqs : catReq'[n] = catReq[n] \/ catReq'[n].pc # "qr"
    BY <2>1, ReadyIsCall DEF CatTypeOK
  <2>3. QED  BY <2>1, <2>2, CodesKept
<1>5. ASSUME UNCHANGED <<conn, drawn, printed, apart, catReq>> PROVE DrawsAlone' /\ CodesInv'
  BY <1>5, CodesKept
<1>6. QED
  BY <1>1, <1>2, <1>3, <1>4, <1>5, CodesBegin, CodesStored
     DEF CatNext, catVars, CreateStation, RemoveStation, SetPrice, RemovePrice

\* A code that was handed out leads to its connector and to no other, nothing refers to
\* a station that is gone, and likes are as users were told, in any order of requests.
THEOREM CatalogueFits == CatSpec => []CatalogueInv
<1>1. CatalogueInv /\ KnownConns /\ [CatNext]_catVars => CatalogueInv' /\ KnownConns'
  <2> SUFFICES ASSUME CatalogueInv, KnownConns, [CatNext]_catVars PROVE CatalogueInv' /\ KnownConns'
    OBVIOUS
  <2>1. CatTypeOK /\ ReferencesOK /\ TogglesOK /\ DrawsAlone /\ CodesInv /\ LikesInv
    BY Parts, CallsSplit
  <2>2. CatTypeOK' /\ TogglesOK'
    BY <2>1, CatTypeStep DEF LikesInv
  <2>3. ReferencesOK' /\ LikesInv' /\ DrawsAlone' /\ CodesInv'
    BY <2>1, ReferencesStep, LikesStep, CodesStep
  <2>4. QED
    BY <2>2, <2>3
       DEF CatalogueInv, CodesInv, LikesInv, LikesBounded, CatCallsOK, TogglesOK, DrawsAlone, Drawing
<1>2. QED  BY <1>1, CatInitInv, PTL DEF CatSpec

-----------------------------------------------------------------------------
(* Devices that get pushes.                                                *)

\* A removal in hand concerns a device that is its user's or nobody's, unless the
\* device was registered meanwhile.
RemovalsOwn ==
    \A r \in PushReqs : pushReq[r].pc = "remove" =>
        \A t \in pushReq[r].devices \cap (known \ crossed) :
            said[t] \in {pushReq[r].to, NoUser}

LEMMA PushInitInv == PushInit => DevicesInv /\ RemovalsOwn
<1> SUFFICES ASSUME PushInit PROVE DevicesInv /\ RemovalsOwn
  OBVIOUS
<1>1. AtEase \in PushCalls /\ AtEase.pc = "idle" /\ AtEase.message = 0
  BY PushNumbers DEF AtEase, PushCalls
<1>2. PushTypeOK
  BY <1>1, PushNumbers DEF PushInit, PushTypeOK, DeviceRows, Messages
<1>3. PushCallsOK /\ RemovalsOwn
  BY <1>1 DEF PushInit, PushCallsOK, RemovalsOwn
<1>4. QED  BY <1>2, <1>3 DEF PushInit, DevicesInv, DevicesFit, SteadyDevices, PushedIsStored

\* What a request becomes, by the action that it takes.
LEMMA PushReqWritten ==
    ASSUME PushTypeOK, NEW r \in PushReqs, NEW w \in PushCalls, pushReq' = [pushReq EXCEPT ![r] = w]
    PROVE  /\ pushReq' \in [PushReqs -> PushCalls]
           /\ pushReq'[r] = w
           /\ \A n \in PushReqs : n # r => pushReq'[n] = pushReq[n]
BY DEF PushTypeOK

LEMMA EaseIsCall == AtEase \in PushCalls /\ AtEase.pc = "idle" /\ AtEase.message = 0
BY PushNumbers DEF AtEase, PushCalls

\* Requests that are over, or that never began, keep the invariant.
LEMMA PushEnds ==
    ASSUME DevicesInv, RemovalsOwn, NEW r \in PushReqs, PushDone(r),
           UNCHANGED <<device, inbox, messages, known, pushed, said, crossed>>
    PROVE  DevicesInv' /\ RemovalsOwn'
<1>1. PushTypeOK /\ PushCallsOK
  BY DEF DevicesInv, DevicesFit
<1>2. /\ pushReq' \in [PushReqs -> PushCalls] /\ pushReq'[r] = AtEase
      /\ \A n \in PushReqs : n # r => pushReq'[n] = pushReq[n]
  BY <1>1, EaseIsCall, PushReqWritten DEF PushDone
<1>3. PushTypeOK'
  BY <1>1, <1>2 DEF PushTypeOK
<1>4. PushCallsOK'
  BY <1>1, <1>2, EaseIsCall DEF PushCallsOK, PushTypeOK
<1>5. RemovalsOwn'
  BY <1>2, EaseIsCall DEF RemovalsOwn
<1>6. QED  BY <1>3, <1>4, <1>5 DEF DevicesInv, DevicesFit, SteadyDevices, PushedIsStored

\* Notifications are never taken back: what an inbox has, it keeps.
InboxGrows == \A u \in Users, m \in Messages : inbox[u][m] # "none" => inbox'[u][m] # "none"

LEMMA PushedKept ==
    ASSUME PushTypeOK, PushedIsStored, InboxGrows, pushed' = pushed
    PROVE  PushedIsStored'
BY DEF PushTypeOK, PushedIsStored, InboxGrows

\* Steps that leave the requests alone.
LEMMA CallsKept ==
    ASSUME PushTypeOK, PushCallsOK, InboxGrows, known' \subseteq known,
           UNCHANGED <<pushReq, messages>>
    PROVE  PushCallsOK'
<1> SUFFICES ASSUME NEW r \in PushReqs
             PROVE  LET q == pushReq[r] IN
                    /\ q.message \in 0 .. messages
                    /\ q.pc = "remove" => q.to \in Users
                    /\ q.pc = "store" => q.message # 0
                    /\ q.pc = "push" /\ q.message # 0 =>
                           \A t \in q.devices : inbox'[q.owner[t]][q.message] # "none"
                    /\ q.pc \in {"store", "push"} /\ q.message # 0 =>
                           \A t \in q.devices : q.owner[t] \in Users
                    /\ q.pc = "drop" => q.devices \cap known' = {}
  BY DEF PushCallsOK
<1>1. pushReq[r].message # 0 => pushReq[r].message \in Messages
  BY PushNumbers DEF PushTypeOK, PushCalls, Messages
<1>2. QED  BY <1>1 DEF PushCallsOK, InboxGrows

\* Steps that leave the devices alone.
LEMMA SteadyKept ==
    ASSUME SteadyDevices, known' \subseteq known, UNCHANGED <<device, said, crossed>>
    PROVE  SteadyDevices'
BY DEF SteadyDevices

\* The call of one request becomes w, which fits what it was made from.
LEMMA CallMade ==
    ASSUME DevicesInv, RemovalsOwn, NEW r \in PushReqs, NEW w \in PushCalls,
           pushReq' = [pushReq EXCEPT ![r] = w], messages' \in 0 .. MaxMessages, messages' >= messages,
           InboxGrows, inbox' \in [Users -> [Messages -> {"none", "unread", "read"}]],
           UNCHANGED <<device, known, said, crossed>>,
           pushed' \subseteq Messages \X Devices \X Users, PushedIsStored',
           w.message \in 0 .. messages',
           w.pc = "remove" => w.to \in Users,
           w.pc = "remove" =>
               \A t \in w.devices \cap (known \ crossed) : said[t] \in {w.to, NoUser},
           w.pc = "store" => w.message # 0,
           w.pc = "push" /\ w.message # 0 =>
               \A t \in w.devices : inbox'[w.owner[t]][w.message] # "none",
           w.pc \in {"store", "push"} /\ w.message # 0 => \A t \in w.devices : w.owner[t] \in Users,
           w.pc = "drop" => w.devices \cap known = {}
    PROVE  DevicesInv' /\ RemovalsOwn'
<1>1. PushTypeOK /\ PushCallsOK
  BY DEF DevicesInv, DevicesFit
<1>2. /\ pushReq' \in [PushReqs -> PushCalls] /\ pushReq'[r] = w
      /\ \A n \in PushReqs : n # r => pushReq'[n] = pushReq[n]
  BY <1>1, PushReqWritten
<1>3. PushTypeOK'
  BY <1>1, <1>2 DEF PushTypeOK
<1>4. PushCallsOK'
  <2> SUFFICES ASSUME NEW n \in PushReqs
               PROVE  LET q == pushReq'[n] IN
                      /\ q.message \in 0 .. messages'
                      /\ q.pc = "remove" => q.to \in Users
                      /\ q.pc = "store" => q.message # 0
                      /\ q.pc = "push" /\ q.message # 0 =>
                             \A t \in q.devices : inbox'[q.owner[t]][q.message] # "none"
                      /\ q.pc \in {"store", "push"} /\ q.message # 0 =>
                             \A t \in q.devices : q.owner[t] \in Users
                      /\ q.pc = "drop" => q.devices \cap known' = {}
    BY DEF PushCallsOK
  <2>1. CASE n = r
    BY <1>2, <2>1
  <2>2. CASE n # r
    <3>1. pushReq'[n] = pushReq[n] /\ pushReq[n].message \in 0 .. messages'
      <4>1. pushReq[n].message \in 0 .. messages /\ messages \in Nat /\ messages' \in Nat
        BY <1>1, PushNumbers DEF PushCallsOK, PushTypeOK
      <4>2. QED  BY <1>2, <2>2, <4>1
    <3>2. pushReq[n].message # 0 => pushReq[n].message \in Messages
      BY <1>1, PushNumbers DEF PushTypeOK, PushCalls, Messages
    <3>3. QED  BY <1>1, <3>1, <3>2 DEF PushCallsOK, InboxGrows
  <2>3. QED  BY <2>1, <2>2
<1>5. RemovalsOwn'
  BY <1>2 DEF RemovalsOwn
<1>6. SteadyDevices' /\ \A t \in Devices : device'[t].active => device'[t].owner \in Users
  BY DEF DevicesInv, DevicesFit, SteadyDevices
<1>7. QED  BY <1>3, <1>4, <1>5, <1>6 DEF DevicesInv, DevicesFit

\* The device becomes another's: only what is said of it and crossed may change.
LEMMA RegisterStep ==
    ASSUME DevicesInv, RemovalsOwn, NEW u \in Users, NEW t \in Devices, RegisterDevice(u, t)
    PROVE  DevicesInv' /\ RemovalsOwn'
<1>1. PushTypeOK /\ PushCallsOK /\ PushedIsStored /\ SteadyDevices
  BY DEF DevicesInv, DevicesFit
<1>2. /\ device' = [device EXCEPT ![t] = [owner |-> u, active |-> TRUE]]
      /\ said' = [said EXCEPT ![t] = u]
      /\ crossed' = IF Removing(t) = {} THEN crossed \ {t} ELSE crossed \cup {t}
      /\ UNCHANGED <<inbox, messages, known, pushReq, pushed>>
  BY DEF RegisterDevice
<1>3. /\ device' \in [Devices -> DeviceRows] /\ device'[t].owner = u /\ device'[t].active
      /\ said'[t] = u
      /\ \A d \in Devices : d # t => device'[d] = device[d] /\ said'[d] = said[d]
  BY <1>1, <1>2 DEF PushTypeOK, DeviceRows
<1>4. PushTypeOK'
  BY <1>1, <1>2, <1>3 DEF PushTypeOK
<1>5. PushCallsOK' /\ PushedIsStored'
  BY <1>1, <1>2, CallsKept, PushedKept DEF InboxGrows
<1>6. \A d \in Devices : device'[d].active => device'[d].owner \in Users
  BY <1>3 DEF DevicesInv, DevicesFit
<1>7. SteadyDevices'
  <2>1. \A d \in known' \ crossed' : d # t => d \in known \ crossed
    BY <1>2
  <2>2. known' \subseteq Devices /\ u # NoUser
    BY <1>1, <1>2, NoUserAssumption DEF PushTypeOK
  <2>3. QED  BY <1>1, <1>3, <2>1, <2>2 DEF SteadyDevices
<1>8. RemovalsOwn'
  <2> SUFFICES ASSUME NEW r \in PushReqs, pushReq'[r].pc = "remove",
                      NEW d \in pushReq'[r].devices \cap (known' \ crossed')
               PROVE  said'[d] \in {pushReq'[r].to, NoUser}
    BY DEF RemovalsOwn
  <2>1. r \in Removing(d)
    BY <1>2 DEF Removing
  <2>2. d # t /\ d \in known \ crossed
    BY <1>2, <2>1
  <2>3. d \in Devices
    BY <1>1, <2>2 DEF PushTypeOK
  <2>4. QED  BY <1>2, <1>3, <2>2, <2>3 DEF RemovalsOwn
<1>9. QED  BY <1>4, <1>5, <1>6, <1>7, <1>8 DEF DevicesInv, DevicesFit

LEMMA RemoveBeginsStep ==
    ASSUME DevicesInv, RemovalsOwn, NEW r \in PushReqs, NEW u \in Users, NEW t \in Devices,
           RemoveBegins(r, u, t)
    PROVE  DevicesInv' /\ RemovalsOwn'
<1>1. PICK w : w = [AtEase EXCEPT !.pc = "remove", !.to = u, !.devices = {t}]
  OBVIOUS
<1>2. /\ w \in PushCalls /\ w.pc = "remove" /\ w.to = u /\ w.devices = {t} /\ w.message = 0
  BY <1>1, EaseIsCall DEF AtEase, PushCalls
<1>3. /\ pushReq' = [pushReq EXCEPT ![r] = w]
      /\ UNCHANGED <<device, inbox, messages, known, pushed, said, crossed>>
  BY <1>1 DEF RemoveBegins, PushCall
<1>4. \A d \in {t} \cap (known \ crossed) : said[d] \in {u, NoUser}
  BY DEF RemoveBegins, MayRemove, DevicesInv, SteadyDevices
<1>5. PushTypeOK /\ PushedIsStored /\ InboxGrows
  BY <1>3 DEF DevicesInv, DevicesFit, InboxGrows
<1>6. messages' \in 0 .. MaxMessages /\ messages' >= messages /\ w.message \in 0 .. messages'
  BY <1>2, <1>3, <1>5, PushNumbers DEF PushTypeOK
<1>7. /\ inbox' \in [Users -> [Messages -> {"none", "unread", "read"}]]
      /\ pushed' \subseteq Messages \X Devices \X Users /\ PushedIsStored'
  BY <1>3, <1>5, PushedKept DEF PushTypeOK
<1>8. QED  BY <1>2, <1>3, <1>4, <1>5, <1>6, <1>7, CallMade

\* The removal: its device is now nobody's, unless someone else registered it.
LEMMA DeactivatesStep ==
    ASSUME DevicesInv, RemovalsOwn, NEW r \in PushReqs, Deactivates(r)
    PROVE  DevicesInv' /\ RemovalsOwn'
<1>1. PushTypeOK /\ PushCallsOK /\ PushedIsStored /\ SteadyDevices
  BY DEF DevicesInv, DevicesFit
<1> DEFINE ts == pushReq[r].devices
<1>2. /\ device' = [t \in Devices |->
             IF t \in ts THEN [device[t] EXCEPT !.active = FALSE] ELSE device[t]]
      /\ said' = [t \in Devices |->
             IF t \in ts /\ said[t] = pushReq[r].to THEN NoUser ELSE said[t]]
      /\ pushReq[r].pc = "remove" /\ PushDone(r)
      /\ UNCHANGED <<inbox, messages, known, pushed, crossed>>
  BY DEF Deactivates
<1>3. /\ pushReq' \in [PushReqs -> PushCalls] /\ pushReq'[r] = AtEase
      /\ \A n \in PushReqs : n # r => pushReq'[n] = pushReq[n]
  BY <1>1, <1>2, EaseIsCall, PushReqWritten DEF PushDone
<1>4. \A t \in Devices :
          /\ device'[t] \in DeviceRows /\ device'[t].owner = device[t].owner
          /\ t \in ts => ~ device'[t].active
          /\ t \notin ts => device'[t] = device[t]
          /\ said'[t] \in {said[t], NoUser}
          /\ t \notin ts => said'[t] = said[t]
          /\ t \in ts /\ said[t] = pushReq[r].to => said'[t] = NoUser
  BY <1>1, <1>2 DEF PushTypeOK, DeviceRows
<1>5. PushTypeOK'
  <2>1. device' \in [Devices -> DeviceRows]
    BY <1>2, <1>4
  <2>2. said' \in [Devices -> Users \cup {NoUser}]
    BY <1>1, <1>2 DEF PushTypeOK
  <2>3. QED  BY <1>1, <1>2, <1>3, <2>1, <2>2 DEF PushTypeOK
<1>6. PushCallsOK'
  BY <1>1, <1>2, <1>3, EaseIsCall DEF PushCallsOK, PushTypeOK
<1>7. PushedIsStored' /\ \A t \in Devices : device'[t].active => device'[t].owner \in Users
  BY <1>2, <1>4 DEF DevicesInv, DevicesFit, PushedIsStored
<1>8. known \subseteq Devices
  BY <1>1 DEF PushTypeOK
<1>9. SteadyDevices'
  <2>1. ASSUME NEW t \in known \ crossed
        PROVE  /\ device'[t].active <=> said'[t] # NoUser
               /\ said'[t] # NoUser => device'[t].owner = said'[t]
    <3>1. t \in Devices
      BY <1>8
    <3>2. CASE t \in ts
      <4>1. said[t] \in {pushReq[r].to, NoUser}
        BY <1>2, <3>2 DEF RemovalsOwn
      <4>2. QED  BY <1>4, <3>1, <3>2, <4>1
    <3>3. CASE t \notin ts
      BY <1>1, <1>4, <3>1, <3>3 DEF SteadyDevices
    <3>4. QED  BY <3>2, <3>3
  <2>2. QED  BY <1>2, <2>1 DEF SteadyDevices
<1>10. RemovalsOwn'
  <2> SUFFICES ASSUME NEW n \in PushReqs, pushReq'[n].pc = "remove",
                      NEW t \in pushReq'[n].devices \cap (known' \ crossed')
               PROVE  said'[t] \in {pushReq'[n].to, NoUser}
    BY DEF RemovalsOwn
  <2>1. pushReq'[n] = pushReq[n] /\ t \in known \ crossed /\ t \in Devices
    BY <1>2, <1>3, <1>8, EaseIsCall
  <2>2. said[t] \in {pushReq[n].to, NoUser}
    BY <2>1 DEF RemovalsOwn
  <2>3. QED  BY <1>4, <2>1, <2>2
<1>11. QED  BY <1>5, <1>6, <1>7, <1>9, <1>10 DEF DevicesInv, DevicesFit

\* The app goes, or a user reads: the requests and devices stay as they are.
LEMMA InboxStep ==
    ASSUME DevicesInv, RemovalsOwn, known' \subseteq known, InboxGrows,
           inbox' \in [Users -> [Messages -> {"none", "unread", "read"}]],
           UNCHANGED <<device, messages, pushReq, pushed, said, crossed>>
    PROVE  DevicesInv' /\ RemovalsOwn'
<1>1. PushTypeOK /\ PushCallsOK /\ PushedIsStored /\ SteadyDevices
  BY DEF DevicesInv, DevicesFit
<1>2. PushTypeOK'
  BY <1>1 DEF PushTypeOK
<1>3. PushCallsOK' /\ PushedIsStored' /\ SteadyDevices'
  BY <1>1, CallsKept, PushedKept, SteadyKept
<1>4. RemovalsOwn'
  BY DEF RemovalsOwn
<1>5. QED  BY <1>2, <1>3, <1>4 DEF DevicesInv, DevicesFit

LEMMA SendStep ==
    ASSUME DevicesInv, RemovalsOwn, NEW r \in PushReqs, NEW u \in Users, SendToUser(r, u)
    PROVE  DevicesInv' /\ RemovalsOwn'
<1>1. PICK w : w = [AtEase EXCEPT !.pc = "push", !.to = u, !.devices = ActiveOf({u})]
  OBVIOUS
<1>2. w \in PushCalls /\ w.pc = "push" /\ w.message = 0
  BY <1>1, EaseIsCall DEF AtEase, PushCalls, ActiveOf
<1>3. /\ pushReq' = [pushReq EXCEPT ![r] = w]
      /\ UNCHANGED <<device, inbox, messages, known, pushed, said, crossed>>
  BY <1>1 DEF SendToUser, PushCall
<1>4. PushTypeOK /\ PushedIsStored /\ InboxGrows
  BY <1>3 DEF DevicesInv, DevicesFit, InboxGrows
<1>5. messages' \in 0 .. MaxMessages /\ messages' >= messages /\ w.message \in 0 .. messages'
  BY <1>2, <1>3, <1>4, PushNumbers DEF PushTypeOK
<1>6. /\ inbox' \in [Users -> [Messages -> {"none", "unread", "read"}]]
      /\ pushed' \subseteq Messages \X Devices \X Users /\ PushedIsStored'
  BY <1>3, <1>4, PushedKept DEF PushTypeOK
<1>7. QED  BY <1>2, <1>3, <1>4, <1>5, <1>6, CallMade

LEMMA BroadcastStep ==
    ASSUME DevicesInv, RemovalsOwn, NEW r \in PushReqs, BroadcastBegins(r)
    PROVE  DevicesInv' /\ RemovalsOwn'
<1>1. PushTypeOK /\ PushedIsStored
  BY DEF DevicesInv, DevicesFit
<1>2. PICK ds : ds = ActiveOf(Users)
  OBVIOUS
<1>3. PICK f : f = [t \in Devices |-> IF t \in ds THEN device[t].owner ELSE NoUser]
  OBVIOUS
<1>4. PICK m : m = messages + 1
  OBVIOUS
<1>5. PICK w : w = [AtEase EXCEPT !.pc = "store", !.devices = ds, !.message = m, !.owner = f]
  OBVIOUS
<1>6. /\ messages < MaxMessages /\ messages' = m
      /\ pushReq' = [pushReq EXCEPT ![r] = w]
      /\ UNCHANGED <<device, inbox, known, pushed, said, crossed>>
  BY <1>2, <1>3, <1>4, <1>5 DEF BroadcastBegins, PushCall
<1>7. m \in 1 .. MaxMessages /\ m \in 0 .. m /\ m >= messages
  BY <1>1, <1>4, <1>6, PushNumbers DEF PushTypeOK
<1>8. /\ ds \subseteq Devices /\ f \in [Devices -> Users \cup {NoUser}]
      /\ \A t \in ds : f[t] \in Users
  BY <1>1, <1>2, <1>3 DEF ActiveOf, PushTypeOK, DeviceRows
<1>9. /\ w \in PushCalls /\ w.pc = "store" /\ w.message = m /\ w.devices = ds /\ w.owner = f
  <2>1. w = [pc |-> "store", to |-> NoUser, devices |-> ds, owner |-> f, message |-> m]
    BY <1>5 DEF AtEase
  <2>2. m \in 0 .. MaxMessages /\ ds \in SUBSET Devices
    BY <1>7, <1>8, PushNumbers
  <2>3. QED  BY <1>8, <2>1, <2>2 DEF PushCalls
<1>10. InboxGrows /\ messages' \in 0 .. MaxMessages
  BY <1>6, <1>7 DEF InboxGrows
<1>11. /\ inbox' \in [Users -> [Messages -> {"none", "unread", "read"}]]
       /\ pushed' \subseteq Messages \X Devices \X Users /\ PushedIsStored'
  BY <1>1, <1>6, <1>10, PushedKept DEF PushTypeOK
<1>12. w.message # 0
  BY <1>7, <1>9
<1>13. QED  BY <1>6, <1>7, <1>8, <1>9, <1>10, <1>11, <1>12, CallMade

\* Every user a device was read of finds the notification before the push goes out.
LEMMA StoresStep ==
    ASSUME DevicesInv, RemovalsOwn, NEW r \in PushReqs, Stores(r)
    PROVE  DevicesInv' /\ RemovalsOwn'
<1>1. PushTypeOK /\ PushCallsOK /\ PushedIsStored
  BY DEF DevicesInv, DevicesFit
<1>2. PICK m : m = pushReq[r].message
  OBVIOUS
<1>3. PICK w : w = IF pushReq[r].devices = {} THEN AtEase ELSE [pushReq[r] EXCEPT !.pc = "push"]
  OBVIOUS
<1>4. /\ pushReq[r].pc = "store"
      /\ inbox' = [u \in Users |->
             IF u \in Addressees(r) THEN [inbox[u] EXCEPT ![m] = "unread"] ELSE inbox[u]]
      /\ UNCHANGED <<device, messages, known, pushed, said, crossed>>
  BY <1>2 DEF Stores
<1>5. pushReq[r] \in PushCalls /\ m # 0 /\ m \in 0 .. messages
  BY <1>1, <1>2, <1>4 DEF PushTypeOK, PushCallsOK
<1>6. m \in Messages /\ messages' \in 0 .. MaxMessages /\ messages' >= messages
  BY <1>1, <1>4, <1>5, PushNumbers DEF PushTypeOK, Messages
<1>7. pushReq' = [pushReq EXCEPT ![r] = w]
  <2>1. CASE pushReq[r].devices = {}
    BY <1>3, <2>1 DEF Stores, PushDone
  <2>2. CASE pushReq[r].devices # {}
    BY <1>1, <1>3, <2>2 DEF Stores, PushTypeOK
  <2>3. QED  BY <2>1, <2>2
<1>8. \A u \in Users :
          /\ inbox'[u] \in [Messages -> {"none", "unread", "read"}]
          /\ \A n \in Messages : inbox[u][n] # "none" => inbox'[u][n] # "none"
          /\ u \in Addressees(r) => inbox'[u][m] # "none"
  BY <1>1, <1>4, <1>6 DEF PushTypeOK
<1>9. InboxGrows /\ inbox' \in [Users -> [Messages -> {"none", "unread", "read"}]]
  <2>1. InboxGrows
    BY <1>8 DEF InboxGrows
  <2>2. inbox' \in [Users -> [Messages -> {"none", "unread", "read"}]]
    BY <1>4, <1>8
  <2>3. QED  BY <2>1, <2>2
<1>10. pushed' \subseteq Messages \X Devices \X Users /\ PushedIsStored'
  BY <1>1, <1>4, <1>9, PushedKept DEF PushTypeOK
<1>11. /\ w \in PushCalls /\ w.pc \in {"idle", "push"} /\ w.message \in {0, m}
       /\ w.pc = "push" => w.owner = pushReq[r].owner /\ w.devices = pushReq[r].devices
  BY <1>2, <1>3, <1>5, EaseIsCall DEF PushCalls
<1>12. w.message \in 0 .. messages'
  BY <1>1, <1>4, <1>5, <1>11, PushNumbers DEF PushTypeOK
<1>13. \A t \in pushReq[r].devices : pushReq[r].owner[t] \in Users /\ pushReq[r].owner[t] \in Addressees(r)
  BY <1>1, <1>4, <1>2, <1>5 DEF PushCallsOK, Addressees
<1>14. w.pc = "push" /\ w.message # 0 => \A t \in w.devices : inbox'[w.owner[t]][w.message] # "none"
  BY <1>8, <1>11, <1>13
<1>15. w.pc \in {"store", "push"} /\ w.message # 0 => \A t \in w.devices : w.owner[t] \in Users
  BY <1>11, <1>13
<1>16. w.pc # "remove" /\ w.pc # "store" /\ w.pc # "drop"
  BY <1>11
<1>17. UNCHANGED <<device, known, said, crossed>>
  BY <1>4
<1>18. /\ w.pc = "remove" => w.to \in Users
       /\ w.pc = "remove" =>
              \A t \in w.devices \cap (known \ crossed) : said[t] \in {w.to, NoUser}
       /\ w.pc = "store" => w.message # 0
       /\ w.pc = "drop" => w.devices \cap known = {}
  BY <1>16
<1>19. w \in PushCalls
  BY <1>11
<1>20. QED  BY <1>6, <1>7, <1>9, <1>10, <1>12, <1>14, <1>15, <1>17, <1>18, <1>19, CallMade

\* What Firebase delivered went to owners that have the notification.
LEMMA PushesStep ==
    ASSUME DevicesInv, RemovalsOwn, NEW r \in PushReqs, Pushes(r)
    PROVE  DevicesInv' /\ RemovalsOwn'
<1>1. PushTypeOK /\ PushCallsOK /\ PushedIsStored
  BY DEF DevicesInv, DevicesFit
<1>2. PICK failed : failed = pushReq[r].devices \ known
  OBVIOUS
<1>3. /\ pushReq[r].pc = "push"
      /\ UNCHANGED <<device, inbox, messages, known, said, crossed>>
  BY DEF Pushes
<1>4. /\ pushReq[r] \in PushCalls /\ failed \subseteq Devices /\ failed \cap known = {}
      /\ messages \in 0 .. MaxMessages /\ pushReq[r].message \in 0 .. messages
  BY <1>1, <1>2 DEF PushTypeOK, PushCallsOK, PushCalls
<1>5. InboxGrows /\ inbox' \in [Users -> [Messages -> {"none", "unread", "read"}]]
  BY <1>1, <1>3 DEF InboxGrows, PushTypeOK
<1>6. pushed' = pushed \/ (pushReq[r].message # 0 /\ pushed' = pushed \cup Delivered(r))
  BY DEF Pushes
<1>7. pushReq[r].message # 0 =>
          \A d \in Delivered(r) : d \in Messages \X Devices \X Users /\ inbox[d[3]][d[1]] # "none"
  <2> SUFFICES ASSUME pushReq[r].message # 0, NEW t \in pushReq[r].devices \cap known
               PROVE  /\ pushReq[r].message \in Messages /\ t \in Devices
                      /\ pushReq[r].owner[t] \in Users
                      /\ inbox[pushReq[r].owner[t]][pushReq[r].message] # "none"
    BY DEF Delivered
  <2>1. pushReq[r].message \in Messages /\ t \in Devices
    BY <1>4, PushNumbers DEF Messages, PushCalls
  <2>2. QED  BY <1>1, <1>3, <2>1 DEF PushCallsOK
<1>8. pushed' \subseteq Messages \X Devices \X Users /\ PushedIsStored'
  <2>1. pushed' \subseteq Messages \X Devices \X Users
    BY <1>1, <1>6, <1>7 DEF PushTypeOK
  <2>2. PushedIsStored'
    BY <1>1, <1>3, <1>6, <1>7 DEF PushedIsStored
  <2>3. QED  BY <2>1, <2>2
<1>9. messages' \in 0 .. MaxMessages /\ messages' >= messages /\ 0 \in 0 .. messages'
  BY <1>3, <1>4, PushNumbers
<1>10. CASE PushDone(r)
  <2>1. pushReq' = [pushReq EXCEPT ![r] = AtEase]
    BY <1>10 DEF PushDone
  <2>2. QED  BY <1>3, <1>5, <1>8, <1>9, <2>1, EaseIsCall, CallMade
<1>11. CASE pushReq' = [pushReq EXCEPT ![r].pc = "drop", ![r].devices = failed]
  <2>1. PICK w : w = [pushReq[r] EXCEPT !.pc = "drop", !.devices = failed]
    OBVIOUS
  <2>2. w \in PushCalls /\ w.pc = "drop" /\ w.devices = failed /\ w.message \in 0 .. messages'
    BY <1>3, <1>4, <2>1 DEF PushCalls
  <2>3. pushReq' = [pushReq EXCEPT ![r] = w]
    BY <1>1, <1>11, <2>1 DEF PushTypeOK
  <2>4. QED  BY <1>3, <1>4, <1>5, <1>8, <1>9, <2>2, <2>3, CallMade
<1>12. QED  BY <1>2, <1>10, <1>11 DEF Pushes

\* A token that Firebase gave up is no token of an installed app: nothing that is
\* promised about installed apps changes.
LEMMA DropsStep ==
    ASSUME DevicesInv, RemovalsOwn, NEW r \in PushReqs, NEW t \in Devices, Drops(r, t)
    PROVE  DevicesInv' /\ RemovalsOwn'
<1>1. PushTypeOK /\ PushCallsOK /\ PushedIsStored /\ SteadyDevices
  BY DEF DevicesInv, DevicesFit
<1>2. PICK left : left = pushReq[r].devices \ {t}
  OBVIOUS
<1>3. PICK w : w = IF left = {} THEN AtEase ELSE [pushReq[r] EXCEPT !.devices = left]
  OBVIOUS
<1>4. /\ pushReq[r].pc = "drop" /\ t \in pushReq[r].devices
      /\ device' = [device EXCEPT ![t].active = FALSE]
      /\ UNCHANGED <<inbox, messages, known, pushed, said, crossed>>
  BY DEF Drops
<1>5. pushReq' = [pushReq EXCEPT ![r] = w]
  <2>1. CASE left = {}
    BY <1>2, <1>3, <2>1 DEF Drops, PushDone
  <2>2. CASE left # {}
    BY <1>1, <1>2, <1>3, <2>2 DEF Drops, PushTypeOK
  <2>3. QED  BY <2>1, <2>2
<1>6. /\ pushReq[r] \in PushCalls /\ pushReq[r].devices \cap known = {}
      /\ messages \in 0 .. MaxMessages /\ pushReq[r].message \in 0 .. messages
  BY <1>1, <1>4 DEF PushTypeOK, PushCallsOK
<1>7. /\ w \in PushCalls /\ w.pc \in {"idle", "drop"} /\ w.message \in 0 .. messages
      /\ w.pc = "drop" => w.devices \cap known = {}
  <2>1. CASE left = {}
    BY <1>3, <1>6, <2>1, EaseIsCall, PushNumbers
  <2>2. CASE left # {}
    BY <1>2, <1>3, <1>4, <1>6, <2>2 DEF PushCalls
  <2>3. QED  BY <2>1, <2>2
<1>8. /\ pushReq' \in [PushReqs -> PushCalls] /\ pushReq'[r] = w
      /\ \A n \in PushReqs : n # r => pushReq'[n] = pushReq[n]
  BY <1>1, <1>5, <1>7, PushReqWritten
<1>9. /\ device' \in [Devices -> DeviceRows] /\ ~ device'[t].active
      /\ \A d \in Devices : d # t => device'[d] = device[d]
  BY <1>1, <1>4 DEF PushTypeOK, DeviceRows
<1>10. PushTypeOK'
  BY <1>1, <1>4, <1>8, <1>9 DEF PushTypeOK
<1>11. PushCallsOK'
  <2>1. \A n \in PushReqs : n # r => pushReq'[n] = pushReq[n]
    BY <1>8
  <2>2. w.pc \notin {"remove", "store", "push"}
    BY <1>7
  <2>3. QED  BY <1>1, <1>4, <1>7, <1>8, <2>1, <2>2 DEF PushCallsOK
<1>12. PushedIsStored' /\ \A d \in Devices : device'[d].active => device'[d].owner \in Users
  BY <1>4, <1>9 DEF DevicesInv, DevicesFit, PushedIsStored
<1>13. SteadyDevices'
  <2>1. t \notin known /\ known \subseteq Devices
    BY <1>1, <1>4, <1>6 DEF PushTypeOK
  <2>2. QED  BY <1>1, <1>4, <1>9, <2>1 DEF SteadyDevices
<1>14. RemovalsOwn'
  BY <1>4, <1>7, <1>8 DEF RemovalsOwn
<1>15. QED  BY <1>10, <1>11, <1>12, <1>13, <1>14 DEF DevicesInv, DevicesFit

\* Pushes and notifications go to the same people, and a device of an installed app is
\* as its owner last asked, for any users, devices, requests and broadcasts.
THEOREM DevicesAsAsked == PushSpec => []DevicesInv
<1>1. DevicesInv /\ RemovalsOwn /\ [PushNext]_pushVars => DevicesInv' /\ RemovalsOwn'
  <2> SUFFICES ASSUME DevicesInv, RemovalsOwn, [PushNext]_pushVars PROVE DevicesInv' /\ RemovalsOwn'
    OBVIOUS
  <2>1. inbox \in [Users -> [Messages -> {"none", "unread", "read"}]]
    BY DEF DevicesInv, DevicesFit, PushTypeOK
  <2>2. ASSUME NEW t \in Devices, Uninstall(t) PROVE DevicesInv' /\ RemovalsOwn'
    BY <2>1, <2>2, InboxStep DEF Uninstall, InboxGrows
  <2>3. ASSUME NEW u \in Users, NEW m \in Messages, MarkRead(u, m) PROVE DevicesInv' /\ RemovalsOwn'
    <3>1. InboxGrows /\ inbox' \in [Users -> [Messages -> {"none", "unread", "read"}]]
      BY <2>1, <2>3 DEF MarkRead, InboxGrows
    <3>2. QED  BY <2>3, <3>1, InboxStep DEF MarkRead
  <2>4. ASSUME NEW u \in Users, MarkAllRead(u) PROVE DevicesInv' /\ RemovalsOwn'
    <3>1. InboxGrows /\ inbox' \in [Users -> [Messages -> {"none", "unread", "read"}]]
      BY <2>1, <2>4 DEF MarkAllRead, InboxGrows
    <3>2. QED  BY <2>4, <3>1, InboxStep DEF MarkAllRead
  <2>5. ASSUME NEW r \in PushReqs, PushCutOff(r) PROVE DevicesInv' /\ RemovalsOwn'
    BY <2>5, PushEnds DEF PushCutOff
  <2>6. CASE UNCHANGED pushVars
    BY <2>1, <2>6, InboxStep DEF pushVars, InboxGrows
  <2>7. QED
    BY <2>2, <2>3, <2>4, <2>5, <2>6, RegisterStep, RemoveBeginsStep, SendStep, DropsStep,
       DeactivatesStep, BroadcastStep, StoresStep, PushesStep DEF PushNext
<1>2. QED  BY <1>1, PushInitInv, PTL DEF PushSpec
-----------------------------------------------------------------------------
(* Vehicles.                                                               *)

\* What a request carries is there for it, and the car an import found is still
\* the system's, or was edited or removed.
CarCallOK(q) ==
    /\ q.pc \in {"own", "join"} => q.user \in Drivers
    /\ q.pc \in {"own", "create"} => q.model \in Models
    /\ q.pc = "update" => /\ q.car \in Cars /\ car[q.car].state # "unused"
                          /\ \/ car[q.car].by = "SYSTEM" \/ q.car \in edited
                             \/ car[q.car].state = "deleted"

CarCallsOK == \A r \in CarReqs : CarCallOK(carReq[r])

\* A car that an import put into the catalogue and nobody edited.
SystemCar(k, m) == k \in CarsOf(m) /\ car[k].by = "SYSTEM" /\ k \notin edited

\* One import at a time: none creates a model that is listed, and none did.
ImportsAlone ==
    serial => /\ \A r, q \in Importing : r = q
              /\ \A r \in CarReqs : carReq[r].pc = "create" =>
                     \A k \in Cars : ~ SystemCar(k, carReq[r].model)
              /\ \A m \in Models, k, n \in Cars : SystemCar(k, m) /\ SystemCar(n, m) => k = n

VehiclesInd == GarageInv /\ ImportsAddOnly /\ CarCallsOK /\ ImportsAlone

\* Cars are not forgotten, and change hands only by an edit.
CarMoves ==
    \A k \in Cars :
        car[k].state # "unused" =>
            /\ car'[k].state # "unused"
            /\ car[k].state = "deleted" => car'[k].state = "deleted"
            /\ car'[k].by = car[k].by \/ k \in edited' \/ car'[k].state = "deleted"

LEMMA CarsStart == CarInit => VehiclesInd
<1> SUFFICES ASSUME CarInit PROVE VehiclesInd
  OBVIOUS
<1>1. Parked \in CarCalls /\ Parked.pc = "idle"
  BY DEF Parked, CarCalls
<1>2. NoCar \in CarRows /\ NoUserCar \in GarageRows /\ NoCar.state = "unused" /\ NoUserCar.state = "unused"
  BY DEF NoCar, NoUserCar, CarRows, GarageRows, Makers
<1>3. CarTypeOK
  BY <1>1, <1>2 DEF CarInit, CarTypeOK
<1>4. Garage = {} /\ LiveCars = {}
  BY <1>2 DEF CarInit, Garage, LiveCars
<1>5. GarageInv
  BY <1>3, <1>4 DEF GarageInv
<1>6. ImportsAddOnly /\ CarCallsOK
  BY <1>1 DEF CarInit, ImportsAddOnly, CarCallsOK, CarCallOK
<1>7. ImportsAlone
  BY <1>1, <1>4 DEF CarInit, ImportsAlone, Importing, SystemCar, CarsOf
<1>8. QED  BY <1>5, <1>6, <1>7 DEF VehiclesInd

LEMMA ParkedIsCall == Parked \in CarCalls /\ Parked.pc = "idle"
BY DEF Parked, CarCalls

LEMMA CarReqWritten ==
    ASSUME CarTypeOK, NEW r \in CarReqs, NEW w \in CarCalls, carReq' = [carReq EXCEPT ![r] = w]
    PROVE  /\ carReq' \in [CarReqs -> CarCalls]
           /\ carReq'[r] = w
           /\ \A n \in CarReqs : n # r => carReq'[n] = carReq[n]
BY DEF CarTypeOK

LEMMA CarCallKept ==
    ASSUME CarMoves, edited \subseteq edited', NEW q, CarCallOK(q)
    PROVE  CarCallOK(q)'
BY DEF CarMoves, CarCallOK

\* A step of request r leaves the others as they fit.
LEMMA CarCallsKept ==
    ASSUME CarCallsOK, CarMoves, edited \subseteq edited', NEW r,
           \A n \in CarReqs : n # r => carReq'[n] = carReq[n],
           r \in CarReqs => CarCallOK(carReq[r])'
    PROVE  CarCallsOK'
<1> SUFFICES ASSUME NEW n \in CarReqs PROVE CarCallOK(carReq[n])'
  BY DEF CarCallsOK
<1>1. CASE n = r
  BY <1>1
<1>2. CASE n # r
  <2>1. PICK q : q = carReq[n]
    OBVIOUS
  <2>2. CarCallOK(q)'
    BY <2>1, CarCallKept DEF CarCallsOK
  <2>3. carReq'[n] = q
    BY <1>2, <2>1
  <2>4. QED  BY <2>2, <2>3
<1>3. QED  BY <1>1, <1>2

\* A step of request r that lists no car of the system.
LEMMA AloneKept ==
    ASSUME ImportsAlone, serial' => serial, NEW r,
           \A n \in CarReqs : n # r => carReq'[n] = carReq[n],
           r \in CarReqs /\ carReq'[r].pc \in {"find", "update", "create"} =>
               carReq[r].pc \in {"find", "update", "create"},
           r \in CarReqs /\ carReq'[r].pc = "create" =>
               \A k \in Cars : ~ SystemCar(k, carReq'[r].model),
           \A k \in Cars : \A m : SystemCar(k, m)' => SystemCar(k, m)
    PROVE  ImportsAlone'
<1>1. Importing' \subseteq Importing
  BY DEF Importing
<1>2. ASSUME serial, NEW n \in CarReqs, NEW w, w = carReq'[n], w.pc = "create", NEW k \in Cars
      PROVE  ~ SystemCar(k, w.model)'
  <2>1. ~ SystemCar(k, w.model)
    BY <1>2 DEF ImportsAlone
  <2>2. QED  BY <2>1
<1>3. QED  BY <1>1, <1>2 DEF ImportsAlone

LEMMA GarageKept ==
    ASSUME GarageInv, CarTypeOK', UNCHANGED garage, LiveCars \subseteq LiveCars'
    PROVE  GarageInv'
BY DEF GarageInv, Garage
\* A step that writes one request, and of the rest at most what imports remember.
LEMMA CarRequestStep ==
    ASSUME VehiclesInd, NEW r \in CarReqs, NEW w \in CarCalls, carReq' = [carReq EXCEPT ![r] = w],
           CarCallOK(w), UNCHANGED <<car, garage, edited>>,
           touched' \subseteq edited, found' \subseteq Models,
           \A m \in found' : m \in found \/ CarsOf(m) # {},
           serial' \in BOOLEAN, serial' => serial,
           w.pc \in {"find", "update", "create"} => carReq[r].pc \in {"find", "update", "create"},
           w.pc = "create" => \A k \in Cars : ~ SystemCar(k, w.model)
    PROVE  VehiclesInd'
<1>1. CarTypeOK /\ GarageInv /\ ImportsAddOnly /\ CarCallsOK /\ ImportsAlone
  BY DEF VehiclesInd, GarageInv
<1>2. /\ carReq' \in [CarReqs -> CarCalls] /\ carReq'[r] = w
      /\ \A n \in CarReqs : n # r => carReq'[n] = carReq[n]
  BY <1>1, CarReqWritten
<1>3. CarTypeOK'
  BY <1>1, <1>2 DEF CarTypeOK
<1>4. GarageInv'
  BY <1>1, <1>3, GarageKept DEF LiveCars
<1>5. ImportsAddOnly'
  BY <1>1 DEF ImportsAddOnly, CarsOf, LiveCars
<1>6. CarMoves
  BY DEF CarMoves
<1>7. CarCallOK(w)'
  BY <1>6, CarCallKept
<1>8. CarCallsOK'
  BY <1>1, <1>2, <1>6, <1>7, CarCallsKept
<1>9. \A k \in Cars : \A m : SystemCar(k, m)' => SystemCar(k, m)
  BY DEF SystemCar, CarsOf, LiveCars
<1>10. ImportsAlone'
  BY <1>1, <1>2, <1>9, AloneKept
<1>11. QED  BY <1>4, <1>5, <1>8, <1>10 DEF VehiclesInd

LEMMA CarEnds ==
    ASSUME VehiclesInd, NEW r \in CarReqs, CarDone(r), UNCHANGED <<car, garage, edited, serial, found>>,
           touched' \subseteq edited
    PROVE  VehiclesInd'
<1>1. carReq' = [carReq EXCEPT ![r] = Parked]
  BY DEF CarDone
<1>2. CarCallOK(Parked)
  BY ParkedIsCall DEF CarCallOK
<1>3. found \subseteq Models /\ serial \in BOOLEAN
  BY DEF VehiclesInd, GarageInv, CarTypeOK
<1>4. QED  BY <1>1, <1>2, <1>3, ParkedIsCall, CarRequestStep

\* What Continues makes of a request.
LEMMA WentToNext ==
    ASSUME CarTypeOK, NEW r \in CarReqs, Continues(r)
    PROVE  \E w \in CarCalls : /\ carReq' = [carReq EXCEPT ![r] = w]
                               /\ w.pc \in {"idle", "find"}
<1>1. CASE carReq[r].left = {}
  BY <1>1, ParkedIsCall DEF Continues, CarDone
<1>2. CASE carReq[r].left # {}
  <2>1. PICK w : w = [carReq[r] EXCEPT !.pc = "find", !.model = Void, !.car = Void]
    OBVIOUS
  <2>2. w \in CarCalls /\ w.pc = "find"
    BY <2>1 DEF CarTypeOK, CarCalls
  <2>3. carReq' = [carReq EXCEPT ![r] = w]
    BY <1>2, <2>1 DEF Continues, CarTypeOK
  <2>4. QED  BY <2>2, <2>3
<1>3. QED  BY <1>1, <1>2

LEMMA ImportFindsStep ==
    ASSUME VehiclesInd, NEW r \in CarReqs, NEW m \in Models, ImportFinds(r, m)
    PROVE  VehiclesInd'
<1>1. CarTypeOK /\ ImportsAddOnly
  BY DEF VehiclesInd, GarageInv
<1>2. PICK q \in CarCalls : q = carReq[r]
  BY <1>1 DEF CarTypeOK
<1>3. q.pc = "find" /\ UNCHANGED <<car, garage, touched, serial, edited>>
  BY <1>2 DEF ImportFinds
<1>4. PICK rest : rest = q.left \ {m}
  OBVIOUS
<1>5. rest \subseteq Models
  BY <1>2, <1>4 DEF CarCalls
<1>6. touched \subseteq edited /\ found \subseteq Models /\ serial \in BOOLEAN
  BY <1>1 DEF CarTypeOK, ImportsAddOnly
<1>7. CASE CarsOf(m) = {} /\ carReq' = [carReq EXCEPT ![r].pc = "create", ![r].model = m, ![r].left = rest]
           /\ UNCHANGED found
  <2>1. PICK w : w = [q EXCEPT !.pc = "create", !.model = m, !.left = rest]
    OBVIOUS
  <2>2. w \in CarCalls /\ w.pc = "create" /\ w.model = m
    BY <1>2, <1>5, <2>1 DEF CarCalls
  <2>3. carReq' = [carReq EXCEPT ![r] = w]
    BY <1>1, <1>2, <1>7, <2>1 DEF CarTypeOK
  <2>4. CarCallOK(w) /\ \A k \in Cars : ~ SystemCar(k, w.model)
    BY <1>7, <2>2 DEF CarCallOK, SystemCar
  <2>5. QED  BY <1>2, <1>3, <1>6, <1>7, <2>2, <2>3, <2>4, CarRequestStep
<1>8. ASSUME NEW k \in CarsOf(m), found' = found \cup {m},
             IF Skips(k)
             THEN IF rest = {} THEN CarDone(r)
                  ELSE carReq' = [carReq EXCEPT ![r].left = rest]
             ELSE carReq' = [carReq EXCEPT ![r].pc = "update", ![r].model = m, ![r].car = k,
                                           ![r].left = rest]
      PROVE  VehiclesInd'
  <2>1. \E w \in CarCalls : /\ carReq' = [carReq EXCEPT ![r] = w] /\ CarCallOK(w)
                            /\ w.pc \in {"idle", "find", "update"}
    <3>1. CASE CarDone(r)
      BY <3>1, ParkedIsCall DEF CarDone, CarCallOK
    <3>2. CASE carReq' = [carReq EXCEPT ![r].left = rest]
      <4>1. PICK w : w = [q EXCEPT !.left = rest]
        OBVIOUS
      <4>2. w \in CarCalls /\ w.pc = "find"
        BY <1>2, <1>3, <1>5, <4>1 DEF CarCalls
      <4>3. carReq' = [carReq EXCEPT ![r] = w]
        BY <1>2, <3>2, <4>1
      <4>4. QED  BY <4>2, <4>3 DEF CarCallOK
    <3>3. CASE ~ Skips(k) /\ carReq' = [carReq EXCEPT ![r].pc = "update", ![r].model = m, ![r].car = k,
                                                      ![r].left = rest]
      <4>1. PICK w : w = [q EXCEPT !.pc = "update", !.model = m, !.car = k, !.left = rest]
        OBVIOUS
      <4>2. k \in Cars /\ car[k].state = "live" /\ car[k].by = "SYSTEM"
        BY <3>3 DEF CarsOf, LiveCars, Skips
      <4>3. w \in CarCalls /\ w.pc = "update" /\ w.car = k
        BY <1>2, <1>5, <4>1, <4>2 DEF CarCalls
      <4>4. carReq' = [carReq EXCEPT ![r] = w]
        BY <1>1, <1>2, <3>3, <4>1 DEF CarTypeOK
      <4>5. QED  BY <4>2, <4>3, <4>4 DEF CarCallOK
    <3>4. QED  BY <1>8, <3>1, <3>2, <3>3
  <2>2. PICK w \in CarCalls : /\ carReq' = [carReq EXCEPT ![r] = w] /\ CarCallOK(w)
                              /\ w.pc \in {"idle", "find", "update"}
    BY <2>1
  <2>3. found' \subseteq Models /\ \A x \in found' : x \in found \/ CarsOf(x) # {}
    BY <1>6, <1>8
  <2>4. QED  BY <1>2, <1>3, <1>6, <2>2, <2>3, CarRequestStep
<1>9. QED  BY <1>2, <1>4, <1>7, <1>8 DEF ImportFinds, Matches

LEMMA ImportUpdatesStep ==
    ASSUME VehiclesInd, NEW r \in CarReqs, ImportUpdates(r)
    PROVE  VehiclesInd'
<1>1. CarTypeOK /\ ImportsAddOnly /\ CarCallsOK
  BY DEF VehiclesInd, GarageInv
<1>2. PICK k : k = carReq[r].car
  OBVIOUS
<1>3. carReq[r].pc = "update" /\ UNCHANGED <<car, garage, serial, found, edited>>
  BY DEF ImportUpdates
<1>4. touched' \subseteq edited
  <2>1. touched \subseteq edited
    BY <1>1 DEF ImportsAddOnly
  <2>2. k \in LiveCars /\ car[k].by # "SYSTEM" => k \in edited
    BY <1>1, <1>2, <1>3 DEF CarCallsOK, CarCallOK, LiveCars
  <2>3. touched' = touched \/ (touched' = touched \cup {k} /\ k \in LiveCars /\ car[k].by # "SYSTEM")
    BY <1>2 DEF ImportUpdates
  <2>4. QED  BY <2>1, <2>2, <2>3
<1>5. CASE CarDone(r)
  BY <1>3, <1>4, <1>5, CarEnds
<1>6. CASE Continues(r)
  <2>1. PICK w \in CarCalls : carReq' = [carReq EXCEPT ![r] = w] /\ w.pc \in {"idle", "find"}
    BY <1>1, <1>6, WentToNext
  <2>2. CarCallOK(w)
    BY <2>1 DEF CarCallOK
  <2>3. found \subseteq Models /\ serial \in BOOLEAN
    BY <1>1 DEF CarTypeOK
  <2>4. QED  BY <1>3, <1>4, <2>1, <2>2, <2>3, CarRequestStep
<1>7. QED  BY <1>5, <1>6 DEF ImportUpdates
LEMMA ImportBeginsStep ==
    ASSUME VehiclesInd, NEW r \in CarReqs, ImportBegins(r)
    PROVE  VehiclesInd'
<1>1. CarTypeOK /\ GarageInv /\ ImportsAddOnly /\ CarCallsOK /\ ImportsAlone
  BY DEF VehiclesInd, GarageInv
<1>2. PICK w : w = [Parked EXCEPT !.pc = "find", !.left = Listed]
  OBVIOUS
<1>3. w \in CarCalls /\ w.pc = "find"
  BY <1>2, ListedAssumption DEF Parked, CarCalls
<1>4. carReq' = [carReq EXCEPT ![r] = w] /\ serial' = (serial /\ Importing = {})
      /\ UNCHANGED <<car, garage, touched, found, edited>>
  BY <1>2 DEF ImportBegins, CarCall
<1>5. /\ carReq' \in [CarReqs -> CarCalls] /\ carReq'[r] = w
      /\ \A n \in CarReqs : n # r => carReq'[n] = carReq[n]
  BY <1>1, <1>3, <1>4, CarReqWritten
<1>6. CarTypeOK'
  BY <1>1, <1>4, <1>5 DEF CarTypeOK
<1>7. GarageInv' /\ ImportsAddOnly'
  BY <1>1, <1>4, <1>6, GarageKept DEF LiveCars, ImportsAddOnly, CarsOf
<1>8. CarCallsOK'
  <2>1. CarMoves /\ CarCallOK(w)'
    BY <1>3, <1>4 DEF CarMoves, CarCallOK
  <2>2. QED  BY <1>1, <1>4, <1>5, <2>1, CarCallsKept
<1>9. ASSUME serial' PROVE ImportsAlone'
  <2>1. serial /\ \A n \in CarReqs : carReq[n].pc \notin {"find", "update", "create"}
    BY <1>4, <1>9 DEF Importing
  <2>2. \A n \in CarReqs : n \in Importing' => n = r
    BY <1>5, <2>1 DEF Importing
  <2>3. \A n \in CarReqs : carReq'[n].pc # "create"
    BY <1>3, <1>5, <2>1
  <2>4. \A m \in Models, k, n \in Cars : SystemCar(k, m)' /\ SystemCar(n, m)' => k = n
    BY <1>1, <1>4, <2>1 DEF ImportsAlone, SystemCar, CarsOf, LiveCars
  <2>5. \A p, q \in Importing' : p = q
    BY <2>2 DEF Importing
  <2>6. QED  BY <2>3, <2>4, <2>5 DEF ImportsAlone
<1>10. QED  BY <1>7, <1>8, <1>9 DEF VehiclesInd, ImportsAlone

\* What a new car changes.
LEMMA CarAdded ==
    ASSUME CarTypeOK, NEW k \in Cars, car[k].state = "unused", NEW m \in Models, NEW by \in Makers,
           car' = Inserted(k, m, by), UNCHANGED edited
    PROVE  /\ car' \in [Cars -> CarRows]
           /\ car'[k].state = "live" /\ car'[k].model = m /\ car'[k].by = by
           /\ CarMoves /\ LiveCars \subseteq LiveCars'
           /\ \A x : CarsOf(x) \subseteq CarsOf(x)'
           /\ k \in CarsOf(m)'
           /\ \A j \in Cars : \A x : SystemCar(j, x)' => SystemCar(j, x) \/ (j = k /\ x = m /\ by = "SYSTEM")
<1>1. PICK row : row = [state |-> "live", model |-> m, by |-> by]
  OBVIOUS
<1>2. row \in CarRows /\ row.state = "live" /\ row.model = m /\ row.by = by
  BY <1>1 DEF CarRows
<1>3. car' \in [Cars -> CarRows] /\ car'[k] = row /\ \A j \in Cars \ {k} : car'[j] = car[j]
  BY <1>1, <1>2 DEF Inserted, CarTypeOK
<1>4. CarMoves
  BY <1>3 DEF CarMoves
<1>5. LiveCars \subseteq LiveCars' /\ \A x : CarsOf(x) \subseteq CarsOf(x)'
  BY <1>3 DEF LiveCars, CarsOf
<1>6. k \in CarsOf(m)'
  BY <1>2, <1>3 DEF LiveCars, CarsOf
<1>7. ASSUME NEW j \in Cars, NEW x, SystemCar(j, x)'
      PROVE  SystemCar(j, x) \/ (j = k /\ x = m /\ by = "SYSTEM")
  <2>1. CASE j = k
    BY <1>2, <1>3, <1>7, <2>1 DEF SystemCar, CarsOf
  <2>2. CASE j # k
    BY <1>3, <1>7, <2>2 DEF SystemCar, CarsOf, LiveCars
  <2>3. QED  BY <2>1, <2>2
<1>8. QED  BY <1>2, <1>3, <1>4, <1>5, <1>6, <1>7

LEMMA CreateCarStep ==
    ASSUME VehiclesInd, NEW k \in Cars, NEW m \in Models, CreateCar(k, m)
    PROVE  VehiclesInd'
<1>1. CarTypeOK /\ GarageInv /\ ImportsAddOnly /\ CarCallsOK /\ ImportsAlone
  BY DEF VehiclesInd, GarageInv
<1>2. "ADMIN" \in Makers /\ car[k].state = "unused" /\ car' = Inserted(k, m, "ADMIN")
      /\ UNCHANGED <<garage, carReq, touched, serial, found, edited>>
  BY DEF CreateCar, Makers
<1>3. /\ car' \in [Cars -> CarRows] /\ CarMoves /\ LiveCars \subseteq LiveCars'
      /\ \A x : CarsOf(x) \subseteq CarsOf(x)'
      /\ \A j \in Cars : \A x : SystemCar(j, x)' => SystemCar(j, x)
  BY <1>1, <1>2, CarAdded
<1>4. CarTypeOK'
  BY <1>1, <1>2, <1>3 DEF CarTypeOK
<1>5. GarageInv' /\ ImportsAddOnly'
  BY <1>1, <1>2, <1>3, <1>4, GarageKept DEF ImportsAddOnly
<1>6. CarCallsOK'
  BY <1>1, <1>2, <1>3, CarCallKept DEF CarCallsOK
<1>7. ImportsAlone'
  BY <1>1, <1>2, <1>3 DEF ImportsAlone, Importing
<1>8. QED  BY <1>5, <1>6, <1>7 DEF VehiclesInd

LEMMA CreatesOwnStep ==
    ASSUME VehiclesInd, NEW r \in CarReqs, NEW k \in Cars, CreatesOwn(r, k)
    PROVE  VehiclesInd'
<1>1. CarTypeOK /\ GarageInv /\ ImportsAddOnly /\ CarCallsOK /\ ImportsAlone
  BY DEF VehiclesInd, GarageInv
<1>2. PICK q \in CarCalls : q = carReq[r]
  BY <1>1 DEF CarTypeOK
<1>3. q.pc = "own" /\ car[k].state = "unused" /\ UNCHANGED <<garage, touched, serial, found, edited>>
  BY <1>2 DEF CreatesOwn
<1>4. q.user \in Drivers /\ q.model \in Models
  BY <1>1, <1>2, <1>3 DEF CarCallsOK, CarCallOK
<1>5. PICK m \in Models : m = q.model
  BY <1>4
<1>6. "USER" \in Makers /\ car' = Inserted(k, m, "USER")
  BY <1>2, <1>5 DEF CreatesOwn, Makers
<1>7. /\ car' \in [Cars -> CarRows] /\ CarMoves /\ LiveCars \subseteq LiveCars'
      /\ \A x : CarsOf(x) \subseteq CarsOf(x)'
      /\ \A j \in Cars : \A x : SystemCar(j, x)' => SystemCar(j, x)
  BY <1>1, <1>3, <1>6, CarAdded
<1>8. PICK w : w = [q EXCEPT !.pc = "join", !.car = k]
  OBVIOUS
<1>9. w \in CarCalls /\ w.pc = "join" /\ w.user = q.user
  BY <1>8 DEF CarCalls
<1>10. carReq' = [carReq EXCEPT ![r] = w]
  BY <1>1, <1>2, <1>8 DEF CreatesOwn, CarTypeOK
<1>11. /\ carReq' \in [CarReqs -> CarCalls] /\ carReq'[r] = w
       /\ \A n \in CarReqs : n # r => carReq'[n] = carReq[n]
  BY <1>1, <1>9, <1>10, CarReqWritten
<1>12. CarTypeOK'
  BY <1>1, <1>3, <1>7, <1>11 DEF CarTypeOK
<1>13. GarageInv' /\ ImportsAddOnly'
  BY <1>1, <1>3, <1>7, <1>12, GarageKept DEF ImportsAddOnly
<1>14. CarCallOK(w)'
  BY <1>4, <1>9 DEF CarCallOK
<1>15. CarCallsOK'
  BY <1>1, <1>3, <1>7, <1>11, <1>14, CarCallsKept
<1>16. ImportsAlone'
  BY <1>1, <1>3, <1>7, <1>9, <1>11, AloneKept
<1>17. QED  BY <1>13, <1>15, <1>16 DEF VehiclesInd

LEMMA ImportCreatesStep ==
    ASSUME VehiclesInd, NEW r \in CarReqs, NEW k \in Cars, ImportCreates(r, k)
    PROVE  VehiclesInd'
<1>1. CarTypeOK /\ GarageInv /\ ImportsAddOnly /\ CarCallsOK /\ ImportsAlone
  BY DEF VehiclesInd, GarageInv
<1>2. carReq[r].pc = "create" /\ car[k].state = "unused" /\ UNCHANGED <<garage, touched, serial, edited>>
  BY DEF ImportCreates
<1>3. PICK m \in Models : m = carReq[r].model
  BY <1>1, <1>2 DEF CarCallsOK, CarCallOK
<1>4. "SYSTEM" \in Makers /\ car' = Inserted(k, m, "SYSTEM") /\ found' = found \cup {m} /\ Continues(r)
  BY <1>3 DEF ImportCreates, Makers
<1>5. /\ car' \in [Cars -> CarRows] /\ CarMoves /\ LiveCars \subseteq LiveCars' /\ k \in CarsOf(m)'
      /\ \A x : CarsOf(x) \subseteq CarsOf(x)'
      /\ \A j \in Cars : \A x : SystemCar(j, x)' => SystemCar(j, x) \/ (j = k /\ x = m)
  BY <1>1, <1>2, <1>4, CarAdded
<1>6. PICK w \in CarCalls : carReq' = [carReq EXCEPT ![r] = w] /\ w.pc \in {"idle", "find"}
  BY <1>1, <1>4, WentToNext
<1>7. /\ carReq' \in [CarReqs -> CarCalls] /\ carReq'[r] = w
      /\ \A n \in CarReqs : n # r => carReq'[n] = carReq[n]
  BY <1>1, <1>6, CarReqWritten
<1>8. CarTypeOK'
  BY <1>1, <1>2, <1>4, <1>5, <1>7 DEF CarTypeOK
<1>9. GarageInv' /\ ImportsAddOnly'
  BY <1>1, <1>2, <1>4, <1>5, <1>8, GarageKept DEF ImportsAddOnly
<1>10. CarCallOK(w)'
  BY <1>6 DEF CarCallOK
<1>11. CarCallsOK'
  BY <1>1, <1>2, <1>5, <1>7, <1>10, CarCallsKept
<1>12. ASSUME serial PROVE ImportsAlone'
  <2>1. \A n \in Importing : n = r
    BY <1>1, <1>2, <1>12 DEF ImportsAlone, Importing
  <2>2. \A n \in CarReqs : carReq'[n].pc \in {"find", "update", "create"} => n = r
    BY <1>7, <2>1 DEF Importing
  <2>3. \A n \in CarReqs : carReq'[n].pc # "create"
    BY <1>6, <1>7, <2>2
  <2>4. \A j \in Cars : ~ SystemCar(j, m)
    BY <1>1, <1>2, <1>3, <1>12 DEF ImportsAlone
  <2>5. \A x \in Models, j, n \in Cars : SystemCar(j, x)' /\ SystemCar(n, x)' => j = n
    <3> SUFFICES ASSUME NEW x \in Models, NEW j \in Cars, NEW n \in Cars,
                        SystemCar(j, x)', SystemCar(n, x)'
                 PROVE  j = n
      OBVIOUS
    <3>1. CASE x = m
      BY <1>5, <2>4, <3>1
    <3>2. CASE x # m
      BY <1>1, <1>5, <1>12, <3>2 DEF ImportsAlone
    <3>3. QED  BY <3>1, <3>2
  <2>6. \A p, q \in Importing' : p = q
    BY <2>2 DEF Importing
  <2>7. QED  BY <2>3, <2>5, <2>6 DEF ImportsAlone
<1>13. QED  BY <1>2, <1>9, <1>11, <1>12 DEF VehiclesInd, ImportsAlone
\* Steps that write rows of people's garages.
LEMMA GarageStep ==
    ASSUME VehiclesInd, UNCHANGED <<car, touched, serial, found, edited>>,
           GarageInv', carReq' \in [CarReqs -> CarCalls],
           \A n \in CarReqs : \/ carReq'[n] = carReq[n]
                              \/ /\ CarCallOK(carReq[n])'
                                 /\ carReq'[n].pc \notin {"find", "update", "create"}
    PROVE  VehiclesInd'
<1>1. ImportsAddOnly /\ CarCallsOK /\ ImportsAlone
  BY DEF VehiclesInd
<1>2. ImportsAddOnly'
  BY <1>1 DEF ImportsAddOnly, CarsOf, LiveCars
<1>3. CarMoves
  BY DEF CarMoves
<1>4. CarCallsOK'
  BY <1>1, <1>3, CarCallKept DEF CarCallsOK
<1>5. \A k \in Cars : \A m : SystemCar(k, m)' => SystemCar(k, m)
  BY DEF SystemCar, CarsOf, LiveCars
<1>6. Importing' \subseteq Importing /\ \A n \in Importing' : carReq'[n] = carReq[n]
  BY DEF Importing
<1>7. \A n \in CarReqs : carReq'[n].pc = "create" => n \in Importing'
  BY DEF Importing
<1>8. ImportsAlone'
  BY <1>1, <1>5, <1>6, <1>7 DEF ImportsAlone, Importing
<1>9. QED  BY <1>2, <1>4, <1>8 DEF VehiclesInd

\* One row of a garage is written, or taken out.
LEMMA GarageWritten ==
    ASSUME GarageInv, UNCHANGED <<car, touched, serial, found, edited>>,
           carReq' \in [CarReqs -> CarCalls],
           NEW g \in UserCars, NEW row \in GarageRows, garage' = [garage EXCEPT ![g] = row],
           row.state = "live" =>
               /\ row.user \in Drivers /\ row.car \in LiveCars
               /\ \A h \in Garage : garage[h].plate = row.plate => h = g
    PROVE  GarageInv'
<1>1. garage' \in [UserCars -> GarageRows] /\ garage'[g] = row
      /\ \A h \in UserCars \ {g} : garage'[h] = garage[h]
  BY DEF GarageInv, CarTypeOK
<1>2. CarTypeOK'
  BY <1>1 DEF GarageInv, CarTypeOK
<1>3. ASSUME NEW h \in Garage' PROVE garage'[h].user \in Drivers /\ garage'[h].car \in LiveCars'
  <2>1. CASE h = g
    BY <1>1, <1>3, <2>1 DEF Garage, LiveCars
  <2>2. CASE h # g
    BY <1>1, <1>3, <2>2 DEF GarageInv, Garage, LiveCars
  <2>3. QED  BY <2>1, <2>2
<1>4. ASSUME NEW h \in Garage', NEW i \in Garage', garage'[h].plate = garage'[i].plate PROVE h = i
  <2>1. h \in UserCars /\ i \in UserCars
    BY DEF Garage
  <2>2. CASE h # g /\ i # g
    BY <1>1, <1>4, <2>1, <2>2 DEF GarageInv, Garage
  <2>3. CASE h = g \/ i = g
    BY <1>1, <1>4, <2>1, <2>3 DEF Garage
  <2>4. QED  BY <2>2, <2>3
<1>5. QED  BY <1>2, <1>3, <1>4 DEF GarageInv

LEMMA JoinsStep ==
    ASSUME VehiclesInd, NEW r \in CarReqs, NEW g \in UserCars, Joins(r, g)
    PROVE  VehiclesInd'
<1>1. CarTypeOK /\ GarageInv /\ CarCallsOK
  BY DEF VehiclesInd, GarageInv
<1>2. PICK q \in CarCalls : q = carReq[r]
  BY <1>1 DEF CarTypeOK
<1>3. q.pc = "join" /\ q.user \in Drivers /\ CarDone(r)
      /\ UNCHANGED <<car, touched, serial, found, edited>>
  BY <1>1, <1>2 DEF Joins, CarCallsOK, CarCallOK
<1>4. CASE UNCHANGED garage
  <2>1. touched \subseteq edited
    BY DEF VehiclesInd, ImportsAddOnly
  <2>2. QED  BY <1>3, <1>4, <2>1, CarEnds
<1>5. CASE Plated(q.plate) = {} /\ q.car \in LiveCars /\
           garage' = [garage EXCEPT ![g] =
                         [state |-> "live", user |-> q.user, car |-> q.car, plate |-> q.plate]]
  <2>1. PICK row : row = [state |-> "live", user |-> q.user, car |-> q.car, plate |-> q.plate]
    OBVIOUS
  <2>2. row \in GarageRows /\ row.user = q.user /\ row.car = q.car /\ row.plate = q.plate
    BY <2>1 DEF CarCalls, GarageRows
  <2>3. garage' = [garage EXCEPT ![g] = row] /\ \A h \in Garage : garage[h].plate # row.plate
    BY <1>5, <2>1, <2>2 DEF Plated
  <2>4. /\ carReq' \in [CarReqs -> CarCalls] /\ carReq'[r] = Parked
        /\ \A n \in CarReqs : n # r => carReq'[n] = carReq[n]
    BY <1>1, <1>3, ParkedIsCall, CarReqWritten DEF CarDone
  <2>5. GarageInv'
    BY <1>1, <1>3, <1>5, <2>2, <2>3, <2>4, GarageWritten
  <2>6. CarCallOK(Parked)'
    BY ParkedIsCall DEF CarCallOK
  <2>7. \A n \in CarReqs : \/ carReq'[n] = carReq[n]
                           \/ /\ CarCallOK(carReq[n])'
                              /\ carReq'[n].pc \notin {"find", "update", "create"}
    BY <2>4, <2>6, ParkedIsCall
  <2>8. QED  BY <1>3, <2>4, <2>5, <2>7, GarageStep
<1>6. QED  BY <1>2, <1>4, <1>5 DEF Joins

LEMMA EditsStep ==
    ASSUME VehiclesInd, NEW r \in CarReqs, Edits(r)
    PROVE  VehiclesInd'
<1>1. CarTypeOK /\ GarageInv
  BY DEF VehiclesInd, GarageInv
<1>2. PICK q \in CarCalls : q = carReq[r]
  BY <1>1 DEF CarTypeOK
<1>3. CarDone(r) /\ UNCHANGED <<car, touched, serial, found, edited>>
  BY DEF Edits
<1>4. CASE UNCHANGED garage
  <2>1. touched \subseteq edited
    BY DEF VehiclesInd, ImportsAddOnly
  <2>2. QED  BY <1>3, <1>4, <2>1, CarEnds
<1>5. CASE q.row \in Garage /\ Plated(q.plate) \subseteq {q.row} /\ q.car \in LiveCars /\
           garage' = [garage EXCEPT ![q.row].plate = q.plate, ![q.row].car = q.car]
  <2>1. PICK g \in UserCars : g = q.row
    BY <1>5 DEF Garage
  <2>2. PICK row : row = [garage[g] EXCEPT !.plate = q.plate, !.car = q.car]
    OBVIOUS
  <2>3. row \in GarageRows /\ row.user = garage[g].user /\ row.car = q.car /\ row.plate = q.plate
    <3>1. PICK old \in GarageRows : old = garage[g]
      BY <1>1 DEF CarTypeOK
    <3>2. q.plate \in Plates \cup {Void} /\ q.car \in Cars \cup {Void}
      BY DEF CarCalls
    <3>3. row = [old EXCEPT !.plate = q.plate, !.car = q.car]
      BY <2>2, <3>1
    <3>4. row \in GarageRows /\ row.user = old.user /\ row.car = q.car /\ row.plate = q.plate
      BY <3>2, <3>3 DEF GarageRows
    <3>5. QED  BY <3>1, <3>4
  <2>4. garage' = [garage EXCEPT ![g] = row]
    BY <1>1, <1>5, <2>1, <2>2 DEF CarTypeOK
  <2>5. /\ row.user \in Drivers /\ row.car \in LiveCars
        /\ \A h \in Garage : garage[h].plate = row.plate => h = g
    BY <1>1, <1>5, <2>1, <2>3 DEF Plated, GarageInv
  <2>6. /\ carReq' \in [CarReqs -> CarCalls] /\ carReq'[r] = Parked
        /\ \A n \in CarReqs : n # r => carReq'[n] = carReq[n]
    BY <1>1, <1>3, ParkedIsCall, CarReqWritten DEF CarDone
  <2>7. GarageInv'
    BY <1>1, <1>3, <2>3, <2>4, <2>5, <2>6, GarageWritten
  <2>8. CarCallOK(Parked)'
    BY ParkedIsCall DEF CarCallOK
  <2>9. \A n \in CarReqs : \/ carReq'[n] = carReq[n]
                           \/ /\ CarCallOK(carReq[n])'
                              /\ carReq'[n].pc \notin {"find", "update", "create"}
    BY <2>6, <2>8, ParkedIsCall
  <2>10. QED  BY <1>3, <2>6, <2>7, <2>9, GarageStep
<1>6. QED  BY <1>2, <1>4, <1>5 DEF Edits

LEMMA RemoveFromUserStep ==
    ASSUME VehiclesInd, NEW u, NEW g \in UserCars, RemoveFromUser(u, g)
    PROVE  VehiclesInd'
<1>1. PICK row : row = [NoUserCar EXCEPT !.state = "deleted"]
  OBVIOUS
<1>2. row \in GarageRows /\ row.state = "deleted"
  BY <1>1 DEF NoUserCar, GarageRows
<1>3. garage' = [garage EXCEPT ![g] = row] /\ UNCHANGED <<car, carReq, touched, serial, found, edited>>
  BY <1>1 DEF RemoveFromUser
<1>4. GarageInv /\ carReq' \in [CarReqs -> CarCalls]
  BY <1>3 DEF VehiclesInd, GarageInv, CarTypeOK
<1>5. GarageInv'
  BY <1>2, <1>3, <1>4, GarageWritten
<1>6. QED  BY <1>3, <1>4, <1>5, GarageStep

LEMMA RemoveCarBeginsStep ==
    ASSUME VehiclesInd, NEW r \in CarReqs, NEW k \in Cars, RemoveCarBegins(r, k)
    PROVE  VehiclesInd'
<1>1. CarTypeOK /\ GarageInv
  BY DEF VehiclesInd, GarageInv
<1>2. PICK w : w = [Parked EXCEPT !.pc = "delete", !.car = k]
  OBVIOUS
<1>3. w \in CarCalls /\ w.pc = "delete"
  BY <1>2 DEF Parked, CarCalls
<1>4. carReq' = [carReq EXCEPT ![r] = w] /\ UNCHANGED <<car, touched, serial, found, edited>>
  BY <1>2 DEF RemoveCarBegins, CarCall
<1>5. /\ carReq' \in [CarReqs -> CarCalls] /\ carReq'[r] = w
      /\ \A n \in CarReqs : n # r => carReq'[n] = carReq[n]
  BY <1>1, <1>3, <1>4, CarReqWritten
<1>6. PICK row : row = [NoUserCar EXCEPT !.state = "deleted"]
  OBVIOUS
<1>7. row \in GarageRows /\ row.state = "deleted"
  BY <1>6 DEF NoUserCar, GarageRows
<1>8. garage' = [g \in UserCars |-> IF g \in Garage /\ garage[g].car = k THEN row ELSE garage[g]]
  BY <1>6 DEF RemoveCarBegins
<1>9. garage' \in [UserCars -> GarageRows] /\ \A g \in UserCars : garage'[g] \in {row, garage[g]}
  BY <1>1, <1>7, <1>8 DEF CarTypeOK
<1>10. CarTypeOK'
  BY <1>1, <1>4, <1>5, <1>9 DEF CarTypeOK
<1>11. Garage' \subseteq Garage /\ \A g \in Garage' : garage'[g] = garage[g]
  BY <1>7, <1>9 DEF Garage
<1>12. GarageInv'
  BY <1>1, <1>4, <1>10, <1>11 DEF GarageInv, LiveCars
<1>13. CarCallOK(w)'
  BY <1>3 DEF CarCallOK
<1>14. \A n \in CarReqs : \/ carReq'[n] = carReq[n]
                          \/ /\ CarCallOK(carReq[n])'
                             /\ carReq'[n].pc \notin {"find", "update", "create"}
  BY <1>3, <1>5, <1>13
<1>15. QED  BY <1>4, <1>5, <1>12, <1>14, GarageStep
LEMMA UpdateCarStep ==
    ASSUME VehiclesInd, NEW k \in Cars, NEW m \in Models, NEW by \in Makers, UpdateCar(k, m, by)
    PROVE  VehiclesInd'
<1>1. CarTypeOK /\ GarageInv /\ ImportsAddOnly /\ CarCallsOK /\ ImportsAlone
  BY DEF VehiclesInd, GarageInv
<1>2. UNCHANGED <<garage, carReq, touched, serial>> /\ edited' = edited \cup {k} /\ k \in LiveCars
  BY DEF UpdateCar
<1>3. PICK old \in CarRows : old = car[k]
  BY <1>1 DEF CarTypeOK
<1>4. PICK row : row = [old EXCEPT !.model = m, !.by = by]
  OBVIOUS
<1>5. row \in CarRows /\ row.state = "live" /\ row.model = m /\ row.by = by
  BY <1>2, <1>3, <1>4 DEF CarRows, LiveCars
<1>6. car' = [car EXCEPT ![k] = row]
  BY <1>1, <1>3, <1>4 DEF UpdateCar, CarTypeOK
<1>7. car' \in [Cars -> CarRows] /\ car'[k] = row /\ \A j \in Cars \ {k} : car'[j] = car[j]
  BY <1>1, <1>5, <1>6 DEF CarTypeOK
<1>8. LiveCars' = LiveCars /\ CarMoves
  BY <1>2, <1>5, <1>7 DEF LiveCars, CarMoves
<1>9. found' \subseteq found
  BY DEF UpdateCar
<1>10. CarTypeOK'
  BY <1>1, <1>2, <1>7, <1>9 DEF CarTypeOK
<1>11. GarageInv'
  BY <1>1, <1>2, <1>8, <1>10, GarageKept
<1>12. ASSUME NEW x \in found' PROVE CarsOf(x)' # {}
  <2>1. PICK j \in CarsOf(x) : TRUE
    BY <1>1, <1>9, <1>12 DEF ImportsAddOnly
  <2>2. CASE j # k
    <3>1. j \in CarsOf(x)'
      BY <1>7, <1>8, <2>1, <2>2 DEF CarsOf, LiveCars
    <3>2. QED  BY <3>1
  <2>3. CASE j = k
    <3>1. car[k].model = x
      BY <2>1, <2>3 DEF CarsOf
    <3>2. m = x
      BY <1>12, <3>1 DEF UpdateCar
    <3>3. k \in CarsOf(x)'
      BY <1>2, <1>5, <1>7, <1>8, <3>2 DEF CarsOf
    <3>4. QED  BY <3>3
  <2>4. QED  BY <2>2, <2>3
<1>13. ImportsAddOnly'
  BY <1>1, <1>2, <1>12 DEF ImportsAddOnly
<1>14. CarCallsOK'
  BY <1>1, <1>2, <1>8, CarCallKept DEF CarCallsOK
<1>15. \A j \in Cars : \A x : SystemCar(j, x)' => SystemCar(j, x)
  BY <1>2, <1>7 DEF SystemCar, CarsOf, LiveCars
<1>16. ImportsAlone'
  BY <1>1, <1>2, <1>15 DEF ImportsAlone, Importing
<1>17. QED  BY <1>11, <1>13, <1>14, <1>16 DEF VehiclesInd

LEMMA RemovesCarStep ==
    ASSUME VehiclesInd, NEW r \in CarReqs, RemovesCar(r)
    PROVE  VehiclesInd'
<1>1. CarTypeOK /\ GarageInv /\ ImportsAddOnly /\ CarCallsOK /\ ImportsAlone
  BY DEF VehiclesInd, GarageInv
<1>2. PICK k : k = carReq[r].car
  OBVIOUS
<1>3. CarDone(r) /\ UNCHANGED <<garage, touched, serial, edited>>
  BY DEF RemovesCar
<1>4. CASE UNCHANGED <<car, found>>
  BY <1>1, <1>3, <1>4, CarEnds DEF ImportsAddOnly
<1>5. CASE /\ k \in LiveCars /\ ~ Kept(k) /\ found' = found \ {car[k].model}
           /\ car' = [car EXCEPT ![k] = [NoCar EXCEPT !.state = "deleted"]]
  <2>1. PICK row : row = [NoCar EXCEPT !.state = "deleted"]
    OBVIOUS
  <2>2. row \in CarRows /\ row.state = "deleted"
    BY <2>1 DEF NoCar, CarRows, Makers
  <2>3. car' = [car EXCEPT ![k] = row] /\ k \in Cars
    BY <1>5, <2>1 DEF LiveCars
  <2>4. car' \in [Cars -> CarRows] /\ car'[k] = row /\ \A j \in Cars \ {k} : car'[j] = car[j]
    BY <1>1, <2>2, <2>3 DEF CarTypeOK
  <2>5. /\ carReq' \in [CarReqs -> CarCalls] /\ carReq'[r] = Parked
        /\ \A n \in CarReqs : n # r => carReq'[n] = carReq[n]
    BY <1>1, <1>3, ParkedIsCall, CarReqWritten DEF CarDone
  <2>6. CarTypeOK'
    BY <1>1, <1>3, <1>5, <2>4, <2>5 DEF CarTypeOK
  <2>7. LiveCars' = LiveCars \ {k} /\ CarMoves
    BY <2>2, <2>4 DEF LiveCars, CarMoves
  <2>8. GarageInv'
    BY <1>1, <1>3, <1>5, <2>6, <2>7 DEF GarageInv, Garage, Kept
  <2>9. ASSUME NEW x \in found' PROVE CarsOf(x)' # {}
    <3>1. x \in found /\ x # car[k].model
      BY <1>5, <2>9
    <3>2. PICK j \in CarsOf(x) : TRUE
      BY <1>1, <3>1 DEF ImportsAddOnly
    <3>3. j \in CarsOf(x)'
      BY <2>4, <2>7, <3>1, <3>2 DEF CarsOf, LiveCars
    <3>4. QED  BY <3>3
  <2>10. ImportsAddOnly'
    BY <1>1, <1>3, <2>9 DEF ImportsAddOnly
  <2>11. CarCallOK(Parked)'
    BY ParkedIsCall DEF CarCallOK
  <2>12. CarCallsOK'
    BY <1>1, <1>3, <2>5, <2>7, <2>11, CarCallsKept
  <2>13. \A j \in Cars : \A x : SystemCar(j, x)' => SystemCar(j, x)
    BY <1>3, <2>4, <2>7 DEF SystemCar, CarsOf, LiveCars
  <2>14. ImportsAlone'
    BY <1>1, <1>3, <2>5, <2>13, ParkedIsCall, AloneKept
  <2>15. QED  BY <2>8, <2>10, <2>12, <2>14 DEF VehiclesInd
<1>6. QED  BY <1>2, <1>4, <1>5 DEF RemovesCar

\* A person begins to add a car or to edit an entry.
LEMMA PersonStep ==
    ASSUME VehiclesInd, NEW r \in CarReqs, NEW u \in Drivers, NEW p \in Plates,
           \/ \E m \in Models : AddBeginsCar(r, u, p, m)
           \/ \E k \in Cars : AddFromCatalogue(r, u, p, k)
           \/ \E k \in Cars, g \in UserCars : EditBegins(r, u, g, p, k)
    PROVE  VehiclesInd'
<1>1. UNCHANGED <<car, garage, touched, serial, found, edited>>
  BY DEF AddBeginsCar, AddFromCatalogue, EditBegins
<1>2. touched \subseteq edited /\ found \subseteq Models /\ serial \in BOOLEAN
  BY DEF VehiclesInd, GarageInv, CarTypeOK, ImportsAddOnly
<1>3. ASSUME NEW m \in Models, AddBeginsCar(r, u, p, m) PROVE VehiclesInd'
  <2>1. PICK w : w = [Parked EXCEPT !.pc = "own", !.user = u, !.plate = p, !.model = m]
    OBVIOUS
  <2>2. w \in CarCalls /\ w.pc = "own" /\ w.user = u /\ w.model = m
    BY <2>1 DEF Parked, CarCalls
  <2>3. carReq' = [carReq EXCEPT ![r] = w] /\ CarCallOK(w)
    BY <1>3, <2>1, <2>2 DEF AddBeginsCar, CarCall, CarCallOK
  <2>4. QED  BY <1>1, <1>2, <2>2, <2>3, CarRequestStep
<1>4. ASSUME NEW k \in Cars, AddFromCatalogue(r, u, p, k) PROVE VehiclesInd'
  <2>1. PICK w : w = [Parked EXCEPT !.pc = "join", !.user = u, !.plate = p, !.car = k]
    OBVIOUS
  <2>2. w \in CarCalls /\ w.pc = "join" /\ w.user = u
    BY <2>1 DEF Parked, CarCalls
  <2>3. carReq' = [carReq EXCEPT ![r] = w] /\ CarCallOK(w)
    BY <1>4, <2>1, <2>2 DEF AddFromCatalogue, CarCall, CarCallOK
  <2>4. QED  BY <1>1, <1>2, <2>2, <2>3, CarRequestStep
<1>5. ASSUME NEW k \in Cars, NEW g \in UserCars, EditBegins(r, u, g, p, k) PROVE VehiclesInd'
  <2>1. PICK w : w = [Parked EXCEPT !.pc = "edit", !.user = u, !.plate = p, !.car = k, !.row = g]
    OBVIOUS
  <2>2. w \in CarCalls /\ w.pc = "edit"
    BY <2>1 DEF Parked, CarCalls
  <2>3. carReq' = [carReq EXCEPT ![r] = w] /\ CarCallOK(w)
    BY <1>5, <2>1, <2>2 DEF EditBegins, CarCall, CarCallOK
  <2>4. QED  BY <1>1, <1>2, <2>2, <2>3, CarRequestStep
<1>6. QED  BY <1>3, <1>4, <1>5

LEMMA VehiclesInvariant == CarSpec => []VehiclesInd
<1>1. VehiclesInd /\ [CarNext]_carVars => VehiclesInd'
  <2> SUFFICES ASSUME VehiclesInd, [CarNext]_carVars PROVE VehiclesInd'
    OBVIOUS
  <2>1. ASSUME NEW r \in CarReqs, CarCutOff(r) PROVE VehiclesInd'
    BY <2>1, CarEnds DEF CarCutOff, VehiclesInd, ImportsAddOnly
  <2>2. CASE UNCHANGED carVars
    <3>1. carReq' \in [CarReqs -> CarCalls] /\ GarageInv'
      BY <2>2 DEF carVars, VehiclesInd, GarageInv, CarTypeOK, Garage, LiveCars
    <3>2. QED  BY <2>2, <3>1, GarageStep DEF carVars
  <2>3. ASSUME NEW r \in CarReqs,
               ImportBegins(r) \/ ImportUpdates(r) \/ RemovesCar(r) \/ Edits(r)
        PROVE  VehiclesInd'
    BY <2>3, ImportBeginsStep, ImportUpdatesStep, RemovesCarStep, EditsStep
  <2>4. ASSUME NEW r \in CarReqs, NEW k \in Cars,
               ImportCreates(r, k) \/ CreatesOwn(r, k) \/ RemoveCarBegins(r, k)
        PROVE  VehiclesInd'
    BY <2>4, ImportCreatesStep, CreatesOwnStep, RemoveCarBeginsStep
  <2>5. ASSUME NEW k \in Cars, NEW m \in Models,
               CreateCar(k, m) \/ \E by \in Makers : UpdateCar(k, m, by)
        PROVE  VehiclesInd'
    BY <2>5, CreateCarStep, UpdateCarStep
  <2>6. QED
    BY <2>1, <2>2, <2>3, <2>4, <2>5, ImportFindsStep, PersonStep, JoinsStep, RemoveFromUserStep
       DEF CarNext
<1>2. QED  BY <1>1, CarsStart, PTL DEF CarSpec

\* Plates are of one car each, and every car of a garage exists, whatever additions,
\* removals and imports overlap.
THEOREM GaragesFit == CarSpec => []GarageInv
<1>1. VehiclesInd => GarageInv
  BY DEF VehiclesInd
<1>2. QED  BY <1>1, VehiclesInvariant, PTL

\* Imports leave alone what people entered and keep listed what they came by; one at a
\* time, they list a model once.
THEOREM ImportsAddOnce == CarSpec => []ImportsInv
<1>1. VehiclesInd => ImportsInv
  <2> SUFFICES ASSUME VehiclesInd PROVE ImportsInv
    OBVIOUS
  <2>1. ListedOnce
    BY DEF VehiclesInd, ImportsAlone, ListedOnce, SystemCar, CarsOf, LiveCars
  <2>2. QED  BY <2>1 DEF VehiclesInd, ImportsInv
<1>2. QED  BY <1>1, VehiclesInvariant, PTL
=============================================================================
