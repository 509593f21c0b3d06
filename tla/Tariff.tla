------------------------------- MODULE Tariff --------------------------------
(***************************************************************************)
(* What a charge costs while prices change.                                *)
(* Source: modules/ocpp/ocpp.service.ts 214-319 and the prices that        *)
(* modules/connector and station-pricing let administrators write.         *)
(*                                                                         *)
(* MeterValues and StopTransaction read the session with the prices of its *)
(* connector and station, and write energy and cost in a later statement.  *)
(* The calls of one session run side by side.                              *)
(***************************************************************************)
EXTENDS Integers

CONSTANTS Prices,         \* prices that may be written
          Standard,       \* the price where there is none (2500)
          MaxReading,     \* bound on readings of the meter
          BillReqs

ASSUME PricesAssumption == Prices \subseteq Int /\ Standard \in Int \ {0}
ASSUME ReadingAssumption == MaxReading \in Nat

VARIABLES connPrice,      \* Connector.pricePerKwh; 0 also where there is none
          stationPrice,   \* StationPricing.pricePerKwh, likewise
          bill,           \* the session: energy, cost, and whether it is over
          billReq,
          inForce         \* effective prices since the session began (history)

tariffVars == <<connPrice, stationPrice, bill, billReq, inForce>>

Readings == 0 .. MaxReading
Quiet == [pc |-> "idle", reading |-> 0, price |-> 0]

\* connector.pricePerKwh || station.pricing.pricePerKwh || 2500
Effective(c, s) == IF c # 0 THEN c ELSE IF s # 0 THEN s ELSE Standard

InForce(p) == p \in inForce

TariffTypeOK ==
    /\ connPrice \in Prices \cup {0}
    /\ stationPrice \in Prices \cup {0}
    /\ bill \in [energy : Readings, cost : Int, over : BOOLEAN]
    /\ billReq \in [BillReqs -> [pc : {"idle", "meter", "stop"}, reading : Readings, price : Int]]
    /\ inForce \subseteq Int

TariffInit ==
    /\ connPrice = 0
    /\ stationPrice = 0
    /\ bill = [energy |-> 0, cost |-> 0, over |-> FALSE]
    /\ billReq = [r \in BillReqs |-> Quiet]
    /\ inForce = {Standard}

\* Removing a price is writing 0 here.
SetConnectorPrice(p) ==
    /\ connPrice' = p
    /\ inForce' = inForce \cup {Effective(p, stationPrice)}
    /\ UNCHANGED <<stationPrice, bill, billReq>>

SetStationPrice(p) ==
    /\ stationPrice' = p
    /\ inForce' = inForce \cup {Effective(connPrice, p)}
    /\ UNCHANGED <<connPrice, bill, billReq>>

\* A call arrives and its first statement reads the prices.  MeterValues without the
\* energy register reads 0.
CallReads(r, pc, e) ==
    /\ billReq[r] = Quiet
    /\ billReq' = [billReq EXCEPT ![r] =
           [pc |-> pc, reading |-> e, price |-> Effective(connPrice, stationPrice)]]
    /\ UNCHANGED <<connPrice, stationPrice, bill, inForce>>

\* The cost is that of the energy stored before.
CostOf_Stored(e, p) == bill.energy * p

CostOf(e, p) == e * p

MeterWrites(r) ==
    LET q == billReq[r] IN
    /\ q.pc = "meter"
    /\ bill' = [bill EXCEPT !.energy = q.reading, !.cost = CostOf(q.reading, q.price)]
    /\ billReq' = [billReq EXCEPT ![r] = Quiet]
    /\ UNCHANGED <<connPrice, stationPrice, inForce>>

\* Energy and cost are each written only if positive.
StopWrites(r) ==
    LET q == billReq[r]
        c == CostOf(q.reading, q.price) IN
    /\ q.pc = "stop"
    /\ bill' = [energy |-> IF q.reading > 0 THEN q.reading ELSE bill.energy,
                cost |-> IF c > 0 THEN c ELSE bill.cost,
                over |-> TRUE]
    /\ billReq' = [billReq EXCEPT ![r] = Quiet]
    /\ UNCHANGED <<connPrice, stationPrice, inForce>>

BillCutOff(r) ==
    /\ billReq[r] # Quiet
    /\ billReq' = [billReq EXCEPT ![r] = Quiet]
    /\ UNCHANGED <<connPrice, stationPrice, bill, inForce>>

TariffNext ==
    \/ \E p \in Prices \cup {0} : SetConnectorPrice(p) \/ SetStationPrice(p)
    \/ \E r \in BillReqs, pc \in {"meter", "stop"}, e \in Readings : CallReads(r, pc, e)
    \/ \E r \in BillReqs : MeterWrites(r) \/ StopWrites(r) \/ BillCutOff(r)

TariffSpec == TariffInit /\ [][TariffNext]_tariffVars

-----------------------------------------------------------------------------

TariffCallsOK == \A r \in BillReqs : billReq[r].pc # "idle" => InForce(billReq[r].price)

\* However readings, stops and edits of prices overlap, the cost of a session is its
\* energy at one price that was in force since it began (ocpp.service.ts:249-259,
\* 295-308), provided that no price is negative: a stop at a negative price would
\* store the energy and keep the cost.  A price of 0 counts as none.
CostInForce ==
    (\A p \in inForce : p > 0) => \E p \in inForce : bill.cost = bill.energy * p

TariffInv == TariffTypeOK /\ TariffCallsOK /\ CostInForce
=============================================================================
