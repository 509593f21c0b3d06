------------------------------ MODULE Vehicles -------------------------------
(***************************************************************************)
(* The catalogue of car models and the cars of users.                      *)
(* Source: modules/vehicle/vehicle.service.ts, vehicle.cron.ts and the     *)
(* models Car and UserCar.                                                 *)
(*                                                                         *)
(* The import walks through the models of ev-cars.json, one statement      *)
(* after the other; the cron job and an administrator may start it at the  *)
(* same time.  A car of a user is added, and a catalogue car removed, in   *)
(* several statements too.  VINs behave as plates do and are left out.     *)
(***************************************************************************)
EXTENDS Naturals

CONSTANTS Models,             \* brand and model of the cars in the file, and others
          Listed,             \* those in the file
          Cars, UserCars,     \* rows of Car and UserCar, ever
          Drivers,            \* users
          Plates, CarReqs, Void

ASSUME ListedAssumption == Listed \subseteq Models
ASSUME VoidAssumption == Void \notin Models \cup Cars \cup UserCars \cup Drivers \cup Plates

VARIABLES car,        \* Car: its model and who put it there
          garage,     \* UserCar
          carReq,
          touched,    \* cars of people that an import wrote to (history)
          serial,     \* no two imports were under way at once so far (history)
          edited,     \* cars whose model or maker was edited (history)
          found       \* models an import came by and that nobody removed since (history)

carVars == <<car, garage, carReq, touched, serial, edited, found>>

Makers == {"SYSTEM", "ADMIN", "USER"}
CarRows == [state : {"unused", "live", "deleted"}, model : Models \cup {Void},
            by : Makers]
GarageRows == [state : {"unused", "live", "deleted"}, user : Drivers \cup {Void},
               car : Cars \cup {Void}, plate : Plates \cup {Void}]
CarCalls == [pc : {"idle", "find", "update", "create", "own", "join", "edit", "delete"},
             left : SUBSET Models, model : Models \cup {Void}, car : Cars \cup {Void},
             user : Drivers \cup {Void}, plate : Plates \cup {Void}, row : UserCars \cup {Void}]
Parked == [pc |-> "idle", left |-> {}, model |-> Void, car |-> Void, user |-> Void,
           plate |-> Void, row |-> Void]

NoCar == [state |-> "unused", model |-> Void, by |-> "USER"]
NoUserCar == [state |-> "unused", user |-> Void, car |-> Void, plate |-> Void]

CarTypeOK ==
    /\ car \in [Cars -> CarRows]
    /\ garage \in [UserCars -> GarageRows]
    /\ carReq \in [CarReqs -> CarCalls]
    /\ touched \subseteq Cars
    /\ serial \in BOOLEAN
    /\ edited \subseteq Cars
    /\ found \subseteq Models

CarInit ==
    /\ car = [k \in Cars |-> NoCar]
    /\ garage = [g \in UserCars |-> NoUserCar]
    /\ carReq = [r \in CarReqs |-> Parked]
    /\ touched = {}
    /\ serial = TRUE
    /\ edited = {}
    /\ found = {}

LiveCars == {k \in Cars : car[k].state = "live"}
CarsOf(m) == {k \in LiveCars : car[k].model = m}
Garage == {g \in UserCars : garage[g].state = "live"}

CarCall(r, call) == carReq[r] = Parked /\ carReq' = [carReq EXCEPT ![r] = call]

CarDone(r) == carReq' = [carReq EXCEPT ![r] = Parked]

Inserted(k, m, by) == [car EXCEPT ![k] = [state |-> "live", model |-> m, by |-> by]]

-----------------------------------------------------------------------------
(* syncExternal.                                                           *)

Importing == {r \in CarReqs : carReq[r].pc \in {"find", "update", "create"}}

ImportBegins(r) ==
    /\ Listed # {}
    /\ CarCall(r, [Parked EXCEPT !.pc = "find", !.left = Listed])
    /\ serial' = (serial /\ Importing = {})
    /\ UNCHANGED <<car, garage, touched, found, edited>>

\* On to the next model.
Continues(r) ==
    IF carReq[r].left = {} THEN CarDone(r)
    ELSE carReq' = [carReq EXCEPT ![r].pc = "find", ![r].model = Void, ![r].car = Void]

\* Whoever put the car there, it is updated.
Skips_Never(k) == FALSE

Skips(k) == car[k].by # "SYSTEM"

\* brand and model
Matches(m) == CarsOf(m)

\* findFirst returns any of the matching cars.
ImportFinds(r, m) ==
    LET rest == carReq[r].left \ {m} IN
    /\ carReq[r].pc = "find"
    /\ m \in carReq[r].left
    /\ \/ /\ Matches(m) = {}
          /\ carReq' = [carReq EXCEPT ![r].pc = "create", ![r].model = m, ![r].left = rest]
          /\ UNCHANGED found
       \/ \E k \in Matches(m) :
              /\ found' = found \cup {m}
              /\ IF Skips(k)
                 THEN IF rest = {} THEN CarDone(r)
                      ELSE carReq' = [carReq EXCEPT ![r].left = rest]
                 ELSE carReq' = [carReq EXCEPT ![r].pc = "update", ![r].model = m,
                                               ![r].car = k, ![r].left = rest]
    /\ UNCHANGED <<car, garage, touched, serial, edited>>

\* If the car is gone by now, the import fails as a whole.
ImportUpdates(r) ==
    LET k == carReq[r].car IN
    /\ carReq[r].pc = "update"
    /\ IF k \in LiveCars THEN Continues(r) ELSE CarDone(r)
    /\ touched' = IF k \in LiveCars /\ car[k].by # "SYSTEM" THEN touched \cup {k} ELSE touched
    /\ UNCHANGED <<car, garage, serial, found, edited>>

ImportCreates(r, k) ==
    /\ carReq[r].pc = "create"
    /\ car[k].state = "unused"
    /\ car' = Inserted(k, carReq[r].model, "SYSTEM")
    /\ found' = found \cup {carReq[r].model}
    /\ Continues(r)
    /\ UNCHANGED <<garage, touched, serial, edited>>

-----------------------------------------------------------------------------
(* create, update and remove of catalogue cars.                            *)

CreateCar(k, m) ==
    /\ car[k].state = "unused"
    /\ car' = Inserted(k, m, "ADMIN")
    /\ UNCHANGED <<garage, carReq, touched, serial, found, edited>>

\* The model may be another one afterwards, and so may createdByType.
UpdateCar(k, m, by) ==
    /\ k \in LiveCars
    /\ m # car[k].model \/ by # car[k].by
    /\ car' = [car EXCEPT ![k].model = m, ![k].by = by]
    /\ found' = IF m = car[k].model THEN found ELSE found \ {car[k].model}
    /\ edited' = edited \cup {k}
    /\ UNCHANGED <<garage, carReq, touched, serial>>

\* First the owners' rows, then the car.
RemoveCarBegins(r, k) ==
    /\ k \in LiveCars
    /\ CarCall(r, [Parked EXCEPT !.pc = "delete", !.car = k])
    /\ garage' = [g \in UserCars |->
           IF g \in Garage /\ garage[g].car = k THEN [NoUserCar EXCEPT !.state = "deleted"]
           ELSE garage[g]]
    /\ UNCHANGED <<car, touched, serial, found, edited>>

\* The foreign key is RESTRICT: a car that got an owner meanwhile stays.
Kept_Never(k) == FALSE

Kept(k) == \E g \in Garage : garage[g].car = k

RemovesCar(r) ==
    LET k == carReq[r].car IN
    /\ carReq[r].pc = "delete"
    /\ IF k \in LiveCars /\ ~ Kept(k)
       THEN /\ car' = [car EXCEPT ![k] = [NoCar EXCEPT !.state = "deleted"]]
            /\ found' = found \ {car[k].model}
       ELSE UNCHANGED <<car, found>>
    /\ CarDone(r)
    /\ UNCHANGED <<garage, touched, serial, edited>>

-----------------------------------------------------------------------------
(* addToUser, updateUserCar and removeFromUser.                            *)

Plated(p) == {g \in Garage : garage[g].plate = p}

\* The plate is not taken; a custom car is created, a catalogue car looked up.
AddBeginsCar(r, u, p, m) ==
    /\ Plated(p) = {}
    /\ CarCall(r, [Parked EXCEPT !.pc = "own", !.user = u, !.plate = p, !.model = m])
    /\ UNCHANGED <<car, garage, touched, serial, found, edited>>

CreatesOwn(r, k) ==
    /\ carReq[r].pc = "own"
    /\ car[k].state = "unused"
    /\ car' = Inserted(k, carReq[r].model, "USER")
    /\ carReq' = [carReq EXCEPT ![r].pc = "join", ![r].car = k]
    /\ UNCHANGED <<garage, touched, serial, found, edited>>

AddFromCatalogue(r, u, p, k) ==
    /\ Plated(p) = {}
    /\ k \in LiveCars
    /\ CarCall(r, [Parked EXCEPT !.pc = "join", !.user = u, !.plate = p, !.car = k])
    /\ UNCHANGED <<car, garage, touched, serial, found, edited>>

\* Plates are unique and cars must exist; otherwise a car created for this stays
\* behind without an owner.
Joins(r, g) ==
    LET q == carReq[r] IN
    /\ q.pc = "join"
    /\ garage[g].state = "unused"
    /\ garage' = IF Plated(q.plate) = {} /\ q.car \in LiveCars
                 THEN [garage EXCEPT ![g] =
                          [state |-> "live", user |-> q.user, car |-> q.car, plate |-> q.plate]]
                 ELSE garage
    /\ CarDone(r)
    /\ UNCHANGED <<car, touched, serial, found, edited>>

\* updateUserCar with another plate and another car, both checked before.
EditBegins(r, u, g, p, k) ==
    /\ g \in Garage
    /\ garage[g].user = u
    /\ p = garage[g].plate \/ Plated(p) = {}
    /\ k \in LiveCars
    /\ CarCall(r, [Parked EXCEPT !.pc = "edit", !.user = u, !.plate = p, !.car = k, !.row = g])
    /\ UNCHANGED <<car, garage, touched, serial, found, edited>>

Edits(r) ==
    LET q == carReq[r] IN
    /\ q.pc = "edit"
    /\ garage' = IF q.row \in Garage /\ Plated(q.plate) \subseteq {q.row} /\ q.car \in LiveCars
                 THEN [garage EXCEPT ![q.row].plate = q.plate, ![q.row].car = q.car]
                 ELSE garage
    /\ CarDone(r)
    /\ UNCHANGED <<car, touched, serial, found, edited>>

RemoveFromUser(u, g) ==
    /\ g \in Garage
    /\ garage[g].user = u
    /\ garage' = [garage EXCEPT ![g] = [NoUserCar EXCEPT !.state = "deleted"]]
    /\ UNCHANGED <<car, carReq, touched, serial, found, edited>>

\* A statement fails, or the process stops.
CarCutOff(r) ==
    /\ carReq[r] # Parked
    /\ CarDone(r)
    /\ UNCHANGED <<car, garage, touched, serial, found, edited>>

CarNext ==
    \/ \E r \in CarReqs : ImportBegins(r) \/ ImportUpdates(r) \/ RemovesCar(r) \/ Edits(r) \/ CarCutOff(r)
    \/ \E r \in CarReqs, m \in Models : ImportFinds(r, m)
    \/ \E r \in CarReqs, k \in Cars : ImportCreates(r, k) \/ CreatesOwn(r, k) \/ RemoveCarBegins(r, k)
    \/ \E k \in Cars, m \in Models : CreateCar(k, m) \/ \E by \in Makers : UpdateCar(k, m, by)
    \/ \E r \in CarReqs, u \in Drivers, p \in Plates :
           \/ \E m \in Models : AddBeginsCar(r, u, p, m)
           \/ \E k \in Cars : AddFromCatalogue(r, u, p, k)
           \/ \E k \in Cars, g \in UserCars : EditBegins(r, u, g, p, k)
    \/ \E r \in CarReqs, g \in UserCars : Joins(r, g)
    \/ \E u \in Drivers, g \in UserCars : RemoveFromUser(u, g)

CarSpec == CarInit /\ [][CarNext]_carVars

-----------------------------------------------------------------------------

\* Plates are of one car each, and every car in a garage is one of the catalogue:
\* also when a catalogue car is removed in two statements while it gets a new owner
\* (vehicle.service.ts:45-46, 147-153).
GarageInv ==
    /\ CarTypeOK
    /\ \A g \in Garage : garage[g].user \in Drivers /\ garage[g].car \in LiveCars
    /\ \A g, h \in Garage : garage[g].plate = garage[h].plate => g = h

\* Imports leave alone what people entered (vehicle.service.ts:276), unless an
\* administrator edits a car while it is being updated; and they keep every model
\* they came by listed until somebody removes or renames a car of it.
ImportsAddOnly ==
    /\ touched \subseteq edited
    /\ \A m \in found : CarsOf(m) # {}

\* As long as the nightly import and that of an administrator do not overlap, a model
\* is imported once, cars that were edited aside (vehicle.service.ts:268-290).
ListedOnce ==
    serial => \A m \in Models : \A k, n \in CarsOf(m) \ edited :
                  car[k].by = "SYSTEM" /\ car[n].by = "SYSTEM" => k = n

\* Whatever overlaps, imports leave alone, keep and list once what they should.
ImportsInv == ImportsAddOnly /\ ListedOnce
=============================================================================
