# charge-one-backend: specifications and proofs

TLA+ models of the NestJS backend of an EV charging network, their TLC runs and the theorems that
TLAPS proves about them. Paths are relative to the repository; `ocpp.service.ts:184` names a line
of `src/modules/ocpp/ocpp.service.ts`. `PROJECT.json` holds the same in machine-readable form: the
map from definitions to source lines, the runs, mutants, hazards, findings and theorems.

    tlc -workers 2 -config billing_serial.cfg MCClickBilling     # a run
    tlapm ClickBillingProofs.tla                                 # a proof

## The system

One Node process serves three kinds of peers: apps and administrators over REST (and socket.io
events), charge points over OCPP 1.6 WebSockets, and Click, the payment provider, over webhooks.
State is in PostgreSQL (through Prisma) but for two maps in memory: the sockets of stations
(`OcppServer.activeConnections`) and the login rate limits (`AuthService.loginRateMap`).

| Component | State | Operations | Interacts with | Hard behaviour | Correct when |
| --- | --- | --- | --- | --- | --- |
| **Click billing** (`modules/click`) | `WalletTransaction`, `ClickTransaction` | invoice, Prepare, Complete, pay with card | Click (webhooks in, fetch out), wallets | webhooks repeated and overlapping, answers lost, two-step updates, crashes | paid means credited, once; unpaid means not credited |
| **Saved cards** (`click.service.ts:260-449`) | `SavedCard` | token, verify, pay, delete | Click, billing | two requests for one card wait for Click; deletion meanwhile | a card is charged only for who proved it |
| **Wallet** (`modules/wallet`) | `Wallet.balance`, `WalletTransaction` | first read, deposit, refund | Click billing (same rows) | read-modify-write against increments | balance = sum of SUCCESS transactions |
| **OCPP server** (`ocpp.server.ts`) | map station → socket | connection, close, dispatch of calls, remote command | handlers, stations, remote start/stop | half-open sockets, early reconnects, unawaited queries, restart | a connected station is reachable, commands go to its newest socket |
| **OCPP handlers** (`ocpp.service.ts`) | `ChargingStation.isOnline`, `Connector.status`, `ChargingSession` | Boot, Status, Start, Meter, Stop | server, gateway, database | handlers of one socket run side by side; errors swallowed; prices change | see sessions, status; cost at one price |
| **Charging sessions** (`modules/charging-session`) | `ChargingSession` | create, edit, remove, remote start and stop | OCPP server, notifications | pre-created session races with StartTransaction | a charge has one session, its own; finished is final |
| **Connectors and status log** | `Connector`, `ConnectorStatusLog` | status, edit, remove, QR code | StatusNotification | three writes without a transaction | row, log and event tell the same |
| **App gateway** (`modules/socket`) | – | two broadcasts | handlers | – | events follow the log |
| **Authentication** (`modules/auth`) | `User`, `OtpCode`, `Session`, rate map | register, verify, refresh, logout, administrators | SMS | check-then-act on codes and sessions, limits | a code is tried and accepted within limits; a login has one token and never revives |
| **Notifications** | `Notification`, `UserDevice` | devices, send, broadcast, mark read | FCM | devices change hands between read, store and push | pushes and stored notifications go to the same people |
| **Vehicles** | `Car`, `UserCar` | catalogue, cars of users, nightly import | seed file | two-step writes, import twice at once | imports leave people's entries alone and add once |
| **Stations, connectors, prices, likes** | their tables | create, update, delete, QR code, toggle | each other through foreign keys | read-then-write toggles and codes | a printed code resolves; users find what they were told |
| **Discounts** | `Discount` | create, update, delete | stations (CASCADE) | partial updates | dates in order, one kind, one per station |
| **Legal texts** | `LegalDocument`, `LegalTranslation` | CRUD, public read, seed | seed | two-statement read and replacement | a text in force is found |
| **Seed** (`prisma/seed.ts`) | operators, types, connectors | upserts in a row | administrators' rows | stops anywhere, ids of two sources | connectors have the types meant |
| **Lists** (16 endpoints) | – | page by page | all tables | number and rows in two statements | no row missed or repeated |
| **Routing** (controllers, guards) | – | dispatch | all | order of declaration | each route serves |
| Payments, payouts, users, shell, storage, cron | their tables or none | single statements | – | – | – |

## Modules

| Module | Models | State ↔ code |
| --- | --- | --- |
| `WalletLedger` | what a wallet promises: open, fail, credit once | abstract |
| `ClickBilling` | `click.service.ts` (webhooks and payments), `click.controller.ts`, `wallet.service.ts` | `wallets`, `balance` = `Wallet`; `tx` = `WalletTransaction`; `clickTx` = `ClickTransaction`; `req` = requests in flight; `click`, `charged` = Click's side |
| `SavedCards` | `click.service.ts` 260–449 | `card` = `SavedCard`; `number` = Click's tokens; `proved`, `charged` = history |
| `StationRegistry` | `ocpp.server.ts` connection and close, `ocpp.service.ts` connected, disconnected, boot | `active` = `activeConnections`; `sock` = sockets with `readyState`; `isOnline`; `updates` = queries issued and not yet in effect |
| `ChargingSession` | `ocpp.service.ts` Start, Meter, Stop; `charging-session.service.ts` | `session` = the table; `req` = calls in flight; `charge`, `meter` = stations; `told` = notifications sent |
| `ConnectorStatus` | `handleStatusNotification`, `mapStatus`; connector and log services | `connector`, `log` = tables; `shown` = last event; `held` = history of the row |
| `Tariff` | the price and cost of Meter and Stop, edits of prices | `connPrice`, `stationPrice`, `bill`; `inForce` = history |
| `LoginChain` | what a login promises: it lives until it ends | abstract |
| `Authentication` | `otp.service.ts`, `auth.service.ts` (routed operations) | `account` = `User`; `otp` = `OtpCode`; `session` = `Session` |
| `PushDevices` | `notification.service.ts` | `device` = `UserDevice`; `inbox` = `Notification`; `known` = tokens Firebase accepts |
| `StationCatalogue` | station, connector, pricing and like services | `station`, `priced`, `conn`, `like` = tables; `told`, `printed` = answers |
| `Vehicles` | `vehicle.service.ts`, `vehicle.cron.ts` | `car` = `Car`; `garage` = `UserCar` |
| `Discounts` | `discount.service.ts` and its DTO checks | `offer` = `Discount` |
| `LegalDocuments` | `legal.service.ts`, end of `seed.ts` | `docs` = both tables; `ask` = public readers |
| `Seeding` | `seed.ts`; creation of operators and types | `operators`, `types` by id; `drawnOps`, `drawnTypes` = sequences; `at` = the statement the script is at |
| `Listing` | the list methods of all services | `key` = the sort column of rows; `walk` = a client paging |
| `Dispatch` | all controllers, order of modules, guards, pipes | `Routes` = the table Express builds; `hit` = a request |
| `MC*` | constants and symmetry for TLC; the last three compose parts | `part` |
| `ClickBillingProofs`, `ClickLedgerProofs`, `StationRegistryProofs`, `ChargingSessionProofs`, `ConnectorStatusProofs`, `AccountsProofs`, `CatalogueProofs`, `ServiceProofs` | theorems | – |

`ClickBilling` contains the wallet, so that webhooks and deposits meet on one balance, and implements
`WalletLedger`; `Authentication` implements `LoginChain`. `SavedCards` and `ClickBilling` split a
payment with a saved card at the charge: up to it nothing touches a wallet, after it nothing
touches the card. `StationCatalogue` and `ConnectorStatus` both have the connector, as columns that
no statement reads and writes together. `Tariff` takes the calls of one session that
`ChargingSession` tells apart, with the price that they read.

`MCAccounts`, `MCCatalogue` and `MCService` check several parts in one run. Parts share no variable
and no operation; `part` is drawn in `Init` and says which of them moves, so that TLC explores
their sum and not their product.

### Conventions

*Interleaving.* Node runs one callback at a time, so code between two awaits is atomic and anything
may happen at an await. A request in flight has a slot in `req`: its `pc` names the statement it
comes to next, the other fields are what it carries and has read. A handler is one action per
statement that writes or decides; reads of rows that nothing else changes meanwhile are merged with
the next step. All refusals of a handler that write nothing are one action. An interactive
`$transaction` is one action where it only writes, and a snapshot and a commit where it reads
(`deposit`, `refundAdmin`).

*Data.* Amounts are formal sums: `balance[u][t]` counts how often the amount of `t` was added to the
wallet of `u`, which hides neither a lost nor a double credit and needs no arithmetic. The signature,
amount and id checks of a webhook are one bit of the payment (`valid`). Energy is the register of
the connector; cost, always energy times a price, is left out. Times are left out: where the code
orders by them it mixes clocks, so the choice is open (`Candidates`).

*Peers.* Click, stations and browsers are not in the repository. They are modelled from the calls
the code serves, and do what a peer may do: repeat what was not answered, lose answers, stay
silent. Their actions are marked external in the map.

*Disciplines.* The code relies on an orderly environment that it does not enforce: calls about one
thing one at a time, a connection back only after the old one closed, queries in effect in the order
issued, no statement failing. Most runs allow every disorder, and a history variable tells where
none happened. The invariants that survive any disorder are stated without it, the others for the
things it names. No action looks at these variables.

| Variable | Module | Names |
| --- | --- | --- |
| `apart` | `ChargingSession`, `StationCatalogue` | connectors whose calls, or whose QR codes' generations, never overlapped |
| `exempt` | `ChargingSession` | sessions that an administrator wrote, or whose id, drawn at random, a rejected charge was given |
| `steady` | `StationRegistry` | stations that never reconnected early and whose queries kept their order |
| `steady` | `ConnectorStatus` | connectors whose latest notification nothing disturbed |
| `alone`, `calm` | `Authentication` | codes that no two verifications, phones that no two registrations were at at once |
| `crossed` | `PushDevices` | devices registered between the two statements of a removal |
| `serial`, `edited` | `Vehicles` | whether imports ran one at a time; cars an administrator edited |
| `switched`, `redated` | `Discounts` | discounts given the other kind, or one date alone |
| `lost` | `LegalDocuments` | texts taken away |
| `tidy` | `Seeding` | whether the list of types was first written in one go and not edited |

In ClickBilling the discipline is a constant, `Overlap` (may two webhooks of one transaction be in
flight), because the refinement of `WalletLedger` holds only without it.

*Looks and writes.* In the parts behind one MC module an operation that looks a row up and then writes
it by a statement that throws if the row is gone, or changed in the one column looked at, is one
step: nothing can come between that the statement does not notice. Where it would not notice (a
QR code drawn meanwhile, a like read as absent, a device that changed hands) the look and the
write are two.

*Variants.* An operator whose name has an underscore (`MayComplete_Always`) is a plausible defect of
the operator without it. No specification uses it. `PROJECT.json` pairs every property with a variant
that must break it.

## Runs

### Billing (`MCClickBilling`)

| Run | Checks | Shows |
| --- | --- | --- |
| `billing_serial` | `SerialBillingInv`, `ExactBalance`, `TablesAgree`, `SettledForever`, `LedgerSpec` | one webhook at a time per transaction: balances exact, tables agree, ClickBilling implements WalletLedger, over a restart |
| `billing_overlap` | `BillingInv`, `NoLostCredit`, `NoUnpaidCredit`, `OnePaymentPerInvoice` | webhooks overlapping at will: nothing lost, nothing unpaid, one payment per invoice |
| `billing_paid` | `PaidInvoiceIsCredited` | money taken for an invoice reaches the wallet |
| `billing_double` ✗ | `CreditedOnce` | a repeated Complete that overlaps the first one credits twice |

Two users, two transactions, two payments of Click, two requests in flight and one restart: enough
for two payments of one invoice, a webhook against a deposit of the same wallet, and a webhook
against its own repetition. `CreditBound` stops the overlapping run when a transaction has been
credited more than twice, after which more credits tell nothing new. A charge whose answer is lost
leaves its transaction PENDING, and nothing looks at it again (`click.service.ts:425`): money taken
for a card payment need not reach the wallet, which is why `PaidInvoiceIsCredited` speaks of invoices.

*Fairness* of `billing_paid`: every handler goes on (Node and the database serve each promise), Click
repeats Complete until it is answered (strongly fair, since a slot may be taken by others) and drops
dead connections. Nothing is assumed of users.

### Stations (`MCStationRegistry`)

| Run | Checks | Shows |
| --- | --- | --- |
| `stations` | `RegistryInv`, `NoStaleSocket`, `SteadyIsReachable`, `ShownAsItIs` | whatever the network and the pool of the database do, commands go to the newest socket only; a steady station is reachable while connected, and its flag settles on the truth |
| `stations_reconnect` ✗ | `ConnectedIsReachable` | the close of an old socket unregisters the new one |

Two stations and three sockets: a station replaces its connection twice, or both are connected and
one of them reconnects. One station is known to the database, the other is not. The number of sockets
bounds the queries. After a restart stations that do not come back stay online in the database;
that is what the code does, and why the offline half of `ShownAsItIs` ends at the first one. A station that is
not steady may end up with a wrong flag for good (the queries of a connection and of its close
in the wrong order).

### Sessions (`MCChargingSession`)

| Run | Checks | Shows |
| --- | --- | --- |
| `sessions` | `SessionInv`, `OwnSession`, `NoPhantomEnergy`, `StopIsReal`, `ChargeHasSession`, `ReusesSession`, `FinishedIsFinal` | calls overlap, fail, get lost and are cut off: each reading and stop is about a session of its own user and connector; where calls are apart, a charge has its active session, none is duplicated, finished is final; edits by hand and random ids spoil no session but those they meet |
| `sessions_live` | `DeletedForGood`, `ToldOfTheEnd`, `StoppedIsCompleted` | an administrator edits and removes sessions under a charge, and random ids hit real ones: nothing is revived, no false notification, and the session of an ended charge does not stay ACTIVE |

`sessions` has two users, connectors, sessions and calls in flight; a connector sees two charges, of
different users, so that a late call may meet the next charge's session; an administrator makes one
call, and every id may be drawn at random. `FewEvents` bounds charges, failures, restarts, edits and
exempt sessions together. Sessions are never reused: when the ids run out a start is
rejected, which the code does on any error. `sessions_live` has one user and connector.

*Fairness* of `sessions_live`: handlers go on, a station repeats StopTransaction until answered (as
OCPP asks) and its answer is not lost for ever. Failing statements are excluded there, because
`handleStopTransaction` answers Accepted when its update fails, after which nobody completes the
session.

What the conditions leave out, the code really does: without `apart`, a remote start and the
StartTransaction it races with create two sessions (`ocpp.service.ts:175`), a failed remote start
deletes a session that a StartTransaction has taken up meanwhile (`charging-session.service.ts:193`), and a
MeterValues served after StopTransaction overwrites the final energy (`ocpp.service.ts:255`); a
reading without the energy register sets the energy of a session to 0 (`ocpp.service.ts:225`);
`meterStart` is not subtracted, so the register is billed from its beginning (`ocpp.service.ts:159`),
which is the bound that `NoPhantomEnergy` states. Without `exempt`: once ids reach 1000, the random
id of a rejected start may be that of somebody's session, which its StopTransaction completes
(`ocpp.service.ts:208`); an administrator moves a session to another connector under its charge
(`charging-session.service.ts:115`).

### Status (`MCConnectorStatus`)

| Run | Checks | Shows |
| --- | --- | --- |
| `status` | `StatusInv`, `SettlesRight` | notifications overlap, fail and are cut off, administrators edit: nothing is logged that the row never was, nothing announced that is not logged, no entry is left without its connector; the next undisturbed notification makes row, log and event tell the same |

Three changes of a connector are enough for two notifications to cross and a third to put things
right; two edits, for an entry to be added and its connector removed. The event carries the OCPP
status of the notification, not one of the three that `docs/ocpp-integration.md:66` lists, so
both properties compare it through `MapStatus`.

### Accounts (`MCAccounts`)

| Run | Checks | Shows |
| --- | --- | --- |
| `accounts` | `AuthInv`, `CodeRules`, `LoginSpec`, `CardsInv` | registrations, verifications, refreshes, logouts and requests for cards overlap and stop at every statement: one usable refresh token per login, which never revives; a code is compared `MaxAttempts` times at most, and accepted once where verifications do not overlap; cards are charged only for who proved them |

*Authentication.* One phone (users meet only through it), two rows of codes and two texts, two
requests, two rows of sessions, and two points of time: enough for two verifications of one
code, a registration under a verification, two refreshes of one session, a logout between the
delete and the insert of a refresh, and a code that expires. `Window` and `Ttl` are 0, so that both
limits are met at `clock` 0 and passed at 1; `MaxAttempts` is 1, so that the second comparison is one too
many. The logout between delete and insert finds nothing, and the login goes on
(`auth.service.ts:218`): `LoginSpec` counts a login in rotation as alive, which is what the code does.

*Cards.* Two users, two rows, two tokens and one card number: two requests for one card, of one user
or of two, with the same token or another, and a deletion while the SMS code is on its way.

### Catalogue (`MCCatalogue`)

| Run | Checks | Shows |
| --- | --- | --- |
| `catalogue` | `CatalogueInv`, `GarageInv`, `ImportsInv`, `DevicesInv`, `TariffInv`, `OfferInv` | the requests of five parts overlap statement by statement and fail at each |

* Stations: two stations, a connector, a user, three codes, two requests: a connector moves under
  the generation of its code, two requests draw one each, a third code shows that neither is
  drawn again; two toggles race with each other and with the removal of the station.
* Vehicles: two models of which the file lists one, two rows of each table, one user and plate,
  two requests: two imports at once, or an import and an edit; a removal against an adding.
* Push: two users and devices, two requests and one broadcast; with `BatchLimit` 1 a broadcast to
  both devices is over the limit of Firebase, and one to a single device is not.
* Tariff: prices −1, 0 and 1 against the standard price 2, readings to 2, two calls: a price set
  to 0 falls back, as it does in the code, and a negative one shows the condition of `CostInForce`.
* Discounts: two stations, two discounts, three days, so that a date may lie on, before or after another.

### Service (`MCService`)

| Run | Checks | Shows |
| --- | --- | --- |
| `service` | `LegalInv`, `SeedInv`, `ListInv`, `DispatchInv` | readers of legal texts meet administrators and the seed; the seed stops and runs again; lists are walked while rows come and go; every route is asked for |

* Legal texts: two types, two languages, one reader, two documents: a version is replaced while the
  reader is between his two statements.
* Seed: three types of the seed and one of an administrator, one operator, ids to 4: the seed may run
  twice and stop anywhere, and every id it names may be somebody else's.
* Lists: three rows and pages of one or two: a row comes, goes or moves between pages and between
  the two statements of a page.
* Routing: every route with every word in every place of a parameter, among them `my`, `admin`
  and `me`, which are literals of other routes, and every role or none. One request at a time: a
  request meets no other before its handler.

`accounts` and `catalogue` use symmetry among requests and rows; the cfgs give the rows of the parts
the same names so that one group serves all. No liveness is checked under symmetry; `LoginSpec` and
the action properties are safety.

Runs marked ✗ end in the counterexample of a finding in `PROJECT.json`, where the sentence of the
documentation or code it contradicts is quoted. All runs set `CHECK_DEADLOCK FALSE`: users may stop
calling, and all bounded counters run out.

## What is proved

For every value of the constants, by TLAPS; the properties that theorems state are in parentheses.
Constants have only the assumptions that their modules name.

* **Billing.** `BillingInv` is inductive with no assumption on overlap (`BillingInvariant`). It adds to
  the properties what the handlers hold between awaits: a Complete about to credit was sent for a
  payment that took the money and has its `ClickTransaction`; a card payment about to settle charged
  its card; no two payments have rows for one invoice. Hence `TypeCorrect`, `NothingIsLost`
  (`NoLostCredit`), `NothingIsUnpaid` (`NoUnpaidCredit`), `OneCharge` (`OnePaymentPerInvoice`).
* **Ledger.** If webhooks of one transaction do not overlap, `SerialBillingInv` is inductive
  (`SerialInvariant`): moreover at most one handler is at work per transaction, and what it read
  of the status still holds. Hence `BalancesAreExact` (`ExactBalance`), `SettledIsFinal`
  (`SettledForever`), `TablesAlwaysAgree` (`TablesAgree`), and `BillingImplementsLedger`: every step
  of ClickBilling is a step of WalletLedger or leaves it alone.
* **Stations.** `RegistryInv` is inductive with no assumption at all (`RegistryInvariant`): the only
  socket the map holds for a station is its newest and attached; a steady station has no other one,
  and the last query issued for it agrees with it. Hence `NeverStale` (`NoStaleSocket`),
  `ReachableWhenSteady` (`SteadyIsReachable`), `FlagFollowsConnection` (`ShownAsItIs`).
* **Sessions.** `SessionInv` is inductive with no assumption, overlap or not (`SessionInvariant`): every
  call and charge carries the user and connector of its session, and readings are within the
  register, unless the session is `exempt`. Hence `EachToItsOwn` (`OwnSession`), `NoEnergyFromNowhere`
  (`NoPhantomEnergy`), `OwnStopOnly` (`StopIsReal`). A rejected charge is given an id that is exempt
  from that moment, so its stop cannot spoil another session.
  - Relative to it, `ApartInv` is inductive: the one call in hand of a connector in `apart` fits the
    phase of its charge, and a settled session is what a repeated stop would leave; what an edit does
    to another call's rows is confined to the session it edits (`QuietApart`). Hence
    `ChargesHaveSessions` (`ChargeHasSession`), `OneSessionPerCharge` (`ReusesSession`),
    `StoppedIsSettled` (`FinishedIsFinal`).
  - Of exempt sessions too: `GoneForGood` (`DeletedForGood`), since every write names a session that
    exists and ids are not given twice; and `ToldWhenItEnds` (`ToldOfTheEnd`), since an edit in hand
    that no stop and no other edit overlaps still sees the status it read.
* **Status.** `StatusIsTraced` (`StatusInv`) and `StatusSettles` (`SettlesRight`): what a notification
  still has to log or announce, its connector has held; a steady connector's last one is at most
  its remaining writes away from the truth.
* **Authentication.** `AuthInd` (`Fitting`, `CodesInd`, `SessionsInd`) is inductive: requests fit the
  rows they hold, comparisons made are counted in the row, and a session in rotation
  has no other usable token. That every set of stored codes has a newest one is part of the
  invariant (`HasNewest`), which avoids an induction over their number. Hence `LoginsFit` (`AuthInv`), `CodesKeepRules`
  (`CodeRules`), and `LoginsEndForGood`: Authentication implements `LoginChain`.
* **Saved cards.** `ChargedWasProved` (`CardsInv`): a request under way carries a token of the number
  that its user proved or is about to prove.
* **Catalogue.** Five parts with an argument each: `CatalogueFits` (`CatalogueInv`), `DevicesAsAsked`
  (`DevicesInv`; a removal in hand still names its own user's device, `RemovalsOwn`), `CostsAPrice`
  (`TariffInv`; the price a call would read now was in force, `PriceKnown`), `OffersFit` (`OfferInv`),
  and from `VehiclesInd` `GaragesFit` (`GarageInv`) and `ImportsAddOnce` (`ImportsInv`; as long as
  imports ran one at a time, none is about to create a model that is listed, `ImportsAlone`).
* **Legal texts.** `LegalTextsFit`: `LegalInv` is inductive as it stands. A write keeps the text that a
  reader waits for or records it as taken away (`WritesKeep`), and a reader whose text is in force
  when he comes has the newest version in hand (`NewestIsInForce`).
* **Seed.** `SeedsAsMeant` (`SeedInv`), for any list of types and any number of operators that the table
  has ids for. The strengthening is `SeedOrder`: as long as the list is tidy, the script is either past
  it and each type has the id of its place, or at a type and exactly those before it are there.
* **Lists.** `ListsArePagedThrough` (`ListInv`), for any number of rows and any page size. With a column
  without ties, a row has a rank, the number of rows ahead of it, and a page is the rows of its
  ranks (`PageIs`). A client at page `p` has seen every row that was there and has rank below the
  page's (`ListInd`): where rows only come, ranks only grow, and where they only go, only shrink.
* **Routing.** `RequestsReachTheirHandlers` (`DispatchInv`), for any words of callers, of the route
  table as it is: a table is in order (`TableOK`) if no route hides a later one from the requests
  that one declares, and its guards set the user before anything asks for it. Each controller's is,
  and controllers with different prefixes hide nothing from each other (`Joined`). `DispatchInd` says
  that a request is at the first route that fits and was admitted by the guards it has passed.

Only model-checked: the two liveness properties, `PaidInvoiceIsCredited` and `StoppedIsCompleted`
(fairness and ENABLED are out of the prover's reach). No proof needs an induction over data, and no
module that is proved about reaches a RECURSIVE operator.

## Not modelled

* Heartbeat, which writes a timestamp that nothing decides on; getters and the filters of lists;
  formats of answers and messages; start-up, storage, and the empty cron job.
* Authentication: the operations without a route (passwords, login by code), the limit of administrator
  logins in memory (`auth.service.ts:139`), the expiry of sessions after weeks.
* Payments and operator payouts: records that administrators keep in single statements and nothing
  else reads. An update of a payout without `paidAt` erases the date (`operator-payout.service.ts:68`).
  Sessions that a `Payment` refers to, which the database refuses to delete.
* Users: two reads; their rows are written by Authentication.
* `sendToMany` and `sendPush` (`notification.service.ts`), which have no callers, and
  `route-data.ts`, static data that no file imports.
* Prisma and PostgreSQL are taken as documented: a statement is atomic, unique and foreign keys hold,
  Serializable transactions that conflict are rolled back. In billing no statement fails but for a
  conflict or a missing row: a webhook whose statement fails is answered -8, and what Click makes of
  that is not in the repository.

Each component's part in this list is in its note in `PROJECT.json`. What the models of this
project show of the code without contradicting a sentence in the repository is told beside
the runs above; some more of it:

* A discount may end with both `percent` and `fixedPrice` (`discount.service.ts:73`), and an edit of one
  date is not compared with the other (57): `OfferInv` speaks of the others.
* A price of 0 means the standard price, and a negative one is accepted.
* `@Roles` has no effect where no `RolesGuard` is declared (stations, connectors, connector types);
  `Dispatch` has these routes as they are.
* `sendToUser` pushes without storing a notification; only `broadcast` stores.
* The list of connector types is not paged.

## Plan

Done: all components but those above, and proofs of every safety property that runs check. Next:

* `RemoteCharging` – `StationRegistry` with `ChargingSession`: what becomes of a session whose remote
  command was sent on a dead socket, and of charges over reconnects.
