------------------------------ MODULE Dispatch -------------------------------
(***************************************************************************)
(* From the request to its handler.                                        *)
(* Source: the controllers, app.module.ts (their order), the guards of     *)
(* modules/auth, main.ts.  Express, Nest and Passport are external.        *)
(*                                                                         *)
(* Routes are tried in the order of their declarations; the first whose    *)
(* method and path fit takes the request.  Its guards run, those of the    *)
(* class first; then its pipes; then its handler.  The prefix v1 and the   *)
(* routes of the documentation are left out.                               *)
(***************************************************************************)
EXTENDS Naturals, Sequences, Functions

CONSTANTS Words      \* what callers put for a parameter, "7" being the number

ASSUME WordsAssumption == "7" \in Words

VARIABLES hit        \* the request

\* A parameter is "#" if ParseIntPipe reads it and "*" if not.  "caller" says that the
\* handler reads req.user; "roles" what @Roles lists, which has no effect unless
\* RolesGuard is among the guards.
Route(method, path, roles, caller) ==
    [method |-> method, path |-> path, roles |-> roles, caller |-> caller, guards |-> <<>>]

Plain(method, path) == Route(method, path, {}, FALSE)
Mine(method, path) == Route(method, path, {}, TRUE)
Admins(method, path) == Route(method, path, {"ADMIN"}, FALSE)
Users(method, path) == Route(method, path, {"USER", "ADMIN"}, TRUE)

With(guards, route) == [route EXCEPT !.guards = guards \o @]

Jwt == <<"jwt">>
JwtRoles == <<"jwt", "roles">>

Controller(prefix, guards, routes) ==
    [i \in 1 .. Len(routes) |-> With(guards, [routes[i] EXCEPT !.path = <<prefix>> \o @])]

-----------------------------------------------------------------------------
(* The routes of the controllers.                                          *)

VehicleController ==
    <<Route("POST", <<>>, {"ADMIN"}, TRUE), Admins("PATCH", <<"*">>), Admins("DELETE", <<"*">>),
      Plain("GET", <<"*">>), Plain("GET", <<>>), Users("POST", <<"me">>),
      Users("DELETE", <<"me", "*">>), Users("PATCH", <<"me", "*">>),
      Users("GET", <<"me", "list">>), Admins("POST", <<"sync">>)>>

AuthController ==
    <<Plain("POST", <<"register">>), Plain("POST", <<"verify-otp">>), Plain("POST", <<"refresh">>),
      With(Jwt, Mine("POST", <<"logout">>)), With(Jwt, Mine("GET", <<"me">>)),
      With(Jwt, Mine("PATCH", <<"me">>))>>

AdminController ==
    <<With(JwtRoles, Admins("POST", <<"create">>)), Plain("POST", <<"login">>)>>

OperatorController ==
    <<With(JwtRoles, Admins("POST", <<>>)), Plain("GET", <<>>), Plain("GET", <<"#">>),
      With(JwtRoles, Admins("PATCH", <<"#">>)), With(JwtRoles, Admins("DELETE", <<"#">>))>>

ChargingStationController ==
    <<Admins("POST", <<>>), With(<<"optional">>, Plain("GET", <<>>)), Plain("GET", <<"#">>),
      Admins("PATCH", <<"#">>), Admins("DELETE", <<"#">>)>>

ConnectorController ==
    <<Admins("POST", <<>>), Plain("GET", <<>>), Plain("GET", <<"#">>), Admins("PATCH", <<"#">>),
      Admins("POST", <<"#", "qr">>), Plain("GET", <<"#", "qr", "download">>),
      Plain("GET", <<"by-qr", "*">>), Admins("DELETE", <<"#">>)>>

ConnectorTypeController ==
    <<Admins("POST", <<>>), Plain("GET", <<>>), Plain("GET", <<"#">>), Admins("PATCH", <<"#">>),
      Admins("DELETE", <<"#">>)>>

ConnectorStatusLogController ==
    <<Admins("POST", <<>>), Admins("GET", <<>>), Admins("DELETE", <<"#">>)>>

StationPricingController ==
    <<Admins("POST", <<>>), Plain("GET", <<>>), Plain("GET", <<"#">>), Admins("PATCH", <<"#">>),
      Admins("DELETE", <<"#">>)>>

ChargingSessionController ==
    <<Mine("POST", <<>>), Mine("POST", <<"start">>), Mine("POST", <<"stop", "#">>),
      Admins("POST", <<"admin">>), Mine("GET", <<>>), Admins("GET", <<"admin">>),
      Mine("GET", <<"#">>), Admins("GET", <<"admin", "#">>), Admins("PATCH", <<"admin", "#">>),
      Admins("DELETE", <<"admin", "#">>)>>

OperatorPayoutController ==
    <<Admins("POST", <<>>), Admins("GET", <<>>), Admins("GET", <<"#">>), Admins("PATCH", <<"#">>),
      Admins("DELETE", <<"#">>)>>

WalletController ==
    <<Mine("GET", <<"my">>), Admins("GET", <<"admin">>), Mine("POST", <<"deposit">>),
      Admins("POST", <<"refund">>)>>

\* The route with the parameter first.
WalletTransactionController_Late ==
    <<Mine("GET", <<"#">>), Mine("GET", <<"my">>), Admins("GET", <<"admin">>)>>

WalletTransactionController ==
    <<Mine("GET", <<"my">>), Admins("GET", <<"admin">>), Mine("GET", <<"#">>)>>

PaymentController ==
    <<Plain("POST", <<>>), Plain("GET", <<>>), Plain("GET", <<"#">>), Plain("PATCH", <<"#">>),
      Plain("DELETE", <<"#">>)>>

LegalController ==
    <<With(JwtRoles, Admins("POST", <<>>)), With(JwtRoles, Admins("PATCH", <<"#">>)),
      With(JwtRoles, Admins("DELETE", <<"#">>)), With(JwtRoles, Admins("GET", <<>>)),
      With(JwtRoles, Admins("POST", <<"#", "translation">>)),
      With(JwtRoles, Admins("PATCH", <<"translation", "#">>)),
      With(JwtRoles, Admins("DELETE", <<"translation", "#">>)), Plain("GET", <<"public">>)>>

DiscountController ==
    <<With(<<"roles">>, Admins("POST", <<>>)), With(<<"roles">>, Admins("PATCH", <<"#">>)),
      With(<<"roles">>, Admins("DELETE", <<"#">>)), Plain("GET", <<>>), Plain("GET", <<"#">>)>>

StationLikeController ==
    <<Mine("POST", <<"#", "toggle">>), Mine("GET", <<"my">>),
      Plain("GET", <<"station", "#", "count">>), Mine("GET", <<"station", "#", "check">>)>>

NotificationController ==
    <<Mine("POST", <<"register-device">>), Mine("DELETE", <<"remove-device">>),
      Plain("POST", <<"send">>), Plain("POST", <<"broadcast">>), Mine("GET", <<"my">>),
      Mine("PATCH", <<"read-all">>), Mine("PATCH", <<"*", "read">>)>>

ClickController ==
    <<With(Jwt, Mine("POST", <<"invoice">>)), Plain("POST", <<"prepare">>),
      Plain("POST", <<"complete">>), With(Jwt, Mine("GET", <<"cards">>)),
      With(Jwt, Mine("POST", <<"cards", "add">>)), With(Jwt, Mine("POST", <<"cards", "verify">>)),
      With(Jwt, Mine("POST", <<"cards", "pay">>)), With(Jwt, Mine("DELETE", <<"cards", "#">>))>>

\* The controllers in the order of their modules, each with its prefix and the guards
\* of its class.
Routes ==
    Controller("cars", JwtRoles, VehicleController)
    \o Controller("auth", <<>>, AuthController)
    \o Controller("admin", <<>>, AdminController)
    \o Controller("operators", <<>>, OperatorController)
    \o Controller("stations", <<>>, ChargingStationController)
    \o Controller("connectors", <<>>, ConnectorController)
    \o Controller("connector-types", <<>>, ConnectorTypeController)
    \o Controller("connector-status-logs", JwtRoles, ConnectorStatusLogController)
    \o Controller("pricing", JwtRoles, StationPricingController)
    \o Controller("sessions", JwtRoles, ChargingSessionController)
    \o Controller("operator-payouts", JwtRoles, OperatorPayoutController)
    \o Controller("wallet", JwtRoles, WalletController)
    \o Controller("transactions", JwtRoles, WalletTransactionController)
    \o Controller("payments", JwtRoles, PaymentController)
    \o Controller("legal", <<>>, LegalController)
    \o Controller("discount", Jwt, DiscountController)
    \o Controller("station-likes", Jwt, StationLikeController)
    \o Controller("notifications", Jwt, NotificationController)
    \o Controller("click", <<>>, ClickController)

-----------------------------------------------------------------------------
(* A request.                                                              *)

Parameters == {"#", "*"}

\* The role of the user in the token of a request, if it has a valid one.
Bearers == {"none", "USER", "ADMIN"}

Fits(pattern, path) ==
    /\ Len(pattern) = Len(path)
    /\ \A i \in 1 .. Len(path) : pattern[i] \in Parameters \/ pattern[i] = path[i]

\* The path that the declaration of a route suggests.
Own(k) == [i \in 1 .. Len(Routes[k].path) |->
              IF Routes[k].path[i] \in Parameters THEN "7" ELSE Routes[k].path[i]]

\* Every route with every path of its shape, with any word for its parameters.
Calls ==
    UNION {{<<k, p>> : p \in {q \in [1 .. Len(Routes[k].path) -> Words \cup Range(Own(k))] :
                                 Fits(Routes[k].path, q)}} : k \in 1 .. Len(Routes)}

\* pc: the request waits for routing, guards, pipes, or has reached its handler or been
\* answered without; meant: the route whose declaration the caller had in mind; at: the
\* route taken; guard: guards passed.
Hits == [pc : {"none", "route", "guards", "pipes", "handler", "refused"},
         path : {<<>>} \cup {c[2] : c \in Calls},
         meant : 0 .. Len(Routes), at : 0 .. Len(Routes), guard : 0 .. 3, bearer : Bearers]

NoHit == [pc |-> "none", path |-> <<>>, meant |-> 0, at |-> 0, guard |-> 0, bearer |-> "none"]

DispatchTypeOK == hit \in Hits

DispatchInit == hit = NoHit

Arrives(k, path, bearer) ==
    hit' = [NoHit EXCEPT !.pc = "route", !.path = path, !.meant = k,
                         !.bearer = bearer]

Takes(i) == Routes[i].method = Routes[hit.meant].method /\ Fits(Routes[i].path, hit.path)

\* The first that fits.
IsTaken(i) == Takes(i) /\ \A j \in 1 .. i - 1 : ~ Takes(j)

Routed ==
    /\ hit.pc = "route"
    /\ \/ \E i \in 1 .. Len(Routes) :
              IsTaken(i) /\ hit' = [hit EXCEPT !.pc = "guards", !.at = i]
       \/ /\ \A i \in 1 .. Len(Routes) : ~ Takes(i)
          /\ hit' = [hit EXCEPT !.pc = "refused"]

\* RolesGuard has no user unless JwtAuthGuard ran before.
Admits(guard) ==
    LET before == {Routes[hit.at].guards[g] : g \in 1 .. hit.guard} IN
    CASE guard = "jwt" -> hit.bearer # "none"
      [] guard = "optional" -> TRUE
      [] guard = "roles" -> \/ Routes[hit.at].roles = {}
                            \/ "jwt" \in before /\ hit.bearer \in Routes[hit.at].roles

RunsGuard ==
    LET gs == Routes[hit.at].guards IN
    /\ hit.pc = "guards"
    /\ hit' = IF hit.guard = Len(gs) THEN [hit EXCEPT !.pc = "pipes"]
              ELSE IF Admits(gs[hit.guard + 1]) THEN [hit EXCEPT !.guard = @ + 1]
              ELSE [hit EXCEPT !.pc = "refused"]

\* ParseIntPipe
RunsPipes ==
    /\ hit.pc = "pipes"
    /\ hit' = [hit EXCEPT !.pc =
           IF \A i \in 1 .. Len(hit.path) :
                  Routes[hit.at].path[i] = "#" => hit.path[i] = "7"
           THEN "handler" ELSE "refused"]

\* One request after the other; Arrives is always possible between two.
DispatchNext ==
    \/ /\ hit.pc \in {"none", "handler", "refused"}
       /\ \E c \in Calls, b \in Bearers : Arrives(c[1], c[2], b)
    \/ Routed \/ RunsGuard \/ RunsPipes

DispatchSpec == DispatchInit /\ [][DispatchNext]_hit

-----------------------------------------------------------------------------

\* A request that is made as a route declares it gets to the handler of that route and no
\* other, and an administrator's is not refused: no route hides behind one with
\* parameters that is declared before it (transactions/my and transactions/:id,
\* sessions/admin and sessions/:id), and no guard looks for a user that no guard before it
\* has set.
EachRouteServes ==
    hit.meant # 0 /\ hit.path = Own(hit.meant) =>
        /\ hit.pc = "handler" => hit.at = hit.meant
        /\ hit.pc = "refused" => hit.bearer # "ADMIN"

\* A handler that reads req.user never runs without one.
CallerKnown ==
    hit.pc = "handler" /\ Routes[hit.at].caller => hit.bearer # "none"

DispatchInv == DispatchTypeOK /\ EachRouteServes /\ CallerKnown
=============================================================================
