--------------------------- MODULE StationRegistry ---------------------------
(***************************************************************************)
(* Who is connected: the registry of station sockets of OcppServer (an     *)
(* in-memory map from station id to socket) and the isOnline column of     *)
(* ChargingStation, which connection events and BootNotification update.   *)
(* Source: modules/ocpp/ocpp.server.ts and ocpp.service.ts.                *)
(*                                                                         *)
(* The map changes inside an event handler, at once.  The column changes   *)
(* through queries nobody waits for: they go to a pool of database         *)
(* connections and may take effect in another order than they were issued. *)
(* The network is outside the repository: a peer may vanish while the      *)
(* server still thinks its socket open, and a station may come back on a   *)
(* new socket before the server has seen the old one close.  A station is  *)
(* steady as long as neither happens to it.                                *)
(***************************************************************************)
EXTENDS Naturals, Sequences

CONSTANTS Stations,       \* station ids seen in connection URLs
          Known,          \* those that some ChargingStation row has (ocppStationId)
          Sockets,        \* connections over the life of the system
          None,
          MaxCrashes      \* bound on the restarts of the server

ASSUME KnownAssumption == Known \subseteq Stations
ASSUME NoneAssumption == None \notin Sockets \cup Stations
ASSUME MaxCrashesAssumption == MaxCrashes \in Nat

VARIABLES sock,      \* every connection: its state and the id in its URL
          active,    \* activeConnections
          newest,    \* the last socket each station opened (history)
          isOnline,  \* ChargingStation.isOnline, by ocppStationId
          updates,   \* updateMany queries issued and not yet in effect
          booted,    \* sockets that have sent BootNotification
          steady,    \* stations that never reconnected early and whose queries
                     \* took effect in order, since the last restart (history)
          crashes

vars == <<sock, active, newest, isOnline, updates, booted, steady, crashes>>

SocketStates == {"new", "open", "gone", "closing", "closed"}
SocketRecords == [state : SocketStates, station : Stations \cup {None}]

TypeOK ==
    /\ sock \in [Sockets -> SocketRecords]
    /\ active \in [Stations -> Sockets \cup {None}]
    /\ newest \in [Stations -> Sockets \cup {None}]
    /\ isOnline \in [Stations -> BOOLEAN]
    /\ updates \in [Stations -> Seq(BOOLEAN)]
    /\ booted \subseteq Sockets
    /\ steady \subseteq Stations
    /\ crashes \in 0 .. MaxCrashes

Init ==
    /\ sock = [k \in Sockets |-> [state |-> "new", station |-> None]]
    /\ active = [s \in Stations |-> None]
    /\ newest = [s \in Stations |-> None]
    /\ isOnline = [s \in Stations |-> FALSE]
    /\ updates = [s \in Stations |-> <<>>]
    /\ booted = {}
    /\ steady = Stations
    /\ crashes = 0

\* The server has accepted the socket and not yet handled its close event.
Attached(k) == sock[k].state \in {"open", "gone", "closing"}

SocketsOf(s) == {k \in Sockets : sock[k].station = s /\ Attached(k)}

Issue(s, value) == updates' = [updates EXCEPT ![s] = Append(@, value)]

\* Station s is steady no longer, unless the condition holds.
SteadyIf(cond, s) == steady' = IF cond THEN steady ELSE steady \ {s}

-----------------------------------------------------------------------------
(* The network.                                                            *)

\* The peer is lost without a word: readyState stays OPEN.
PeerVanishes(k) ==
    /\ sock[k].state = "open"
    /\ sock' = [sock EXCEPT ![k].state = "gone"]
    /\ UNCHANGED <<active, newest, isOnline, updates, booted, steady, crashes>>

\* The connection ends: readyState is no longer OPEN, the event is due.
ConnectionEnds(k) ==
    /\ sock[k].state \in {"open", "gone"}
    /\ sock' = [sock EXCEPT ![k].state = "closing"]
    /\ UNCHANGED <<active, newest, isOnline, updates, booted, steady, crashes>>

-----------------------------------------------------------------------------
(* The handlers of OcppServer and OcppService.  An operator whose name has *)
(* an underscore is a defective variant of the one that follows it.        *)

\* The socket is not entered on connection.
Registered_Late(s, k) == active[s]

\* activeConnections.set(stationId, ws)
Registered(s, k) == k

\* on('connection'): registers the socket, marks the station online.
Connect(k, s) ==
    /\ sock[k].state = "new"
    /\ sock' = [sock EXCEPT ![k] = [state |-> "open", station |-> s]]
    /\ newest' = [newest EXCEPT ![s] = k]
    /\ active' = [active EXCEPT ![s] = Registered(s, k)]
    /\ Issue(s, TRUE)
    /\ SteadyIf(SocketsOf(s) = {}, s)
    /\ UNCHANGED <<isOnline, booted, crashes>>

\* The entry is left in the map.
Unregistered_Kept(s) == active[s]

\* activeConnections.delete(stationId), whichever socket it holds.
Unregistered(s) == None

\* on('close')
Close(k) ==
    LET s == sock[k].station IN
    /\ sock[k].state = "closing"
    /\ sock' = [sock EXCEPT ![k].state = "closed"]
    /\ active' = [active EXCEPT ![s] = Unregistered(s)]
    /\ Issue(s, FALSE)
    /\ UNCHANGED <<newest, isOnline, booted, steady, crashes>>

\* handleBootNotification, answered Accepted whether or not the query finds a
\* row.  A station boots once on a socket.
Boot(k) ==
    /\ sock[k].state = "open"
    /\ k \notin booted
    /\ booted' = booted \cup {k}
    /\ Issue(sock[k].station, TRUE)
    /\ UNCHANGED <<sock, active, newest, isOnline, steady, crashes>>

\* FALSE is never written.
MarksOnline_Sticky(s, value) == isOnline[s] \/ value

\* updateMany: no row, no effect.
MarksOnline(s, value) == IF s \in Known THEN value ELSE isOnline[s]

\* The i-th query of station s takes effect.
Commit(s, i) ==
    /\ i \in 1 .. Len(updates[s])
    /\ isOnline' = [isOnline EXCEPT ![s] = MarksOnline(s, updates[s][i])]
    /\ updates' = [updates EXCEPT ![s] = SubSeq(@, 1, i - 1) \o SubSeq(@, i + 1, Len(@))]
    /\ SteadyIf(i = 1, s)
    /\ UNCHANGED <<sock, active, newest, booted, crashes>>

\* The process stops without its close handlers (nothing enables Nest's
\* shutdown hooks) and starts with an empty map; startServer resets no flag.
\* A query on its way may still take effect.
Crash ==
    /\ crashes < MaxCrashes
    /\ crashes' = crashes + 1
    /\ sock' = [k \in Sockets |-> IF Attached(k) THEN [sock[k] EXCEPT !.state = "closed"] ELSE sock[k]]
    /\ active' = [s \in Stations |-> None]
    /\ isOnline' \in {f \in [Stations -> BOOLEAN] :
           \A s \in Stations :
               f[s] = isOnline[s] \/ (s \in Known /\ \E i \in 1 .. Len(updates[s]) : f[s] = updates[s][i])}
    /\ updates' = [s \in Stations |-> <<>>]
    /\ steady' = Stations
    /\ UNCHANGED <<newest, booted>>

Next ==
    \/ \E k \in Sockets :
           \/ PeerVanishes(k) \/ ConnectionEnds(k)
           \/ Close(k) \/ Boot(k)
           \/ \E s \in Stations : Connect(k, s)
    \/ \E s \in Stations : \E i \in 1 .. Len(updates[s]) : Commit(s, i)
    \/ Crash

Spec == Init /\ [][Next]_vars

-----------------------------------------------------------------------------
(* What must hold.                                                         *)

\* sendCallToStation sends; otherwise it throws "Station ... is not connected".
Reachable(s) == active[s] # None /\ sock[active[s]].state \in {"open", "gone"}

\* A command is never sent on a connection that a newer one of the same
\* station has superseded, nor on one whose close event has been handled.
NoStaleSocket ==
    \A s \in Stations : active[s] # None => active[s] = newest[s] /\ Attached(active[s])

\* A station with an open connection is not refused as "not connected"
\* (ocpp.server.ts:147), so a charge on it can be started and stopped ...
ConnectedIsReachable ==
    \A s \in Stations : (\E k \in SocketsOf(s) : sock[k].state = "open") => Reachable(s)

\* ... at least as long as it is steady, also over restarts.
SteadyIsReachable ==
    \A s \in steady : (\E k \in SocketsOf(s) : sock[k].state = "open") => Reachable(s)

\* When every query has taken effect, a steady station of the database with a
\* connection is shown online (ocpp.server.ts:38) ...
ConnectedIsOnline ==
    \A s \in Known \cap steady : updates[s] = <<>> /\ SocketsOf(s) # {} => isOnline[s]

\* ... and one without any is shown offline (ocpp.server.ts:73), before the
\* first restart.
DisconnectedIsOffline ==
    crashes = 0 =>
        \A s \in Known \cap steady : updates[s] = <<>> /\ SocketsOf(s) = {} => ~ isOnline[s]

\* The two together: the flag follows the connection.
ShownAsItIs == ConnectedIsOnline /\ DisconnectedIsOffline

-----------------------------------------------------------------------------
(* Inductive invariants, from which StationRegistryProofs derives the      *)
(* above.                                                                  *)

\* The newest socket of a station is one of its own; only it is registered.
SocketsInv ==
    /\ \A k \in Sockets : Attached(k) => sock[k].station \in Stations
    /\ \A s \in Stations :
           newest[s] # None => sock[newest[s]].station = s /\ sock[newest[s]].state # "new"
    /\ NoStaleSocket

\* The value isOnline has when every query of s has taken effect.
Settled(s) == IF updates[s] = <<>> THEN isOnline[s] ELSE updates[s][Len(updates[s])]

\* A steady station has one connection, the registered one, and the last query
\* issued for it tells whether it has it.
OneSocket ==
    \A s \in steady, k \in Sockets : k \in SocketsOf(s) => active[s] = k

SettledIsTrue ==
    /\ \A s \in Known \cap steady : SocketsOf(s) # {} => Settled(s) = TRUE
    /\ crashes = 0 => \A s \in Known \cap steady : SocketsOf(s) = {} => Settled(s) = FALSE

RegistryInv == TypeOK /\ SocketsInv /\ OneSocket /\ SettledIsTrue
=============================================================================
