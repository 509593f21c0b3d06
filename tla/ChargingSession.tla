--------------------------- MODULE ChargingSession ---------------------------
(***************************************************************************)
(* Charging sessions: the ChargingSession table as the OCPP handlers, the  *)
(* remote start of the app and the administrator's calls write it.         *)
(* Source: modules/ocpp/ocpp.service.ts and ocpp.server.ts,                *)
(* modules/charging-session/charging-session.service.ts.                   *)
(*                                                                         *)
(* A call in flight occupies a slot of Reqs, from its arrival to its last  *)
(* statement; its slot holds what it carries and what it has read.  The    *)
(* message handler of a socket is async and awaited by nobody, so calls of *)
(* one station run side by side.  A connector is in apart as long as no    *)
(* two calls about it or about one session of it were in flight at once.   *)
(* Cost is written with energy, always as a multiple of it, and start and  *)
(* end times decide nothing but which session is latest: all three are     *)
(* left out.                                                               *)
(*                                                                         *)
(* Stations are outside the repository and modelled from the OCPP calls    *)
(* the handlers serve: a charge asks StartTransaction until it is          *)
(* answered, then sends MeterValues, and StopTransaction until answered.   *)
(***************************************************************************)
EXTENDS Naturals

CONSTANTS Users, Conns, Sessions, Reqs, \* users, connectors, ids of session rows, slots
          None,
          RandomIds,    \* ids of sessions that the range 1000 .. 10999 reaches
          MaxMeter,     \* bound on the energy register of a connector
          MaxCharges,   \* bound on the charges of a connector
          MaxFailures,  \* bound on failing statements
          MaxEdits,     \* bound on the calls of administrators and on sessions made by hand
          MaxCrashes    \* bound on the restarts of the server

ASSUME NoneAssumption == None \notin Users \cup Conns \cup Sessions
ASSUME RandomIdsAssumption == RandomIds \subseteq Sessions
ASSUME BoundsAssumption ==
    {MaxMeter, MaxCharges, MaxFailures, MaxEdits, MaxCrashes} \subseteq Nat

VARIABLES session,   \* ChargingSession rows
          charge,    \* what a station does on each connector
          meter,     \* energy register of each connector
          req,       \* the calls in flight
          told,      \* how often "Charging Completed" was sent for a session
          exempt,    \* sessions written by hand or given to a rejected charge (history)
          apart,     \* connectors whose calls never overlapped (history)
          failures, edits, crashes

vars == <<session, charge, meter, req, told, exempt, apart, failures, edits, crashes>>

SessionStatuses == {"ACTIVE", "COMPLETED", "CANCELLED"}
Phases == {"free", "starting", "charging", "stopping"}
StartSteps == {"start", "start.reuse", "start.create"}
RemoteSteps == {"remote.send", "remote.delete"}
OcppSteps == StartSteps \cup {"meter", "stop"}
Steps == {"idle", "edit"} \cup OcppSteps \cup RemoteSteps

Energies == 0 .. MaxMeter

\* Rows, charges and calls that do not exist.
NoRow == [status |-> "NONE", user |-> None, conn |-> None, energy |-> 0]
NoCharge == [phase |-> "free", user |-> None, tid |-> None, n |-> 0]
Idle == [pc |-> "idle", conn |-> None, user |-> None, session |-> None,
         energy |-> 0, n |-> 0, seen |-> "NONE"]

Rows == [status : SessionStatuses \cup {"NONE", "DELETED"}, user : Users \cup {None},
         conn : Conns \cup {None}, energy : Energies]
Charges == [phase : Phases, user : Users \cup {None}, tid : Sessions \cup {None},
            n : 0 .. MaxCharges]
Calls == [pc : Steps, conn : Conns \cup {None}, user : Users \cup {None},
          session : Sessions \cup {None}, energy : Energies, n : 0 .. MaxCharges,
          seen : SessionStatuses \cup {"NONE"}]

TypeOK ==
    /\ session \in [Sessions -> Rows]
    /\ charge \in [Conns -> Charges]
    /\ meter \in [Conns -> Energies]
    /\ req \in [Reqs -> Calls]
    /\ told \in [Sessions -> Nat]
    /\ exempt \subseteq Sessions
    /\ apart \subseteq Conns
    /\ failures \in 0 .. MaxFailures
    /\ edits \in 0 .. MaxEdits
    /\ crashes \in 0 .. MaxCrashes

Init ==
    /\ session = [s \in Sessions |-> NoRow]
    /\ charge = [c \in Conns |-> NoCharge]
    /\ meter \in [Conns -> Energies]
    /\ req = [r \in Reqs |-> Idle]
    /\ told = [s \in Sessions |-> 0]
    /\ exempt = {}
    /\ apart = Conns
    /\ failures = 0 /\ edits = 0 /\ crashes = 0

-----------------------------------------------------------------------------

counters == <<failures, edits, crashes>>

\* A deleted row is written, as by an upsert.
Exists_Ever(s) == session[s].status # "NONE"

Exists(s) == session[s].status \in SessionStatuses

NewRow(u, c, status, energy) == [status |-> status, user |-> u, conn |-> c, energy |-> energy]

\* INSERT: the row gets an id no row had before.
Insert(s, row) ==
    /\ session[s].status = "NONE"
    /\ session' = [session EXCEPT ![s] = row]

Delete(s) == session' = [session EXCEPT ![s] = [NoRow EXCEPT !.status = "DELETED"]]

\* The ACTIVE sessions of a user on a connector.
ActiveSessions(u, c) ==
    {s \in Sessions : session[s].status = "ACTIVE" /\ session[s].user = u /\ session[s].conn = c}

\* Calls in flight about the connector or the session of another one.
InHand(call) ==
    {r \in Reqs : \/ req[r].conn = call.conn
                  \/ req[r].session = call.session /\ call.session # None}

Arrives(r, call) ==
    /\ req[r] = Idle
    /\ req' = [req EXCEPT ![r] = call]
    /\ apart' = IF InHand(call) = {} THEN apart
                ELSE apart \ ({call.conn} \cup {req[q].conn : q \in InHand(call)})

Continues(r, pc) == req' = [req EXCEPT ![r].pc = pc]

Ends(r) == req' = [req EXCEPT ![r] = Idle]

-----------------------------------------------------------------------------
(* Stations, outside the repository.                                       *)

Call(pc, c, energy) ==
    [Idle EXCEPT !.pc = pc, !.conn = c, !.user = charge[c].user, !.session = charge[c].tid,
                 !.energy = energy, !.n = charge[c].n]

\* A user holds a tag to the station, or it obeys RemoteStartTransaction.
PlugIn(c, u) ==
    /\ charge[c].phase = "free"
    /\ charge[c].n < MaxCharges
    /\ charge' = [charge EXCEPT ![c] = [phase |-> "starting", user |-> u, tid |-> None, n |-> @.n + 1]]
    /\ UNCHANGED <<session, meter, req, told, exempt, apart, counters>>

SendStart(r, c) ==
    /\ charge[c].phase = "starting"
    /\ Arrives(r, Call("start", c, 0))
    /\ UNCHANGED <<session, charge, meter, told, exempt, counters>>

Draw(c) ==
    /\ charge[c].phase = "charging"
    /\ meter[c] < MaxMeter
    /\ meter' = [meter EXCEPT ![c] = @ + 1]
    /\ UNCHANGED <<session, charge, req, told, exempt, apart, counters>>

\* The last sample of MeterValues has the energy register or not; without it
\* the handler takes 0 for the energy.
SendMeter(r, c) ==
    /\ charge[c].phase = "charging"
    /\ \E energy \in {meter[c], 0} : Arrives(r, Call("meter", c, energy))
    /\ UNCHANGED <<session, charge, meter, told, exempt, counters>>

\* The cable is pulled, or the station obeys RemoteStopTransaction.
Finish(c) ==
    /\ charge[c].phase = "charging"
    /\ charge' = [charge EXCEPT ![c].phase = "stopping"]
    /\ UNCHANGED <<session, meter, req, told, exempt, apart, counters>>

SendStop(r, c) ==
    /\ charge[c].phase = "stopping"
    /\ Arrives(r, Call("stop", c, meter[c]))
    /\ UNCHANGED <<session, charge, meter, told, exempt, counters>>

\* The answer to the call in slot r reaches the station while it waits for it
\* in phase from, or is lost.
Answer(r, from, outcomes) ==
    LET c == req[r].conn IN
    \/ UNCHANGED charge
    \/ /\ charge[c].phase = from
       /\ charge[c].n = req[r].n
       /\ \E o \in outcomes : charge' = [charge EXCEPT ![c].phase = o.phase, ![c].tid = o.tid]

Accepts(s) == {[phase |-> "charging", tid |-> s]}

\* A rejected charge ends, with or without a StopTransaction.
Rejects(id) == {[phase |-> p, tid |-> id] : p \in {"stopping", "free"}}

\* Rejected comes with a random transaction id, of a session or of none.
AnswerRejected(r) ==
    \E id \in RandomIds \cup {None} :
        /\ Answer(r, "starting", Rejects(id))
        /\ exempt' = IF charge' = charge THEN exempt ELSE exempt \cup ({id} \cap Sessions)

StopAnswered == {[phase |-> "free", tid |-> None]}

-----------------------------------------------------------------------------
(* The handlers of OcppService.  An operator whose name has an underscore  *)
(* is a defective variant of the one that follows it.                      *)

\* The user is left out of the search; any session is found.
Candidates_AnyUser(u, c) == UNION {ActiveSessions(v, c) : v \in Users}
Candidates_Nothing(u, c) == {}

\* findFirst orders by startTime, which mixes the clocks of stations and
\* server: any of them may be the latest.
Candidates(u, c) == ActiveSessions(u, c)

\* handleStartTransaction, up to its search for an active session.
StartFinds(r, s) ==
    /\ req[r].pc = "start"
    /\ s \in Candidates(req[r].user, req[r].conn)
    /\ req' = [req EXCEPT ![r].pc = "start.reuse", ![r].session = s]
    /\ UNCHANGED <<session, charge, meter, told, exempt, apart, counters>>

StartFindsNone(r) ==
    /\ req[r].pc = "start"
    /\ Candidates(req[r].user, req[r].conn) = {}
    /\ Continues(r, "start.create")
    /\ UNCHANGED <<session, charge, meter, told, exempt, apart, counters>>

\* The update sets startTime only; whatever the status is by now, the charge
\* is accepted.
StartReuses(r) ==
    /\ req[r].pc = "start.reuse"
    /\ Exists(req[r].session)
    /\ Answer(r, "starting", Accepts(req[r].session))
    /\ Ends(r)
    /\ UNCHANGED <<session, meter, told, exempt, apart, counters>>

StartCreates(r, s) ==
    /\ req[r].pc = "start.create"
    /\ Insert(s, NewRow(req[r].user, req[r].conn, "ACTIVE", 0))
    /\ Answer(r, "starting", Accepts(s))
    /\ Ends(r)
    /\ UNCHANGED <<meter, told, exempt, apart, counters>>

\* The session found is gone, or no id is left for a new one: the statement
\* throws.
StartRejects(r) ==
    /\ \/ req[r].pc = "start.reuse" /\ ~ Exists(req[r].session)
       \/ req[r].pc = "start.create" /\ \A s \in Sessions : session[s].status # "NONE"
    /\ AnswerRejected(r)
    /\ Ends(r)
    /\ UNCHANGED <<session, meter, told, apart, counters>>

\* The readings are added up.
Metered_Sum(row, energy) == [row EXCEPT !.energy = @ + energy]

Metered(row, energy) == [row EXCEPT !.energy = energy]

\* handleMeterValues: whatever the status is; a missing row is an error that
\* is logged.  (Its read of the row is for the price only.)
MeterWrites(r) ==
    LET s == req[r].session IN
    /\ req[r].pc = "meter"
    /\ session' = IF s # None /\ Exists(s)
                  THEN [session EXCEPT ![s] = Metered(@, req[r].energy)]
                  ELSE session
    /\ Ends(r)
    /\ UNCHANGED <<charge, meter, told, exempt, apart, counters>>

\* The status is left as it is, or turned round.
Stopped_Active(row, energy) == [row EXCEPT !.energy = energy]
Stopped_Reopened(row, energy) ==
    [row EXCEPT !.status = IF @ = "COMPLETED" THEN "ACTIVE" ELSE "COMPLETED"]

Stopped(row, energy) ==
    [row EXCEPT !.status = "COMPLETED", !.energy = IF energy > 0 THEN energy ELSE @]

\* handleStopTransaction: Accepted, also when there is no such row.
StopWrites(r) ==
    LET s == req[r].session IN
    /\ req[r].pc = "stop"
    /\ session' = IF s # None /\ Exists(s)
                  THEN [session EXCEPT ![s] = Stopped(@, req[r].energy)]
                  ELSE session
    /\ Answer(r, "stopping", StopAnswered)
    /\ Ends(r)
    /\ UNCHANGED <<meter, told, exempt, apart, counters>>

\* A statement fails.  StartTransaction is rejected, StopTransaction is
\* answered Accepted all the same, the others write nothing.
Fails(r) ==
    /\ failures < MaxFailures
    /\ failures' = failures + 1
    /\ \/ req[r].pc \in StartSteps /\ AnswerRejected(r)
       \/ req[r].pc = "stop" /\ Answer(r, "stopping", StopAnswered) /\ UNCHANGED exempt
       \/ req[r].pc \in {"meter", "remote.delete", "edit"} /\ UNCHANGED <<charge, exempt>>
    /\ Ends(r)
    /\ UNCHANGED <<session, meter, told, apart, edits, crashes>>

-----------------------------------------------------------------------------
(* The handlers of ChargingSessionService.                                 *)

\* remoteStartSession, up to the insert of the session it pre-creates.
RemoteStart(r, u, c, s) ==
    /\ Arrives(r, [Idle EXCEPT !.pc = "remote.send", !.conn = c, !.user = u, !.session = s])
    /\ Insert(s, NewRow(u, c, "ACTIVE", 0))
    /\ UNCHANGED <<charge, meter, told, exempt, counters>>

\* sendCallToStation: the command is on its way, and nobody asks for more ...
RemoteSent(r) ==
    /\ req[r].pc = "remote.send"
    /\ Ends(r)
    /\ UNCHANGED <<session, charge, meter, told, exempt, apart, counters>>

\* ... or the station is not connected.
RemoteRefused(r) ==
    /\ req[r].pc = "remote.send"
    /\ Continues(r, "remote.delete")
    /\ UNCHANGED <<session, charge, meter, told, exempt, apart, counters>>

\* The pre-created session is deleted, whoever uses it by now.
RemoteDeletes(r) ==
    /\ req[r].pc = "remote.delete"
    /\ IF Exists(req[r].session) THEN Delete(req[r].session) ELSE UNCHANGED session
    /\ Ends(r)
    /\ UNCHANGED <<charge, meter, told, exempt, apart, counters>>

Edits ==
    /\ edits < MaxEdits
    /\ edits' = edits + 1
    /\ UNCHANGED <<charge, meter, failures, crashes>>

ByHand(s) == exempt' = exempt \cup {s}

\* createForUser and adminCreate: any status and energy the caller names.
CreateByHand(s, u, c, status, energy) ==
    /\ Insert(s, NewRow(u, c, status, energy))
    /\ ByHand(s) /\ Edits
    /\ UNCHANGED <<req, told, apart>>

\* adminUpdate, up to its read of the row.
AdminReads(r, s) ==
    /\ Exists(s)
    /\ Arrives(r, [Idle EXCEPT !.pc = "edit", !.conn = session[s].conn, !.session = s,
                               !.seen = session[s].status])
    /\ Edits
    /\ UNCHANGED <<session, told, exempt>>

\* The status read is not looked at.
Announced_Always(seen, status) == status = "COMPLETED"

Announced(seen, status) == seen # status /\ status = "COMPLETED"

\* It writes any of connector, energy and status, and tells the user if the
\* session was not completed when it read it.  A missing row is an error.
AdminWrites(r, c, status, energy) ==
    LET s == req[r].session IN
    /\ req[r].pc = "edit"
    /\ Exists(s)
    /\ session' = [session EXCEPT ![s] = NewRow(@.user, c, status, energy)]
    /\ told' = IF Announced(req[r].seen, status) THEN [told EXCEPT ![s] = @ + 1] ELSE told
    /\ ByHand(s)
    /\ Ends(r)
    /\ UNCHANGED <<charge, meter, apart, counters>>

AdminFails(r) ==
    /\ req[r].pc = "edit"
    /\ ~ Exists(req[r].session)
    /\ Ends(r)
    /\ UNCHANGED <<session, charge, meter, told, exempt, apart, counters>>

AdminRemove(s) ==
    /\ Exists(s)
    /\ Delete(s)
    /\ ByHand(s) /\ Edits
    /\ UNCHANGED <<req, told, apart>>

\* The process stops and starts again; what stations do goes on.
Crash ==
    /\ crashes < MaxCrashes
    /\ crashes' = crashes + 1
    /\ req' = [r \in Reqs |-> Idle]
    /\ UNCHANGED <<session, charge, meter, told, exempt, apart, failures, edits>>

-----------------------------------------------------------------------------

HandlerStep(r) ==
    \/ \E s \in Sessions : StartFinds(r, s) \/ StartCreates(r, s)
    \/ StartFindsNone(r) \/ StartReuses(r) \/ StartRejects(r)
    \/ MeterWrites(r) \/ StopWrites(r)
    \/ RemoteSent(r) \/ RemoteRefused(r) \/ RemoteDeletes(r)
    \/ AdminFails(r)
    \/ \E c \in Conns, status \in SessionStatuses, energy \in Energies :
           AdminWrites(r, c, status, energy)

StationStep(c) ==
    \/ \E u \in Users : PlugIn(c, u)
    \/ \E r \in Reqs : SendStart(r, c) \/ SendMeter(r, c) \/ SendStop(r, c)
    \/ Draw(c) \/ Finish(c)

Next ==
    \/ \E r \in Reqs : HandlerStep(r) \/ Fails(r)
    \/ \E c \in Conns : StationStep(c)
    \/ \E r \in Reqs, u \in Users, c \in Conns, s \in Sessions : RemoteStart(r, u, c, s)
    \/ \E s \in Sessions, u \in Users, c \in Conns,
          status \in SessionStatuses, energy \in Energies : CreateByHand(s, u, c, status, energy)
    \/ \E r \in Reqs, s \in Sessions : AdminReads(r, s)
    \/ \E s \in Sessions : AdminRemove(s)
    \/ Crash

Spec == Init /\ [][Next]_vars

\* Calls in flight are served, and a station repeats StopTransaction until it
\* is answered (strongly fair: it competes for slots).
Fairness ==
    /\ \A r \in Reqs : WF_vars(HandlerStep(r))
    /\ \A c \in Conns : SF_vars(\E r \in Reqs : SendStop(r, c))

FairSpec == Spec /\ Fairness

-----------------------------------------------------------------------------
(* What must hold.  The stops of rejected charges name random ids, and     *)
(* administrators write what they like: the sessions they meet are exempt. *)

Charging(c) == charge[c].phase = "charging"

\* A charge that was accepted, and every call about it, is about a session of
\* its own connector and user: no reading ends up on another's bill.
OwnSession ==
    /\ \A r \in Reqs :
           LET q == req[r] IN
           /\ q.pc \in {"start.reuse", "meter", "stop"}
           /\ q.session \notin exempt \cup {None} /\ Exists(q.session)
           => session[q.session].conn = q.conn /\ session[q.session].user = q.user
    /\ \A c \in Conns :
           LET s == charge[c].tid IN
           s \notin exempt \cup {None} /\ Exists(s) =>
               session[s].conn = c /\ session[s].user = charge[c].user

\* No session is billed for more than the register of its connector shows.
NoPhantomEnergy ==
    \A s \in Sessions \ exempt : Exists(s) => session[s].energy <= meter[session[s].conn]

\* A charge the backend has accepted has a ChargingSession, and it is active
\* (docs/ocpp-integration.md:24), as long as calls about its connector are apart.
ChargeHasSession ==
    \A c \in apart :
        Charging(c) => charge[c].tid \in exempt \cup ActiveSessions(charge[c].user, c)

\* StartTransaction creates a session only if there is none to reuse
\* (ocpp.service.ts:172, charging-session.service.ts:167), as long as calls are apart.
ReusesSession ==
    [][\A r \in Reqs, s \in Sessions :
           StartCreates(r, s) /\ req[r].conn \in apart =>
               ActiveSessions(req[r].user, req[r].conn) \subseteq exempt]_vars

\* What StopTransaction has settled no later call of a station changes
\* (docs/ocpp-integration.md:47), as long as calls are apart.
FinishedIsFinal ==
    [][\A s \in Sessions \ exempt' :
           session[s].status = "COMPLETED" /\ session[s].conn \in apart =>
               session'[s] = session[s]]_vars

\* A session that is gone stays gone: no late call brings it back.
DeletedForGood ==
    [][\A s \in Sessions : session[s].status = "DELETED" => session'[s] = session[s]]_vars

\* A user is told of the end of a charge only when the session turns from
\* another status to COMPLETED (charging-session.service.ts:127), unless a stop
\* or another edit came between the read and the write of the edit.
ToldOfTheEnd ==
    [][\A s \in Sessions :
           told'[s] # told[s] /\ (\A r \in Reqs : req[r].session = s => req[r].conn \in apart) =>
               session[s].status # "COMPLETED" /\ session'[s].status = "COMPLETED"]_vars

\* A session is completed by the end of its own charge only
\* (docs/ocpp-integration.md:26).
StopIsReal ==
    [][\A s \in Sessions \ exempt' :
           session[s].status = "ACTIVE" /\ session'[s].status = "COMPLETED" =>
               \E r \in Reqs : req[r].pc = "stop" /\ req[r].conn = session[s].conn
                               /\ req[r].user = session[s].user]_vars

\* The session of a charge that ended does not stay active for ever.
StoppedIsCompleted ==
    \A c \in Conns, s \in Sessions :
        charge[c].phase = "stopping" /\ charge[c].tid = s ~> session[s].status # "ACTIVE"

-----------------------------------------------------------------------------
(* The inductive invariant, from which ChargingSessionProofs derives       *)
(* OwnSession, NoPhantomEnergy and StopIsReal.                             *)

\* Session s is that of user u on connector c, or was and is deleted.
Own(s, u, c) ==
    \/ s \in exempt
    \/ /\ session[s].status # "NONE"
       /\ Exists(s) => session[s].user = u /\ session[s].conn = c

RowOK(s) ==
    Exists(s) => /\ session[s].user \in Users
                 /\ session[s].conn \in Conns
                 /\ s \notin exempt => session[s].energy <= meter[session[s].conn]

ChargeOK(c) ==
    LET g == charge[c] IN
    /\ g.phase # "free" => g.user \in Users
    /\ g.tid # None => Own(g.tid, g.user, c)

\* A call carries what its charge had when it was sent: n tells which charge.
OcppCallOK(q) ==
    /\ q.conn \in Conns /\ q.user \in Users
    /\ q.energy <= meter[q.conn]
    /\ q.n <= charge[q.conn].n
    /\ q.n = charge[q.conn].n => q.user = charge[q.conn].user
    /\ q.pc = "start.reuse" => q.session # None
    /\ q.session # None => Own(q.session, q.user, q.conn)

CallOK(q) ==
    /\ q.pc \in OcppSteps => OcppCallOK(q)
    /\ q.pc \in RemoteSteps \cup {"edit"} => q.session \in Sessions

SessionInv ==
    /\ TypeOK
    /\ \A s \in Sessions : RowOK(s)
    /\ \A c \in Conns : ChargeOK(c)
    /\ \A r \in Reqs : CallOK(req[r])
=============================================================================
