--------------------------- MODULE ConnectorStatus ---------------------------
(***************************************************************************)
(* The status of connectors: the Connector row, the ConnectorStatusLog and *)
(* the connector_status_changed event of the apps, as StatusNotification   *)
(* and the administrator's calls write them.  Source: handleStatus-        *)
(* Notification and mapStatus of modules/ocpp/ocpp.service.ts, with        *)
(* modules/connector, modules/connector-status-log and modules/socket.     *)
(*                                                                         *)
(* A notification in flight occupies a slot of Reqs; its three writes are  *)
(* three statements with an await after each.  A connector is steady if    *)
(* nothing has disturbed its latest notification: no other one was in      *)
(* flight with it, no statement failed, no restart and no edit came since. *)
(***************************************************************************)
EXTENDS Naturals, Sequences

CONSTANTS Conns, Reqs, None,
          RawStatuses,  \* the OCPP statuses stations report
          MaxChanges,   \* bound on the changes of a connector
          MaxFailures,  \* bound on failing statements
          MaxEdits,     \* bound on the calls of administrators
          MaxCrashes    \* bound on the restarts of the server

ASSUME BoundsAssumption == {MaxChanges, MaxFailures, MaxEdits, MaxCrashes} \subseteq Nat
ASSUME NoneAssumption == None \notin Conns \cup RawStatuses

VARIABLES actual,     \* what each connector is really doing
          connector,  \* Connector.status, or GONE
          log,        \* ConnectorStatusLog entries, by connector
          shown,      \* status in the last event about each connector
          held,       \* statuses each row has had (history)
          req,        \* the notifications in flight
          steady,     \* connectors whose latest notification is undisturbed (history)
          changes, failures, edits, crashes

counters == <<changes, failures, edits, crashes>>
vars == <<actual, connector, log, shown, held, req, steady, counters>>

Statuses == {"AVAILABLE", "OCCUPIED", "OUT_OF_SERVICE"}
Steps == {"idle", "update", "log", "emit"}
Idle == [pc |-> "idle", conn |-> None, raw |-> None]
Calls == [pc : Steps, conn : Conns \cup {None}, raw : RawStatuses \cup {None}]

TypeOK ==
    /\ actual \in [Conns -> RawStatuses]
    /\ connector \in [Conns -> Statuses \cup {"GONE"}]
    /\ log \in [Conns -> Seq(Statuses)]
    /\ shown \in [Conns -> RawStatuses \cup {None}]
    /\ held \in [Conns -> SUBSET Statuses]
    /\ req \in [Reqs -> Calls]
    /\ steady \subseteq Conns
    /\ changes \in [Conns -> 0 .. MaxChanges]
    /\ failures \in 0 .. MaxFailures
    /\ edits \in 0 .. MaxEdits
    /\ crashes \in 0 .. MaxCrashes

Init ==
    /\ actual \in [Conns -> RawStatuses]
    /\ connector = [c \in Conns |-> "AVAILABLE"]
    /\ log = [c \in Conns |-> <<>>]
    /\ shown = [c \in Conns |-> None]
    /\ held = [c \in Conns |-> {"AVAILABLE"}]
    /\ req = [r \in Reqs |-> Idle]
    /\ steady = {}
    /\ changes = [c \in Conns |-> 0]
    /\ failures = 0 /\ edits = 0 /\ crashes = 0

\* mapStatus: what it does not know is AVAILABLE.
MapStatus(raw) ==
    CASE raw \in {"Occupied", "Charging", "Preparing", "SuspendedEV"} -> "OCCUPIED"
      [] raw \in {"Faulted", "Unavailable"} -> "OUT_OF_SERVICE"
      [] OTHER -> "AVAILABLE"

InHand(c) == {r \in Reqs : req[r].conn = c}

Exists(c) == connector[c] # "GONE"

Continues(r, pc) == req' = [req EXCEPT ![r].pc = pc]

Ends(r) == req' = [req EXCEPT ![r] = Idle]

SetStatus(c, status) ==
    /\ connector' = [connector EXCEPT ![c] = status]
    /\ held' = [held EXCEPT ![c] = @ \cup {status}]

AddLog(c, status) == log' = [log EXCEPT ![c] = Append(@, status)]

-----------------------------------------------------------------------------
(* The station: a connector changes and the station reports it.            *)

Change(r, c, raw) ==
    /\ changes[c] < MaxChanges
    /\ changes' = [changes EXCEPT ![c] = @ + 1]
    /\ req[r] = Idle
    /\ Exists(c)
    /\ steady' = IF InHand(c) = {} THEN steady \cup {c} ELSE steady \ {c}
    /\ actual' = [actual EXCEPT ![c] = raw]
    /\ req' = [req EXCEPT ![r] = [pc |-> "update", conn |-> c, raw |-> raw]]
    /\ UNCHANGED <<connector, log, shown, held, failures, edits, crashes>>

-----------------------------------------------------------------------------
(* handleStatusNotification, after it has found the connector.  An operator *)
(* whose name has an underscore is a defective variant of the one that     *)
(* follows it.                                                             *)

\* The log is skipped.
AfterUpdate_Skips == "emit"

AfterUpdate == "log"

\* A connector out of service stays so until somebody resets it.
Stored_Sticky(c, raw) ==
    IF connector[c] = "OUT_OF_SERVICE" THEN connector[c] ELSE MapStatus(raw)

Stored(c, raw) == MapStatus(raw)

Updates(r) ==
    LET c == req[r].conn IN
    /\ req[r].pc = "update"
    /\ Exists(c)
    /\ SetStatus(c, Stored(c, req[r].raw))
    /\ Continues(r, AfterUpdate)
    /\ UNCHANGED <<actual, log, shown, steady, counters>>

Logs(r) ==
    LET c == req[r].conn IN
    /\ req[r].pc = "log"
    /\ Exists(c)
    /\ AddLog(c, MapStatus(req[r].raw))
    /\ Continues(r, "emit")
    /\ UNCHANGED <<actual, connector, shown, held, steady, counters>>

\* emitConnectorStatus gets the status the station sent, not the mapped one.
Emits(r) ==
    /\ req[r].pc = "emit"
    /\ shown' = [shown EXCEPT ![req[r].conn] = req[r].raw]
    /\ Ends(r)
    /\ UNCHANGED <<actual, connector, log, held, steady, counters>>

\* The connector is gone, or a statement fails: the error is logged, the rest
\* of the writes is left out, and the station gets its answer.
GivesUp(r) ==
    /\ req[r].pc \in {"update", "log"}
    /\ \/ ~ Exists(req[r].conn) /\ UNCHANGED failures
       \/ failures < MaxFailures /\ failures' = failures + 1
    /\ steady' = steady \ {req[r].conn}
    /\ Ends(r)
    /\ UNCHANGED <<actual, connector, log, shown, held, changes, edits, crashes>>

-----------------------------------------------------------------------------
(* ConnectorService and ConnectorStatusLogService, for administrators.     *)

Edits(c) ==
    /\ edits < MaxEdits
    /\ edits' = edits + 1
    /\ steady' = steady \ {c}
    /\ UNCHANGED <<actual, shown, req, changes, failures, crashes>>

\* update: the status column like any other; no log, no event.
AdminSets(c, status) ==
    /\ Exists(c)
    /\ SetStatus(c, status)
    /\ Edits(c)
    /\ UNCHANGED log

AdminLogs(c, status) ==
    /\ Exists(c)
    /\ AddLog(c, status)
    /\ Edits(c)
    /\ UNCHANGED <<connector, held>>

AdminRemovesLog(c, i) ==
    /\ log' = [log EXCEPT ![c] = SubSeq(@, 1, i - 1) \o SubSeq(@, i + 1, Len(@))]
    /\ Edits(c)
    /\ UNCHANGED <<connector, held>>

\* The log's foreign key restricts the deletion (so do sessions, see
\* ChargingSession).
MayRemove(c) == log[c] = <<>>

AdminRemoves(c) ==
    /\ Exists(c)
    /\ MayRemove(c)
    /\ connector' = [connector EXCEPT ![c] = "GONE"]
    /\ Edits(c)
    /\ UNCHANGED <<log, held>>

\* The process stops and starts again; a station reports again at its next
\* change.
Crash ==
    /\ crashes < MaxCrashes
    /\ crashes' = crashes + 1
    /\ req' = [r \in Reqs |-> Idle]
    /\ steady' = {c \in steady : InHand(c) = {}}
    /\ UNCHANGED <<actual, connector, log, shown, held, changes, failures, edits>>

Next ==
    \/ \E r \in Reqs, c \in Conns, raw \in RawStatuses : Change(r, c, raw)
    \/ \E r \in Reqs : Updates(r) \/ Logs(r) \/ Emits(r) \/ GivesUp(r)
    \/ \E c \in Conns, status \in Statuses : AdminSets(c, status) \/ AdminLogs(c, status)
    \/ \E c \in Conns : \E i \in 1 .. Len(log[c]) : AdminRemovesLog(c, i)
    \/ \E c \in Conns : AdminRemoves(c)
    \/ Crash

Spec == Init /\ [][Next]_vars

-----------------------------------------------------------------------------
(* What must hold.                                                         *)

LogStatuses(c) == {log[c][i] : i \in 1 .. Len(log[c])}

\* Connectors whose latest notification has been handled undisturbed.
Settled == {c \in steady : InHand(c) = {}}

\* The row of a settled connector tells what the connector does (its last
\* report, mapped), whatever went wrong before that report.
RowIsCurrent == \A c \in Settled : connector[c] = MapStatus(actual[c])

\* Its newest log entry tells the same as the row
\* (docs/ocpp-integration.md:22).
LogAgrees == \A c \in Settled : log[c] # <<>> /\ log[c][Len(log[c])] = connector[c]

\* The last event the apps got about it tells the same as the row.
ShownAgrees == \A c \in Settled : shown[c] # None /\ MapStatus(shown[c]) = connector[c]

\* No log entry of a station is about a status the connector never had,
\* whatever overlaps, fails or crashes between the statements.
LoggedWasHeld == edits = 0 => \A c \in Conns : LogStatuses(c) \subseteq held[c]

\* An event is announced only after it has been logged.
ShownWasLogged ==
    edits = 0 =>
        \A c \in Conns : shown[c] # None => MapStatus(shown[c]) \in LogStatuses(c)

\* No log entry is left without its connector.
NoOrphanLogs == \A c \in Conns : ~ Exists(c) => log[c] = <<>>

\* A notification that is handled undisturbed puts row, log and event right, whatever
\* went wrong before it.
SettlesRight == RowIsCurrent /\ LogAgrees /\ ShownAgrees

\* Nothing is logged that was not held, announced that was not logged, or left behind
\* (ocpp.service.ts:114-140).
StatusInv == TypeOK /\ LoggedWasHeld /\ ShownWasLogged /\ NoOrphanLogs
=============================================================================
