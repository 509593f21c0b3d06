----------------------------- MODULE PushDevices -----------------------------
(***************************************************************************)
(* Devices that get pushes, and the notifications of users.                *)
(* Source: modules/notification/notification.service.ts and the models     *)
(* UserDevice and Notification; Firebase is external.  sendToMany and      *)
(* sendPush have no callers.                                               *)
(*                                                                         *)
(* A sending reads the active devices, stores notifications (broadcast     *)
(* only), hands the tokens to Firebase and deactivates those that Firebase *)
(* no longer knows.  A removal reads the device and then deactivates it.   *)
(***************************************************************************)
EXTENDS Naturals, FiniteSets

CONSTANTS Users, Devices,     \* device tokens
          PushReqs, NoUser,
          MaxMessages,        \* bound on broadcasts
          BatchLimit          \* tokens Firebase takes in one call (500)

ASSUME NoUserAssumption == NoUser \notin Users
ASSUME PushNumbers == MaxMessages \in Nat /\ BatchLimit \in Nat

VARIABLES device,     \* UserDevice
          inbox,      \* Notification: what each user has of each broadcast
          messages,   \* how many broadcasts there were
          known,      \* Firebase: the tokens of installed apps
          pushReq,
          pushed,     \* broadcast, device and the user it was for (history)
          said,       \* whose a device is by the last call about it (history)
          crossed     \* devices registered while a removal was in hand (history)

pushVars == <<device, inbox, messages, known, pushReq, pushed, said, crossed>>

Messages == 1 .. MaxMessages
DeviceRows == [owner : Users \cup {NoUser}, active : BOOLEAN]
PushCalls == [pc : {"idle", "remove", "store", "push", "drop"}, to : Users \cup {NoUser},
              devices : SUBSET Devices, owner : [Devices -> Users \cup {NoUser}],
              message : 0 .. MaxMessages]
AtEase == [pc |-> "idle", to |-> NoUser, devices |-> {},
           owner |-> [t \in Devices |-> NoUser], message |-> 0]

PushTypeOK ==
    /\ device \in [Devices -> DeviceRows]
    /\ inbox \in [Users -> [Messages -> {"none", "unread", "read"}]]
    /\ messages \in 0 .. MaxMessages
    /\ known \subseteq Devices
    /\ pushReq \in [PushReqs -> PushCalls]
    /\ pushed \subseteq Messages \X Devices \X Users
    /\ said \in [Devices -> Users \cup {NoUser}]
    /\ crossed \subseteq Devices

PushInit ==
    /\ device = [t \in Devices |-> [owner |-> NoUser, active |-> FALSE]]
    /\ inbox = [u \in Users |-> [m \in Messages |-> "none"]]
    /\ messages = 0
    /\ known = Devices
    /\ pushReq = [r \in PushReqs |-> AtEase]
    /\ pushed = {}
    /\ said = [t \in Devices |-> NoUser]
    /\ crossed = {}

PushCall(r, call) == pushReq[r] = AtEase /\ pushReq' = [pushReq EXCEPT ![r] = call]

PushDone(r) == pushReq' = [pushReq EXCEPT ![r] = AtEase]

-----------------------------------------------------------------------------
(* registerDevice, removeDevice.                                           *)

Removing(t) == {r \in PushReqs : pushReq[r].pc = "remove" /\ t \in pushReq[r].devices}

\* upsert by the token, whoever had it before
RegisterDevice(u, t) ==
    /\ device' = [device EXCEPT ![t] = [owner |-> u, active |-> TRUE]]
    /\ said' = [said EXCEPT ![t] = u]
    /\ crossed' = IF Removing(t) = {} THEN crossed \ {t} ELSE crossed \cup {t}
    /\ UNCHANGED <<inbox, messages, known, pushReq, pushed>>

MayRemove(u, t) == device[t].owner = u

RemoveBegins(r, u, t) ==
    /\ MayRemove(u, t)
    /\ PushCall(r, [AtEase EXCEPT !.pc = "remove", !.to = u, !.devices = {t}])
    /\ UNCHANGED <<device, inbox, messages, known, pushed, said, crossed>>

Deactivates(r) ==
    LET ts == pushReq[r].devices IN
    /\ pushReq[r].pc = "remove"
    /\ device' = [t \in Devices |->
           IF t \in ts THEN [device[t] EXCEPT !.active = FALSE] ELSE device[t]]
    /\ said' = [t \in Devices |->
           IF t \in ts /\ said[t] = pushReq[r].to THEN NoUser ELSE said[t]]
    /\ PushDone(r)
    /\ UNCHANGED <<inbox, messages, known, pushed, crossed>>

\* The app goes; Firebase never knows its token again.
Uninstall(t) ==
    /\ t \in known
    /\ known' = known \ {t}
    /\ UNCHANGED <<device, inbox, messages, pushReq, pushed, said, crossed>>

-----------------------------------------------------------------------------
(* sendToUser, broadcast, sendMulticast.                                   *)

ActiveOf(us) == {t \in Devices : device[t].active /\ device[t].owner \in us}

\* Nothing is stored for a message to one user.
SendToUser(r, u) ==
    /\ ActiveOf({u}) # {}
    /\ PushCall(r, [AtEase EXCEPT !.pc = "push", !.to = u, !.devices = ActiveOf({u})])
    /\ UNCHANGED <<device, inbox, messages, known, pushed, said, crossed>>

BroadcastBegins(r) ==
    /\ messages < MaxMessages
    /\ messages' = messages + 1
    /\ PushCall(r, [AtEase EXCEPT
           !.pc = "store", !.devices = ActiveOf(Users), !.message = messages + 1,
           !.owner = [t \in Devices |-> IF t \in ActiveOf(Users) THEN device[t].owner ELSE NoUser]])
    /\ UNCHANGED <<device, inbox, known, pushed, said, crossed>>

\* The owners are read again when the notifications are stored.
Addressees_Reread(r) == {device[t].owner : t \in pushReq[r].devices}

\* userIds, as read with the devices
Addressees(r) == {pushReq[r].owner[t] : t \in pushReq[r].devices}

\* One transaction, and one notification for each user.
Stores(r) ==
    LET m == pushReq[r].message IN
    /\ pushReq[r].pc = "store"
    /\ inbox' = [u \in Users |->
           IF u \in Addressees(r) THEN [inbox[u] EXCEPT ![m] = "unread"] ELSE inbox[u]]
    /\ IF pushReq[r].devices = {} THEN PushDone(r)
       ELSE pushReq' = [pushReq EXCEPT ![r].pc = "push"]
    /\ UNCHANGED <<device, messages, known, pushed, said, crossed>>

Delivered(r) ==
    {<<pushReq[r].message, t, pushReq[r].owner[t]>> : t \in pushReq[r].devices \cap known}

\* More tokens than one call takes: it throws, and nobody gets anything.
Pushes(r) ==
    LET failed == pushReq[r].devices \ known IN
    /\ pushReq[r].pc = "push"
    /\ IF Cardinality(pushReq[r].devices) > BatchLimit
       THEN PushDone(r) /\ UNCHANGED pushed
       ELSE /\ pushed' = IF pushReq[r].message = 0 THEN pushed ELSE pushed \cup Delivered(r)
            /\ IF failed = {} THEN PushDone(r)
               ELSE pushReq' = [pushReq EXCEPT ![r].pc = "drop", ![r].devices = failed]
    /\ UNCHANGED <<device, inbox, messages, known, said, crossed>>

\* The updates of Promise.all come in any order.
Drops(r, t) ==
    LET left == pushReq[r].devices \ {t} IN
    /\ pushReq[r].pc = "drop"
    /\ t \in pushReq[r].devices
    /\ device' = [device EXCEPT ![t].active = FALSE]
    /\ IF left = {} THEN PushDone(r) ELSE pushReq' = [pushReq EXCEPT ![r].devices = left]
    /\ UNCHANGED <<inbox, messages, known, pushed, said, crossed>>

-----------------------------------------------------------------------------
(* markRead, markAllRead.                                                  *)

MarkRead(u, m) ==
    /\ inbox[u][m] # "none"
    /\ inbox' = [inbox EXCEPT ![u][m] = "read"]
    /\ UNCHANGED <<device, messages, known, pushReq, pushed, said, crossed>>

MarkAllRead(u) ==
    /\ inbox' = [inbox EXCEPT ![u] =
           [m \in Messages |-> IF inbox[u][m] = "unread" THEN "read" ELSE inbox[u][m]]]
    /\ UNCHANGED <<device, messages, known, pushReq, pushed, said, crossed>>

\* The database or Firebase fails, or the process stops.
PushCutOff(r) ==
    /\ pushReq[r] # AtEase
    /\ PushDone(r)
    /\ UNCHANGED <<device, inbox, messages, known, pushed, said, crossed>>

PushNext ==
    \/ \E u \in Users, t \in Devices : RegisterDevice(u, t)
    \/ \E r \in PushReqs, u \in Users, t \in Devices : RemoveBegins(r, u, t)
    \/ \E r \in PushReqs, u \in Users : SendToUser(r, u)
    \/ \E r \in PushReqs, t \in Devices : Drops(r, t)
    \/ \E r \in PushReqs :
           Deactivates(r) \/ BroadcastBegins(r) \/ Stores(r) \/ Pushes(r) \/ PushCutOff(r)
    \/ \E t \in Devices : Uninstall(t)
    \/ \E u \in Users, m \in Messages : MarkRead(u, m)
    \/ \E u \in Users : MarkAllRead(u)

PushSpec == PushInit /\ [][PushNext]_pushVars

-----------------------------------------------------------------------------

\* Requests carry what they read, and only tokens unknown to Firebase are dropped.
PushCallsOK ==
    \A r \in PushReqs :
        LET q == pushReq[r] IN
        /\ q.message \in 0 .. messages
        /\ q.pc = "remove" => q.to \in Users
        /\ q.pc = "store" => q.message # 0
        /\ q.pc = "push" /\ q.message # 0 =>
               \A t \in q.devices : inbox[q.owner[t]][q.message] # "none"
        /\ q.pc \in {"store", "push"} /\ q.message # 0 =>
               \A t \in q.devices : q.owner[t] \in Users
        /\ q.pc = "drop" => q.devices \cap known = {}

\* Whoever gets the push of a broadcast has its notification in the list, though
\* devices change hands, are removed or vanish between the read, the transaction
\* and the call of Firebase (notification.service.ts:249-289).
PushedIsStored == \A d \in pushed : inbox[d[3]][d[1]] # "none"

DevicesFit ==
    /\ PushTypeOK
    /\ \A t \in Devices : device[t].active => device[t].owner \in Users
    /\ PushCallsOK
    /\ PushedIsStored

\* A device is active, and its owner's, exactly if that is what its owner last asked
\* for, whatever pushes to it fail late: unless the app is gone, or the device was
\* registered between the two statements of a removal (notification.service.ts:80-94).
SteadyDevices ==
    \A t \in known \ crossed :
        /\ device[t].active <=> said[t] # NoUser
        /\ said[t] # NoUser => device[t].owner = said[t]

\* Pushes and notifications go to the same people, and devices are as last asked for.
DevicesInv == DevicesFit /\ SteadyDevices
=============================================================================
