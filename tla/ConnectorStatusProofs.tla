------------------------ MODULE ConnectorStatusProofs ------------------------
(***************************************************************************)
(* The status of connectors, for any number of connectors, notifications   *)
(* in flight, failures, edits and restarts: nothing is logged that was not *)
(* held nor announced that was not logged, and a connector whose latest    *)
(* notification was not disturbed has row, log and event right.            *)
(***************************************************************************)
EXTENDS ConnectorStatus, TLAPS

\* A request that is under way is about a connector and a status.
CallsFit ==
    \A r \in Reqs : req[r].pc # "idle" => req[r].conn \in Conns /\ req[r].raw \in RawStatuses

\* One request at most names the connector; it carries what the connector does; and
\* what it has written so far, or the last one wrote, agrees with that.
Fits(c) ==
    /\ \A r, q \in InHand(c) : r = q
    /\ \A r \in InHand(c) : req[r].raw = actual[c]
    /\ (\A r \in InHand(c) : req[r].pc \in {"log", "emit"}) => connector[c] = MapStatus(actual[c])
    /\ (\A r \in InHand(c) : req[r].pc = "emit") =>
           Len(log[c]) > 0 /\ log[c][Len(log[c])] = MapStatus(actual[c])
    /\ InHand(c) = {} => shown[c] = actual[c]

SteadyFit == \A c \in steady : Fits(c)

\* What a request is about to log was held, what it is about to announce was logged.
Traced(r) ==
    /\ req[r].pc \in {"log", "emit"} => MapStatus(req[r].raw) \in held[req[r].conn]
    /\ req[r].pc = "emit" /\ edits = 0 => MapStatus(req[r].raw) \in LogStatuses(req[r].conn)

HistoryFit == \A r \in Reqs : Traced(r)

LEMMA MapStatusType == \A raw : MapStatus(raw) \in Statuses
BY DEF MapStatus, Statuses

\* Appending to a log adds one status to it, at its end.
LEMMA Appended ==
    ASSUME NEW s \in Seq(Statuses), NEW x \in Statuses
    PROVE  LET t == Append(s, x) IN
           /\ t \in Seq(Statuses)
           /\ Len(t) > 0 /\ t[Len(t)] = x
           /\ {t[i] : i \in 1 .. Len(t)} = {s[i] : i \in 1 .. Len(s)} \cup {x}
<1> DEFINE t == Append(s, x)
<1>1. t \in Seq(Statuses) /\ Len(t) = Len(s) + 1 /\ Len(s) \in Nat
  OBVIOUS
<1>2. t[Len(s) + 1] = x /\ \A i \in 1 .. Len(s) : t[i] = s[i]
  OBVIOUS
<1>3. {t[i] : i \in 1 .. Len(t)} = {s[i] : i \in 1 .. Len(s)} \cup {x}
  <2>1. 1 .. Len(t) = (1 .. Len(s)) \cup {Len(s) + 1}
    BY <1>1
  <2>2. QED  BY <1>2, <2>1
<1>4. QED  BY <1>1, <1>2, <1>3

\* Removing an entry leaves a log.
LEMMA EntryRemoved ==
    ASSUME NEW s \in Seq(Statuses), NEW i \in 1 .. Len(s)
    PROVE  SubSeq(s, 1, i - 1) \o SubSeq(s, i + 1, Len(s)) \in Seq(Statuses)
<1>1. SubSeq(s, 1, i - 1) \in Seq(Statuses) /\ SubSeq(s, i + 1, Len(s)) \in Seq(Statuses)
  OBVIOUS
<1>2. QED  BY <1>1

-----------------------------------------------------------------------------
(* Types.                                                                  *)

LEMMA TypeInit == Init => TypeOK
<1>1. <<>> \in Seq(Statuses)
  OBVIOUS
<1>2. QED  BY <1>1, BoundsAssumption DEF Init, TypeOK, Idle, Calls, Steps, Statuses

LEMMA CallsInit == Init => CallsFit
BY DEF Init, CallsFit, Idle

LEMMA AddLogType ==
    ASSUME TypeOK, NEW c \in Conns, NEW x \in Statuses, AddLog(c, x)
    PROVE  log' \in [Conns -> Seq(Statuses)]
<1>1. Append(log[c], x) \in Seq(Statuses)
  BY DEF TypeOK
<1>2. QED  BY <1>1 DEF AddLog, TypeOK

LEMMA SetStatusType ==
    ASSUME TypeOK, NEW c \in Conns, NEW x \in Statuses, SetStatus(c, x)
    PROVE  /\ connector' \in [Conns -> Statuses \cup {"GONE"}]
           /\ held' \in [Conns -> SUBSET Statuses]
BY DEF SetStatus, TypeOK

LEMMA CountType ==
    /\ TypeOK /\ edits < MaxEdits => edits + 1 \in 0 .. MaxEdits
    /\ TypeOK /\ failures < MaxFailures => failures + 1 \in 0 .. MaxFailures
    /\ TypeOK /\ crashes < MaxCrashes => crashes + 1 \in 0 .. MaxCrashes
    /\ \A c \in Conns : TypeOK /\ changes[c] < MaxChanges => changes[c] + 1 \in 0 .. MaxChanges
BY BoundsAssumption DEF TypeOK

LEMMA ContinuesType ==
    ASSUME TypeOK, CallsFit, NEW r \in Reqs, NEW pc \in Steps, req[r].pc # "idle", Continues(r, pc)
    PROVE  CallsFit' /\ req' \in [Reqs -> Calls]
<1> DEFINE w == [req[r] EXCEPT !.pc = pc]
<1>1. req[r] \in Calls /\ req[r].conn \in Conns /\ req[r].raw \in RawStatuses
  BY DEF TypeOK, CallsFit
<1>2. w \in Calls /\ w.conn = req[r].conn /\ w.raw = req[r].raw
  BY <1>1 DEF Calls
<1>3. req' = [req EXCEPT ![r] = w]
  BY Zenon DEF Continues
<1> HIDE DEF w
<1>4. req' \in [Reqs -> Calls]
  BY <1>2, <1>3 DEF TypeOK
<1>5. req'[r] = w /\ \A q \in Reqs : q # r => req'[q] = req[q]
  BY <1>3 DEF TypeOK
<1>6. QED  BY <1>1, <1>2, <1>4, <1>5 DEF CallsFit

\* The requests and what they carry.
LEMMA CallsStep == TypeOK /\ CallsFit /\ [Next]_vars => CallsFit' /\ req' \in [Reqs -> Calls]
<1> SUFFICES ASSUME TypeOK, CallsFit, [Next]_vars
             PROVE  CallsFit' /\ req' \in [Reqs -> Calls]
  OBVIOUS
<1>1. ASSUME NEW r \in Reqs, NEW c \in Conns, NEW raw \in RawStatuses, Change(r, c, raw)
      PROVE  CallsFit' /\ req' \in [Reqs -> Calls]
  BY <1>1 DEF Change, TypeOK, CallsFit, Calls, Steps
<1>2. ASSUME NEW r \in Reqs, Updates(r) \/ Logs(r) \/ Emits(r) \/ GivesUp(r)
      PROVE  CallsFit' /\ req' \in [Reqs -> Calls]
  <2>1. CASE Updates(r)
    <3>1. Continues(r, "log") /\ req[r].pc # "idle" /\ "log" \in Steps
      BY <2>1 DEF Updates, AfterUpdate, Steps
    <3>2. QED  BY <3>1, ContinuesType
  <2>3. CASE Logs(r)
    <3>1. Continues(r, "emit") /\ req[r].pc # "idle" /\ "emit" \in Steps
      BY <2>3 DEF Logs, Steps
    <3>2. QED  BY <3>1, ContinuesType
  <2>2. CASE Emits(r) \/ GivesUp(r)
    <3>1. req' = [req EXCEPT ![r] = Idle] /\ Idle \in Calls /\ Idle.pc = "idle"
      BY <2>2 DEF Emits, GivesUp, Ends, Idle, Calls, Steps
    <3>2. QED  BY <3>1 DEF TypeOK, CallsFit
  <2>4. QED  BY <1>2, <2>1, <2>2, <2>3
<1>3. ASSUME NEW c \in Conns, Edits(c) PROVE CallsFit' /\ req' \in [Reqs -> Calls]
  BY <1>3 DEF Edits, TypeOK, CallsFit
<1>4. ASSUME Crash PROVE CallsFit' /\ req' \in [Reqs -> Calls]
  BY <1>4 DEF Crash, CallsFit, Calls, Steps, Idle
<1>5. ASSUME UNCHANGED vars PROVE CallsFit' /\ req' \in [Reqs -> Calls]
  BY <1>5 DEF vars, TypeOK, CallsFit
<1>6. QED
  BY <1>1, <1>2, <1>3, <1>4, <1>5 DEF Next, AdminSets, AdminLogs, AdminRemovesLog, AdminRemoves

\* Every step keeps the types of rows, logs and events.
LEMMA TypeStep == TypeOK /\ CallsFit /\ [Next]_vars => TypeOK'
<1> SUFFICES ASSUME TypeOK, CallsFit, [Next]_vars PROVE TypeOK'
  OBVIOUS
<1>0. req' \in [Reqs -> Calls]
  BY CallsStep
<1>1. ASSUME NEW r \in Reqs, NEW c \in Conns, NEW raw \in RawStatuses, Change(r, c, raw)
      PROVE  TypeOK'
  BY <1>0, <1>1, CountType DEF Change, TypeOK
<1>2. ASSUME NEW r \in Reqs, Updates(r) PROVE TypeOK'
  <2>1. req[r].conn \in Conns
    BY <1>2 DEF Updates, CallsFit
  <2>2. /\ connector' \in [Conns -> Statuses \cup {"GONE"}]
        /\ held' \in [Conns -> SUBSET Statuses]
    BY <1>2, <2>1, MapStatusType, SetStatusType DEF Updates, Stored
  <2>3. QED  BY <1>0, <1>2, <2>2 DEF Updates, counters, TypeOK
<1>3. ASSUME NEW r \in Reqs, Logs(r) PROVE TypeOK'
  <2>1. req[r].conn \in Conns
    BY <1>3 DEF Logs, CallsFit
  <2>2. log' \in [Conns -> Seq(Statuses)]
    BY <1>3, <2>1, MapStatusType, AddLogType DEF Logs
  <2>3. QED  BY <1>0, <1>3, <2>2 DEF Logs, counters, TypeOK
<1>4. ASSUME NEW r \in Reqs, Emits(r) PROVE TypeOK'
  <2>1. req[r].conn \in Conns /\ req[r].raw \in RawStatuses
    BY <1>4 DEF Emits, CallsFit
  <2>2. QED  BY <1>0, <1>4, <2>1 DEF Emits, counters, TypeOK
<1>5. ASSUME NEW r \in Reqs, GivesUp(r) PROVE TypeOK'
  BY <1>0, <1>5, CountType DEF GivesUp, TypeOK
<1>6. ASSUME NEW c \in Conns, NEW x \in Statuses, AdminSets(c, x) PROVE TypeOK'
  BY <1>0, <1>6, SetStatusType, CountType DEF AdminSets, Edits, TypeOK
<1>7. ASSUME NEW c \in Conns, NEW x \in Statuses, AdminLogs(c, x) PROVE TypeOK'
  BY <1>0, <1>7, AddLogType, CountType DEF AdminLogs, Edits, TypeOK
<1>8. ASSUME NEW c \in Conns, NEW i \in 1 .. Len(log[c]), AdminRemovesLog(c, i) PROVE TypeOK'
  <2>1. log[c] \in Seq(Statuses)
    BY DEF TypeOK
  <2>2. SubSeq(log[c], 1, i - 1) \o SubSeq(log[c], i + 1, Len(log[c])) \in Seq(Statuses)
    BY <2>1, EntryRemoved
  <2>3. log' \in [Conns -> Seq(Statuses)]
    BY <1>8, <2>2 DEF AdminRemovesLog, TypeOK
  <2>4. QED  BY <1>0, <1>8, <2>3, CountType DEF AdminRemovesLog, Edits, TypeOK
<1>9. ASSUME NEW c \in Conns, AdminRemoves(c) PROVE TypeOK'
  BY <1>0, <1>9, CountType DEF AdminRemoves, Edits, TypeOK
<1>10. ASSUME Crash PROVE TypeOK'
  BY <1>0, <1>10, CountType DEF Crash, TypeOK
<1>11. ASSUME UNCHANGED vars PROVE TypeOK'
  BY <1>11 DEF vars, counters, TypeOK
<1>12. QED
  BY <1>1, <1>2, <1>3, <1>4, <1>5, <1>6, <1>7, <1>8, <1>9, <1>10, <1>11 DEF Next

-----------------------------------------------------------------------------
(* A settled connector is shown as it is.                                  *)

LEMMA SteadyInit == Init => SteadyFit
BY DEF Init, SteadyFit

\* What a step leaves alone of a connector that stays steady stays right.
LEMMA FitsKept ==
    ASSUME NEW c \in Conns, Fits(c),
           \A r \in Reqs : req'[r] = req[r] \/ (req[r].conn # c /\ req'[r].conn # c),
           actual'[c] = actual[c], connector'[c] = connector[c], log'[c] = log[c],
           shown'[c] = shown[c]
    PROVE  Fits(c)'
<1>1. InHand(c)' = InHand(c) /\ \A r \in InHand(c) : req'[r] = req[r]
  BY DEF InHand
<1>2. QED  BY <1>1 DEF Fits

\* A handler's step about a steady connector takes it to the next stage.
LEMMA SteadyStep == TypeOK /\ CallsFit /\ SteadyFit /\ [Next]_vars => SteadyFit'
<1> SUFFICES ASSUME TypeOK, CallsFit, SteadyFit, [Next]_vars, NEW c \in steady' PROVE Fits(c)'
  BY DEF SteadyFit
<1>0. c \in Conns
  BY TypeStep DEF TypeOK
<1> USE <1>0
<1>1. ASSUME NEW r \in Reqs, NEW d \in Conns, NEW raw \in RawStatuses, Change(r, d, raw)
      PROVE  Fits(c)'
  <2>1. req[r].conn = None /\ None \notin Conns /\ \A q \in Reqs : q # r => req'[q] = req[q]
    BY <1>1, NoneAssumption DEF Change, Idle, TypeOK
  <2>2. req'[r] = [pc |-> "update", conn |-> d, raw |-> raw]
    BY <1>1 DEF Change, TypeOK
  <2>3. CASE c # d
    <3>1. c \in steady /\ Fits(c)
      BY <1>1, <2>3 DEF Change, SteadyFit
    <3>2. QED  BY <1>1, <2>1, <2>2, <2>3, <3>1, FitsKept DEF Change, TypeOK
  <2>4. CASE c = d
    <3>1. InHand(c) = {}
      BY <1>1, <2>4 DEF Change
    <3>2. InHand(c)' = {r}
      BY <2>1, <2>2, <2>4, <3>1 DEF InHand
    <3>3. actual'[c] = raw
      BY <1>1, <2>4 DEF Change, TypeOK
    <3>4. QED  BY <2>2, <3>2, <3>3 DEF Fits
  <2>5. QED  BY <2>3, <2>4
<1>2. ASSUME NEW r \in Reqs, Updates(r) \/ Logs(r) \/ Emits(r), req[r].conn # c PROVE Fits(c)'
  <2>1. c \in steady /\ Fits(c)
    BY <1>2 DEF Updates, Logs, Emits, SteadyFit
  <2>2. \A q \in Reqs : q # r => req'[q] = req[q]
    BY <1>2 DEF Updates, Logs, Emits, Continues, Ends, TypeOK
  <2>3. req'[r].conn # c
    BY <1>2, NoneAssumption DEF Updates, Logs, Emits, Continues, Ends, Idle, TypeOK, Calls
  <2>4. req[r].conn \in Conns
    BY <1>2 DEF Updates, Logs, Emits, CallsFit
  <2>5. QED
    BY <1>2, <2>1, <2>2, <2>3, <2>4, FitsKept
       DEF Updates, Logs, Emits, SetStatus, AddLog, TypeOK
<1>3. ASSUME NEW r \in Reqs, Updates(r), req[r].conn = c PROVE Fits(c)'
  <2>1. c \in steady /\ Fits(c) /\ req[r].pc = "update"
    BY <1>3 DEF Updates, SteadyFit
  <2>2. InHand(c) = {r} /\ req[r].raw = actual[c]
    BY <1>3, <2>1 DEF Fits, InHand
  <2>3. req'[r].pc = "log" /\ req'[r].conn = c /\ req'[r].raw = actual[c]
    BY <1>3, <2>2 DEF Updates, Continues, AfterUpdate, TypeOK, Calls
  <2>4. InHand(c)' = {r}
    BY <1>3, <2>2, <2>3 DEF InHand, Updates, Continues, TypeOK
  <2>5. connector'[c] = MapStatus(actual[c]) /\ actual' = actual
    BY <1>3, <2>2 DEF Updates, SetStatus, Stored, TypeOK
  <2>6. QED  BY <2>3, <2>4, <2>5 DEF Fits
<1>4. ASSUME NEW r \in Reqs, Logs(r), req[r].conn = c PROVE Fits(c)'
  <2>1. c \in steady /\ Fits(c) /\ req[r].pc = "log"
    BY <1>4 DEF Logs, SteadyFit
  <2>2. InHand(c) = {r} /\ req[r].raw = actual[c]
    BY <1>4, <2>1 DEF Fits, InHand
  <2>3. req'[r].pc = "emit" /\ req'[r].conn = c /\ req'[r].raw = actual[c]
    BY <1>4, <2>2 DEF Logs, Continues, TypeOK, Calls
  <2>4. InHand(c)' = {r}
    BY <1>4, <2>2, <2>3 DEF InHand, Logs, Continues, TypeOK
  <2>5. connector[c] = MapStatus(actual[c]) /\ actual' = actual /\ connector' = connector
    BY <1>4, <2>1, <2>2 DEF Logs, Fits
  <2>6. log'[c] = Append(log[c], MapStatus(actual[c]))
    BY <1>4, <2>2 DEF Logs, AddLog, TypeOK
  <2>7. log[c] \in Seq(Statuses) /\ MapStatus(actual[c]) \in Statuses
    BY MapStatusType DEF TypeOK
  <2>8. Len(log'[c]) > 0 /\ log'[c][Len(log'[c])] = MapStatus(actual[c])
    BY <2>6, <2>7, Appended
  <2>9. QED  BY <2>3, <2>4, <2>5, <2>8 DEF Fits
<1>5. ASSUME NEW r \in Reqs, Emits(r), req[r].conn = c PROVE Fits(c)'
  <2>1. c \in steady /\ Fits(c) /\ req[r].pc = "emit"
    BY <1>5 DEF Emits, SteadyFit
  <2>2. InHand(c) = {r} /\ req[r].raw = actual[c]
    BY <1>5, <2>1 DEF Fits, InHand
  <2>3. InHand(c)' = {}
    BY <1>5, <2>2, NoneAssumption DEF InHand, Emits, Ends, Idle, TypeOK
  <2>4. /\ connector[c] = MapStatus(actual[c])
        /\ Len(log[c]) > 0 /\ log[c][Len(log[c])] = MapStatus(actual[c])
    BY <2>1, <2>2 DEF Fits
  <2>5. shown'[c] = actual[c] /\ UNCHANGED <<actual, connector, log>>
    BY <1>5, <2>2 DEF Emits, TypeOK
  <2>6. QED  BY <2>3, <2>4, <2>5 DEF Fits
<1>6. ASSUME NEW r \in Reqs, GivesUp(r) PROVE Fits(c)'
  <2>1. c \in steady /\ Fits(c) /\ req[r].conn # c
    BY <1>6 DEF GivesUp, SteadyFit
  <2>2. \A q \in Reqs : q # r => req'[q] = req[q]
    BY <1>6 DEF GivesUp, Ends, TypeOK
  <2>3. req'[r].conn # c
    BY <1>6, NoneAssumption DEF GivesUp, Ends, Idle, TypeOK
  <2>4. QED  BY <1>6, <2>1, <2>2, <2>3, FitsKept DEF GivesUp
<1>7. ASSUME NEW d \in Conns, Edits(d),
             \A e \in Conns : e # d => connector'[e] = connector[e] /\ log'[e] = log[e]
      PROVE  Fits(c)'
  <2>1. c \in steady /\ Fits(c) /\ c # d
    BY <1>7 DEF Edits, SteadyFit
  <2>2. QED  BY <1>7, <2>1, FitsKept DEF Edits
<1>8. ASSUME Crash PROVE Fits(c)'
  <2>1. c \in steady /\ Fits(c) /\ InHand(c) = {}
    BY <1>8 DEF Crash, SteadyFit
  <2>2. \A q \in Reqs : req[q].conn # c /\ req'[q].conn # c
    BY <1>8, <2>1, NoneAssumption DEF Crash, InHand, Idle
  <2>3. QED  BY <1>8, <2>1, <2>2, FitsKept DEF Crash
<1>9. ASSUME UNCHANGED vars PROVE Fits(c)'
  <2>1. c \in steady /\ Fits(c)
    BY <1>9 DEF vars, SteadyFit
  <2>2. QED  BY <1>9, <2>1, FitsKept DEF vars
<1>10. ASSUME NEW d \in Conns, NEW x \in Statuses, AdminSets(d, x) \/ AdminLogs(d, x)
       PROVE  Fits(c)'
  BY <1>7, <1>10 DEF AdminSets, AdminLogs, SetStatus, AddLog, TypeOK
<1>11. ASSUME NEW d \in Conns, NEW i \in 1 .. Len(log[d]), AdminRemovesLog(d, i) PROVE Fits(c)'
  <2>1. \A e \in Conns : e # d => connector'[e] = connector[e] /\ log'[e] = log[e]
    BY <1>11 DEF AdminRemovesLog, TypeOK
  <2>2. QED  BY <1>7, <1>11, <2>1 DEF AdminRemovesLog
<1>12. ASSUME NEW d \in Conns, AdminRemoves(d) PROVE Fits(c)'
  BY <1>7, <1>12 DEF AdminRemoves, TypeOK
<1>13. QED
  BY <1>1, <1>2, <1>3, <1>4, <1>5, <1>6, <1>8, <1>9, <1>10, <1>11, <1>12 DEF Next

-----------------------------------------------------------------------------
(* What is logged was held, what is announced was logged.                  *)

LEMMA HistoryInit == Init => HistoryFit /\ LoggedWasHeld /\ ShownWasLogged /\ NoOrphanLogs
BY NoneAssumption DEF Init, Idle, HistoryFit, Traced, LoggedWasHeld, ShownWasLogged, NoOrphanLogs, LogStatuses

\* Rows gain statuses, and logs only where an entry is made from one the row had.
HistoryInv == HistoryFit /\ LoggedWasHeld /\ ShownWasLogged /\ NoOrphanLogs

\* What a step that makes no entry leaves right.
LEMMA HistoryKept ==
    ASSUME TypeOK, CallsFit, HistoryInv,
           \A r \in Reqs : req'[r] = req[r] \/ req'[r].pc \in {"idle", "update"},
           \A c \in Conns : held[c] \subseteq held'[c],
           \A c \in Conns : connector'[c] = "GONE" => connector[c] = "GONE",
           UNCHANGED <<log, shown, edits>>
    PROVE  HistoryInv'
<1>1. \A c \in Conns : LogStatuses(c)' = LogStatuses(c)
  BY DEF LogStatuses
<1>2. HistoryFit'
  BY <1>1 DEF HistoryInv, HistoryFit, Traced, CallsFit
<1>3. LoggedWasHeld' /\ ShownWasLogged'
  BY <1>1 DEF HistoryInv, LoggedWasHeld, ShownWasLogged
<1>4. NoOrphanLogs'
  BY DEF HistoryInv, NoOrphanLogs, Exists
<1>5. QED  BY <1>2, <1>3, <1>4 DEF HistoryInv

\* After an edit only the statuses of rows and the orphans matter.
LEMMA HistoryEdited ==
    ASSUME TypeOK, CallsFit, HistoryInv, NEW c \in Conns, Edits(c),
           held[c] \subseteq held'[c], \A d \in Conns : d # c => held'[d] = held[d],
           NoOrphanLogs'
    PROVE  HistoryInv'
<1>1. edits' # 0
  BY DEF Edits, TypeOK
<1>2. req' = req /\ \A d \in Conns : held[d] \subseteq held'[d]
  BY DEF Edits
<1>3. QED
  BY <1>1, <1>2 DEF HistoryInv, HistoryFit, Traced, LoggedWasHeld, ShownWasLogged, CallsFit

LEMMA HistoryStep == TypeOK /\ CallsFit /\ HistoryInv /\ [Next]_vars => HistoryInv'
<1> SUFFICES ASSUME TypeOK, CallsFit, HistoryInv, [Next]_vars PROVE HistoryInv'
  OBVIOUS
<1>1. ASSUME NEW r \in Reqs, NEW c \in Conns, NEW raw \in RawStatuses, Change(r, c, raw)
      PROVE  HistoryInv'
  <2>1. \A q \in Reqs : req'[q] = req[q] \/ req'[q].pc = "update"
    BY <1>1 DEF Change, TypeOK
  <2>2. UNCHANGED <<connector, held, log, shown, edits>>
    BY <1>1 DEF Change
  <2>3. QED  BY <2>1, <2>2, HistoryKept
<1>2. ASSUME NEW r \in Reqs, Updates(r) PROVE HistoryInv'
  <2>0. PICK c \in Conns, x \in Statuses : c = req[r].conn /\ x = MapStatus(req[r].raw)
    BY <1>2, MapStatusType DEF Updates, CallsFit
  <2>1. UNCHANGED <<log, shown, edits>>
    BY <1>2 DEF Updates, counters
  <2>2. connector' = [connector EXCEPT ![c] = x] /\ held' = [held EXCEPT ![c] = @ \cup {x}]
    BY <1>2, <2>0 DEF Updates, SetStatus, Stored
  <2>3. req'[r].pc = "log" /\ req'[r].raw = req[r].raw /\ req'[r].conn = c
    BY <1>2, <2>0 DEF Updates, Continues, AfterUpdate, TypeOK, Calls
  <2>4. \A q \in Reqs : q # r => req'[q] = req[q]
    BY <1>2 DEF Updates, Continues, TypeOK
  <2>5. x \in held'[c] /\ \A d \in Conns : held[d] \subseteq held'[d]
    BY <2>1, <2>2 DEF TypeOK
  <2>6. \A d \in Conns : LogStatuses(d)' = LogStatuses(d)
    BY <2>1 DEF LogStatuses
  <2>7. HistoryFit'
    <3> SUFFICES ASSUME NEW q \in Reqs PROVE Traced(q)'
      BY DEF HistoryFit
    <3> USE DEF Traced
    <3>1. CASE q = r
      BY <2>0, <2>3, <2>5, <3>1
    <3>2. CASE q # r
      BY <2>1, <2>4, <2>5, <2>6, <3>2 DEF HistoryInv, HistoryFit, Traced, CallsFit
    <3>3. QED  BY <3>1, <3>2
  <2>8. LoggedWasHeld' /\ ShownWasLogged'
    BY <2>1, <2>5, <2>6 DEF HistoryInv, LoggedWasHeld, ShownWasLogged
  <2>9. NoOrphanLogs'
    BY <2>1, <2>2 DEF HistoryInv, NoOrphanLogs, Exists, TypeOK, Statuses
  <2>10. QED  BY <2>7, <2>8, <2>9 DEF HistoryInv
<1>3. ASSUME NEW r \in Reqs, Logs(r) PROVE HistoryInv'
  <2>0. PICK c \in Conns, x \in Statuses : c = req[r].conn /\ x = MapStatus(req[r].raw)
    BY <1>3, MapStatusType DEF Logs, CallsFit
  <2>1. Exists(c) /\ UNCHANGED <<connector, held, shown, edits>>
    BY <1>3, <2>0 DEF Logs, counters
  <2>2. x \in held[c]
    BY <1>3, <2>0 DEF Logs, HistoryInv, HistoryFit, Traced
  <2>3. req'[r].pc = "emit" /\ req'[r].raw = req[r].raw /\ req'[r].conn = c
    BY <1>3, <2>0 DEF Logs, Continues, TypeOK, Calls
  <2>4. \A q \in Reqs : q # r => req'[q] = req[q]
    BY <1>3 DEF Logs, Continues, TypeOK
  <2>5. log' = [log EXCEPT ![c] = Append(@, x)]
    BY <1>3, <2>0 DEF Logs, AddLog
  <2>6. LogStatuses(c)' = LogStatuses(c) \cup {x}
    <3>1. log[c] \in Seq(Statuses) /\ log'[c] = Append(log[c], x)
      BY <2>1, <2>5 DEF TypeOK
    <3>2. QED  BY <2>1, <3>1, Appended DEF LogStatuses
  <2>7. \A d \in Conns : d # c => LogStatuses(d)' = LogStatuses(d)
    BY <2>5 DEF LogStatuses, TypeOK
  <2>8. \A d \in Conns : LogStatuses(d) \subseteq LogStatuses(d)'
    BY <2>6, <2>7
  <2>9. HistoryFit'
    <3> SUFFICES ASSUME NEW q \in Reqs PROVE Traced(q)'
      BY DEF HistoryFit
    <3> USE DEF Traced
    <3>1. CASE q = r
      BY <2>0, <2>1, <2>2, <2>3, <2>6, <3>1
    <3>2. CASE q # r
      BY <2>1, <2>4, <2>8, <3>2 DEF HistoryInv, HistoryFit, Traced, CallsFit
    <3>3. QED  BY <3>1, <3>2
  <2>10. LoggedWasHeld'
    BY <2>1, <2>2, <2>6, <2>7 DEF HistoryInv, LoggedWasHeld
  <2>11. ShownWasLogged'
    BY <2>1, <2>8 DEF HistoryInv, ShownWasLogged
  <2>12. NoOrphanLogs'
    BY <2>1, <2>5 DEF HistoryInv, NoOrphanLogs, Exists, TypeOK
  <2>13. QED  BY <2>9, <2>10, <2>11, <2>12 DEF HistoryInv
<1>4. ASSUME NEW r \in Reqs, Emits(r) PROVE HistoryInv'
  <2>1. req[r].conn \in Conns /\ UNCHANGED <<connector, held, log, edits>>
    BY <1>4 DEF Emits, CallsFit, counters
  <2>2. \A q \in Reqs : req'[q] = req[q] \/ req'[q].pc = "idle"
    BY <1>4 DEF Emits, Ends, Idle, TypeOK
  <2>3. edits = 0 => MapStatus(req[r].raw) \in LogStatuses(req[r].conn)
    BY <1>4 DEF Emits, HistoryInv, HistoryFit, Traced
  <2>4. shown' = [shown EXCEPT ![req[r].conn] = req[r].raw]
    BY <1>4 DEF Emits
  <2>5. \A d \in Conns : LogStatuses(d)' = LogStatuses(d)
    BY <2>1 DEF LogStatuses
  <2>6. HistoryFit'
    BY <2>1, <2>2, <2>5 DEF HistoryInv, HistoryFit, Traced, CallsFit
  <2>7. ShownWasLogged'
    BY <2>1, <2>3, <2>4, <2>5 DEF HistoryInv, ShownWasLogged, TypeOK
  <2>8. LoggedWasHeld' /\ NoOrphanLogs'
    BY <2>1, <2>5 DEF HistoryInv, LoggedWasHeld, NoOrphanLogs, Exists
  <2>9. QED  BY <2>6, <2>7, <2>8 DEF HistoryInv
<1>5. ASSUME NEW r \in Reqs, GivesUp(r) PROVE HistoryInv'
  <2>1. \A q \in Reqs : req'[q] = req[q] \/ req'[q].pc = "idle"
    BY <1>5 DEF GivesUp, Ends, Idle, TypeOK
  <2>2. UNCHANGED <<connector, held, log, shown, edits>>
    BY <1>5 DEF GivesUp
  <2>3. QED  BY <2>1, <2>2, HistoryKept
<1>6. ASSUME NEW c \in Conns, NEW x \in Statuses, AdminSets(c, x) PROVE HistoryInv'
  <2>1. NoOrphanLogs'
    BY <1>6 DEF AdminSets, SetStatus, HistoryInv, NoOrphanLogs, Exists, TypeOK, Statuses
  <2>2. QED  BY <1>6, <2>1, HistoryEdited DEF AdminSets, SetStatus, TypeOK
<1>7. ASSUME NEW c \in Conns, NEW x \in Statuses, AdminLogs(c, x) PROVE HistoryInv'
  <2>1. NoOrphanLogs'
    BY <1>7 DEF AdminLogs, AddLog, HistoryInv, NoOrphanLogs, Exists, TypeOK
  <2>2. QED  BY <1>7, <2>1, HistoryEdited DEF AdminLogs
<1>8. ASSUME NEW c \in Conns, NEW i \in 1 .. Len(log[c]), AdminRemovesLog(c, i) PROVE HistoryInv'
  <2>1. log[c] # <<>>
    BY DEF TypeOK
  <2>2. \A d \in Conns : d # c => log'[d] = log[d]
    BY <1>8 DEF AdminRemovesLog, TypeOK
  <2>3. NoOrphanLogs'
    BY <1>8, <2>1, <2>2 DEF AdminRemovesLog, HistoryInv, NoOrphanLogs, Exists
  <2>4. QED  BY <1>8, <2>3, HistoryEdited DEF AdminRemovesLog
<1>9. ASSUME NEW c \in Conns, AdminRemoves(c) PROVE HistoryInv'
  <2>1. NoOrphanLogs'
    BY <1>9 DEF AdminRemoves, MayRemove, HistoryInv, NoOrphanLogs, Exists, TypeOK
  <2>2. QED  BY <1>9, <2>1, HistoryEdited DEF AdminRemoves
<1>10. ASSUME Crash PROVE HistoryInv'
  <2>1. \A q \in Reqs : req'[q].pc = "idle"
    BY <1>10 DEF Crash, Idle
  <2>2. UNCHANGED <<connector, held, log, shown, edits>>
    BY <1>10 DEF Crash
  <2>3. QED  BY <2>1, <2>2, HistoryKept
<1>11. ASSUME UNCHANGED vars PROVE HistoryInv'
  BY <1>11, HistoryKept DEF vars, counters
<1>12. QED
  BY <1>1, <1>2, <1>3, <1>4, <1>5, <1>6, <1>7, <1>8, <1>9, <1>10, <1>11 DEF Next

-----------------------------------------------------------------------------

IInv == TypeOK /\ CallsFit /\ SteadyFit /\ HistoryInv

LEMMA Inductive == Spec => []IInv
<1>1. Init => IInv
  BY TypeInit, CallsInit, SteadyInit, HistoryInit DEF IInv, HistoryInv
<1>2. IInv /\ [Next]_vars => IInv'
  BY TypeStep, CallsStep, SteadyStep, HistoryStep DEF IInv
<1>3. QED  BY <1>1, <1>2, PTL DEF Spec

\* However notifications of a connector overlap, fail or are cut off, and whatever
\* administrators do: as long as they edit nothing, the log has only statuses that the
\* row had and the apps hear only of logged ones; and no entry outlives its connector.
THEOREM StatusIsTraced == Spec => []StatusInv
<1>1. IInv => StatusInv
  BY DEF IInv, HistoryInv, StatusInv
<1>2. QED  BY <1>1, Inductive, PTL

\* Whatever went wrong before, the next notification that is handled undisturbed puts
\* the row, the newest log entry and the last event of its connector right.
THEOREM StatusSettles == Spec => []SettlesRight
<1>1. IInv => SettlesRight
  <2> SUFFICES ASSUME IInv, NEW c \in Settled
               PROVE  /\ connector[c] = MapStatus(actual[c])
                      /\ log[c] # <<>> /\ log[c][Len(log[c])] = connector[c]
                      /\ shown[c] # None /\ MapStatus(shown[c]) = connector[c]
    BY DEF SettlesRight, RowIsCurrent, LogAgrees, ShownAgrees
  <2>1. c \in Conns /\ Fits(c) /\ InHand(c) = {}
    BY DEF Settled, IInv, SteadyFit, TypeOK
  <2>2. /\ connector[c] = MapStatus(actual[c]) /\ shown[c] = actual[c]
        /\ Len(log[c]) > 0 /\ log[c][Len(log[c])] = connector[c]
    BY <2>1 DEF Fits
  <2>3. log[c] # <<>> /\ actual[c] # None
    BY <2>1, <2>2, NoneAssumption DEF IInv, TypeOK
  <2>4. QED  BY <2>2, <2>3
<1>2. QED  BY <1>1, Inductive, PTL
=============================================================================
