----------------------- MODULE ChargingSessionProofs ------------------------
(***************************************************************************)
(* Whatever overlaps, fails or is lost, a reading or a stop lands on a     *)
(* session of its own connector and user, and no session is billed for     *)
(* more than the register of its connector shows.  As long as the calls    *)
(* about a connector do not overlap, its charge has its session, one       *)
(* session is made for it, and a completed one is final.  All this holds   *)
(* for every number of users, connectors, sessions and calls, and of every *)
(* session that no administrator wrote and no rejected charge was given.   *)
(* Of all sessions: a deleted one stays deleted, and an edit tells the     *)
(* user of the end only if it makes the end.                               *)
(***************************************************************************)
EXTENDS ChargingSession, TLAPS

-----------------------------------------------------------------------------
(* What the steps have in common.                                          *)

\* No row changes its user or connector or comes back, except by hand or by a
\* random id, and registers grow.
Preserves ==
    /\ exempt \subseteq exempt'
    /\ \A s \in Sessions \ exempt' :
           session[s].status # "NONE" =>
               /\ session'[s].status # "NONE"
               /\ session'[s].status \in SessionStatuses =>
                      /\ session[s].status \in SessionStatuses
                      /\ session'[s].user = session[s].user
                      /\ session'[s].conn = session[s].conn
    /\ \A c \in Conns : meter'[c] >= meter[c]

\* A charge keeps its user as long as it lasts.
ChargesGoOn ==
    \A c \in Conns :
        /\ charge'[c].n >= charge[c].n
        /\ charge'[c].n = charge[c].n => charge'[c].user = charge[c].user

LEMMA OwnKept ==
    ASSUME Preserves, NEW s \in Sessions, NEW u, NEW c, Own(s, u, c)
    PROVE  Own(s, u, c)'
BY DEF Preserves, Own, Exists

LEMMA CallKept ==
    ASSUME TypeOK, TypeOK', Preserves, ChargesGoOn, NEW q \in Calls, CallOK(q)
    PROVE  CallOK(q)'
<1>1. ASSUME q.pc \in OcppSteps PROVE OcppCallOK(q)'
  <2>1. OcppCallOK(q)
    BY <1>1 DEF CallOK
  <2>2. q.conn \in Conns /\ q.user \in Users /\ (q.pc = "start.reuse" => q.session # None)
    BY <2>1 DEF OcppCallOK
  <2>3. q.energy <= meter'[q.conn]
    <3>1. q.energy \in Nat /\ meter[q.conn] \in Nat /\ meter'[q.conn] \in Nat
      BY <2>2, BoundsAssumption DEF TypeOK, Calls, Energies
    <3>2. q.energy <= meter[q.conn] /\ meter'[q.conn] >= meter[q.conn]
      BY <2>1, <2>2 DEF OcppCallOK, Preserves
    <3>3. QED  BY <3>1, <3>2
  <2>4. q.n <= charge'[q.conn].n /\ (q.n = charge'[q.conn].n => q.user = charge'[q.conn].user)
    <3>1. q.n \in Nat /\ charge[q.conn].n \in Nat /\ charge'[q.conn].n \in Nat
      BY <2>2, BoundsAssumption DEF TypeOK, Calls, Charges
    <3>2. q.n <= charge[q.conn].n /\ (q.n = charge[q.conn].n => q.user = charge[q.conn].user)
      BY <2>1 DEF OcppCallOK
    <3>3. charge'[q.conn].n >= charge[q.conn].n
          /\ (charge'[q.conn].n = charge[q.conn].n => charge'[q.conn].user = charge[q.conn].user)
      BY <2>2 DEF ChargesGoOn
    <3>4. QED  BY <3>1, <3>2, <3>3
  <2>5. q.session # None => Own(q.session, q.user, q.conn)'
    <3>1. q.session # None => q.session \in Sessions
      BY DEF Calls
    <3>2. q.session # None => Own(q.session, q.user, q.conn)
      BY <2>1 DEF OcppCallOK
    <3>3. QED  BY <3>1, <3>2, OwnKept
  <2>6. QED  BY <2>2, <2>3, <2>4, <2>5 DEF OcppCallOK
<1>2. q.pc \in RemoteSteps \cup {"edit"} => q.session \in Sessions
  BY DEF CallOK
<1>3. QED  BY <1>1, <1>2 DEF CallOK

\* A step that writes at most slot r and leaves a good call there.
LEMMA CallsKept ==
    ASSUME SessionInv, TypeOK', Preserves, ChargesGoOn,
           NEW r \in Reqs, \A p \in Reqs \ {r} : req'[p] = req[p], CallOK(req[r])'
    PROVE  \A p \in Reqs : CallOK(req[p])'
<1> SUFFICES ASSUME NEW p \in Reqs PROVE CallOK(req[p])'
  OBVIOUS
<1>1. CASE p = r
  BY <1>1
<1>2. CASE p # r
  <2>1. PICK q \in Calls : q = req[p]
    BY DEF SessionInv, TypeOK
  <2>2. CallOK(q)
    BY <2>1 DEF SessionInv
  <2>3. CallOK(q)'
    BY <2>2, CallKept DEF SessionInv
  <2>4. req'[p] = q
    BY <1>2, <2>1
  <2>5. QED  BY <2>3, <2>4
<1>3. QED  BY <1>1, <1>2

LEMMA IdleOK == Idle \in Calls /\ CallOK(Idle) /\ CallOK(Idle)'
BY BoundsAssumption
   DEF Idle, Calls, CallOK, Steps, OcppSteps, StartSteps, RemoteSteps, Energies, SessionStatuses

LEMMA RowsKept ==
    ASSUME SessionInv, TypeOK', Preserves, UNCHANGED session
    PROVE  \A s \in Sessions : RowOK(s)'
<1> SUFFICES ASSUME NEW s \in Sessions, Exists(s) PROVE RowOK(s)'
  BY DEF RowOK, Exists
<1> DEFINE c == session[s].conn
<1>1. session[s].user \in Users /\ c \in Conns /\ (s \notin exempt => session[s].energy <= meter[c])
  BY DEF SessionInv, RowOK
<1>2. session[s].energy \in Nat /\ meter[c] \in Nat /\ meter'[c] \in Nat /\ meter'[c] >= meter[c]
  BY <1>1, BoundsAssumption DEF SessionInv, TypeOK, Rows, Energies, Preserves
<1>3. s \notin exempt => session[s].energy <= meter'[c]
  BY <1>1, <1>2
<1>4. QED  BY <1>1, <1>3 DEF RowOK, Preserves

LEMMA ChargesKept ==
    ASSUME SessionInv, Preserves, UNCHANGED charge
    PROVE  ChargesGoOn /\ \A c \in Conns : ChargeOK(c)'
<1>1. ChargesGoOn
  <2>1. \A c \in Conns : charge[c].n \in Nat
    BY BoundsAssumption DEF SessionInv, TypeOK, Charges
  <2>2. QED  BY <2>1 DEF ChargesGoOn
<1>2. ASSUME NEW c \in Conns PROVE ChargeOK(c)'
  <2>1. ChargeOK(c) /\ (charge[c].tid = None \/ charge[c].tid \in Sessions)
    BY DEF SessionInv, TypeOK, Charges
  <2>2. QED  BY <2>1, OwnKept DEF ChargeOK
<1>3. QED  BY <1>1, <1>2

\* An answer moves on the charge its call is about and no other; what it
\* names is the charge's own.
LEMMA Answered ==
    ASSUME SessionInv, Preserves, NEW r \in Reqs, req[r].pc \in OcppSteps,
           NEW u, u = req[r].user, NEW c, c = req[r].conn,
           NEW from, NEW outcomes, Answer(r, from, outcomes),
           \A o \in outcomes :
               /\ o.phase \in Phases
               /\ o.phase = "free" \/ from # "free"
               /\ o.tid \in Sessions \cup {None}
               /\ o.tid # None => Own(o.tid, u, c)'
    PROVE  /\ charge' \in [Conns -> Charges]
           /\ ChargesGoOn
           /\ \A d \in Conns : ChargeOK(d)'
<1>1. CASE UNCHANGED charge
  BY <1>1, ChargesKept DEF SessionInv, TypeOK
<1>2. CASE ~ UNCHANGED charge
  <2>1. PICK o \in outcomes : charge' = [charge EXCEPT ![c].phase = o.phase, ![c].tid = o.tid]
    BY <1>2 DEF Answer
  <2>2. charge[c].phase = from /\ charge[c].n = req[r].n
    BY <1>2 DEF Answer
  <2>3. c \in Conns /\ u = charge[c].user
    BY <2>2 DEF SessionInv, CallOK, OcppCallOK
  <2>4. charge[c] \in Charges /\ charge'[c] = [charge[c] EXCEPT !.phase = o.phase, !.tid = o.tid]
    BY <2>1, <2>3 DEF SessionInv, TypeOK
  <2>5. \A d \in Conns \ {c} : charge'[d] = charge[d]
    BY <2>1 DEF SessionInv, TypeOK
  <2>6. charge' \in [Conns -> Charges]
    <3>1. charge'[c] \in Charges
      BY <2>4 DEF Charges
    <3>2. QED  BY <2>1, <2>3, <2>4, <3>1 DEF SessionInv, TypeOK
  <2>7. charge'[c].n = charge[c].n /\ charge'[c].user = charge[c].user
        /\ charge'[c].phase = o.phase /\ charge'[c].tid = o.tid
    BY <2>4 DEF Charges
  <2>8. ChargesGoOn
    <3>1. \A d \in Conns : charge[d].n \in Nat
      BY BoundsAssumption DEF SessionInv, TypeOK, Charges
    <3>2. QED  BY <2>5, <2>7, <3>1 DEF ChargesGoOn
  <2>9. ASSUME NEW d \in Conns PROVE ChargeOK(d)'
    <3>1. ChargeOK(d) /\ (charge[d].tid = None \/ charge[d].tid \in Sessions)
      BY DEF SessionInv, TypeOK, Charges
    <3>2. CASE d = c
      <4>1. o.phase # "free" => charge[c].user \in Users
        BY <2>2, <3>1, <3>2 DEF ChargeOK
      <4>2. o.tid # None => Own(o.tid, u, c)'
        OBVIOUS
      <4>3. charge'[c].phase = o.phase /\ charge'[c].tid = o.tid /\ charge'[c].user = u
        BY <2>3, <2>7
      <4>4. charge'[c].phase # "free" => charge'[c].user \in Users
        BY <2>3, <4>1, <4>3
      <4>5. charge'[c].tid # None => Own(charge[c].tid, charge[c].user, c)'
        BY <4>2, <4>3 DEF Own, Exists
      <4>6. QED  BY <3>2, <4>4, <4>5 DEF ChargeOK
    <3>3. CASE d # c
      BY <2>5, <3>1, <3>3, OwnKept DEF ChargeOK
    <3>4. QED  BY <3>2, <3>3
  <2>10. QED  BY <2>6, <2>8, <2>9
<1>3. QED  BY <1>1, <1>2

\* A call ends: what is left to show is about rows and charges.
LEMMA Ended ==
    ASSUME SessionInv, NEW r \in Reqs, Ends(r), Preserves, ChargesGoOn,
           session' \in [Sessions -> Rows], charge' \in [Conns -> Charges],
           UNCHANGED meter, told' \in [Sessions -> Nat], exempt' \subseteq Sessions,
           UNCHANGED apart, UNCHANGED <<edits, crashes>>,
           failures' \in 0 .. MaxFailures,
           \A s \in Sessions : RowOK(s)', \A c \in Conns : ChargeOK(c)'
    PROVE  SessionInv'
<1>1. req' \in [Reqs -> Calls] /\ req'[r] = Idle /\ \A p \in Reqs \ {r} : req'[p] = req[p]
  BY IdleOK DEF Ends, SessionInv, TypeOK
<1>2. TypeOK'
  BY <1>1 DEF SessionInv, TypeOK
<1>3. CallOK(req[r])'
  BY <1>1, IdleOK
<1>4. \A p \in Reqs : CallOK(req[p])'
  BY <1>1, <1>2, <1>3, CallsKept
<1>5. QED  BY <1>2, <1>4 DEF SessionInv

LEMMA FewerApart == ASSUME NEW r, NEW call, Arrives(r, call) PROVE apart' \subseteq apart
BY DEF Arrives

\* A call goes on, or a new one arrives, and nothing else changes.
LEMMA WentOn ==
    ASSUME SessionInv, NEW r \in Reqs, NEW q \in Calls, req' = [req EXCEPT ![r] = q], CallOK(q)',
           apart' \subseteq apart, UNCHANGED <<session, charge, meter, told, exempt, counters>>
    PROVE  SessionInv'
<1>1. req' \in [Reqs -> Calls] /\ req'[r] = q /\ \A p \in Reqs \ {r} : req'[p] = req[p]
  BY DEF SessionInv, TypeOK
<1>2. TypeOK'
  BY <1>1 DEF SessionInv, TypeOK, counters
<1>3. Preserves
  <2>1. \A c \in Conns : meter[c] \in Nat
    BY BoundsAssumption DEF SessionInv, TypeOK, Energies
  <2>2. QED  BY <2>1 DEF Preserves
<1>4. ChargesGoOn /\ \A c \in Conns : ChargeOK(c)'
  BY <1>3, ChargesKept
<1>5. \A s \in Sessions : RowOK(s)'
  BY <1>2, <1>3, RowsKept
<1>6. CallOK(req[r])'
  BY <1>1
<1>7. \A p \in Reqs : CallOK(req[p])'
  BY <1>1, <1>2, <1>3, <1>4, <1>6, CallsKept
<1>8. QED  BY <1>2, <1>4, <1>5, <1>7 DEF SessionInv

LEMMA MetersAreNat == ASSUME TypeOK PROVE \A c \in Conns : meter[c] \in Nat
BY BoundsAssumption DEF TypeOK, Energies

\* A row is inserted, with any energy if it is by hand.
LEMMA InsertedRow ==
    ASSUME SessionInv, NEW s \in Sessions, NEW u \in Users, NEW c \in Conns,
           NEW status \in SessionStatuses, NEW energy \in Energies,
           Insert(s, NewRow(u, c, status, energy)), UNCHANGED meter,
           exempt \subseteq exempt', s \in exempt' \/ energy <= meter[c]
    PROVE  /\ session' \in [Sessions -> Rows] /\ Preserves /\ Own(s, u, c)'
           /\ \A t \in Sessions : RowOK(t)'
<1>1. PICK row : row = NewRow(u, c, status, energy)
  OBVIOUS
<1>2. row \in Rows /\ row.status = status /\ row.user = u /\ row.conn = c /\ row.energy = energy
  BY <1>1 DEF NewRow, Rows
<1>3. session[s].status = "NONE" /\ session' = [session EXCEPT ![s] = row]
  BY <1>1 DEF Insert
<1>4. session' \in [Sessions -> Rows] /\ session'[s] = row
      /\ \A t \in Sessions \ {s} : session'[t] = session[t]
  BY <1>2, <1>3 DEF SessionInv, TypeOK
<1>5. Preserves
  BY <1>3, <1>4, MetersAreNat DEF Preserves, SessionInv
<1>6. Own(s, u, c)'
  BY <1>2, <1>4 DEF Own, SessionStatuses
<1>7. ASSUME NEW t \in Sessions PROVE RowOK(t)'
  <2>1. CASE t = s
    BY <1>2, <1>4, <2>1 DEF RowOK
  <2>2. CASE t # s
    BY <1>4, <2>2 DEF SessionInv, RowOK, Exists
  <2>3. QED  BY <2>1, <2>2
<1>8. QED  BY <1>4, <1>5, <1>6, <1>7

LEMMA Inserted ==
    ASSUME SessionInv, NEW s \in Sessions, NEW u \in Users, NEW c \in Conns,
           Insert(s, NewRow(u, c, "ACTIVE", 0)), UNCHANGED meter, exempt \subseteq exempt'
    PROVE  /\ session' \in [Sessions -> Rows] /\ Preserves /\ Own(s, u, c)'
           /\ \A t \in Sessions : RowOK(t)'
<1>1. PICK status \in SessionStatuses : status = "ACTIVE"
  BY DEF SessionStatuses
<1>2. PICK energy \in Energies : energy = 0
  BY BoundsAssumption DEF Energies
<1>3. energy <= meter[c]
  BY <1>2, MetersAreNat DEF SessionInv
<1>4. QED  BY <1>1, <1>2, <1>3, InsertedRow

\* An existing row is written, or deleted.
LEMMA Rewritten ==
    ASSUME SessionInv, NEW s \in Sessions, Exists(s), NEW row \in Rows,
           session' = [session EXCEPT ![s] = row], UNCHANGED meter, exempt \subseteq exempt',
           row.status # "NONE",
           row.status \in SessionStatuses =>
               /\ row.user \in Users /\ row.conn \in Conns
               /\ s \notin exempt' => /\ row.user = session[s].user /\ row.conn = session[s].conn
                                     /\ row.energy <= meter[row.conn]
    PROVE  /\ session' \in [Sessions -> Rows] /\ Preserves
           /\ \A t \in Sessions : RowOK(t)'
<1>1. session' \in [Sessions -> Rows] /\ session'[s] = row
      /\ \A t \in Sessions \ {s} : session'[t] = session[t]
  BY DEF SessionInv, TypeOK
<1>2. Preserves
  BY <1>1, MetersAreNat DEF Preserves, SessionInv, Exists
<1>3. ASSUME NEW t \in Sessions PROVE RowOK(t)'
  <2>1. CASE t = s
    BY <1>1, <2>1 DEF RowOK, Exists
  <2>2. CASE t # s
    BY <1>1, <2>2 DEF SessionInv, RowOK, Exists
  <2>3. QED  BY <2>1, <2>2
<1>4. QED  BY <1>1, <1>2, <1>3

LEMMA Unwritten ==
    ASSUME SessionInv, UNCHANGED <<session, meter>>, exempt \subseteq exempt'
    PROVE  /\ session' \in [Sessions -> Rows] /\ Preserves
           /\ \A t \in Sessions : RowOK(t)'
<1>1. Preserves
  BY MetersAreNat DEF Preserves, SessionInv
<1>2. QED  BY <1>1 DEF SessionInv, TypeOK, RowOK, Exists

\* What a call of OCPP and its slot hold.
LEMMA OcppCall ==
    ASSUME SessionInv, NEW r \in Reqs, req[r].pc \in OcppSteps
    PROVE  /\ req[r] \in Calls
           /\ req[r].conn \in Conns /\ req[r].user \in Users
           /\ req[r].session \in Sessions \cup {None}
           /\ OcppCallOK(req[r])
BY DEF SessionInv, TypeOK, CallOK, OcppCallOK, Calls

-----------------------------------------------------------------------------
(* One lemma per handler.                                                  *)

\* StartTransaction answered Rejected: what id it names is exempt from then on.
LEMMA RejectedStep ==
    ASSUME SessionInv, NEW r \in Reqs, req[r].pc \in StartSteps,
           AnswerRejected(r), UNCHANGED <<session, meter>>
    PROVE  /\ exempt \subseteq exempt' /\ exempt' \subseteq Sessions
           /\ charge' \in [Conns -> Charges] /\ ChargesGoOn /\ \A c \in Conns : ChargeOK(c)'
<1>1. PICK id \in RandomIds \cup {None} :
          /\ Answer(r, "starting", Rejects(id))
          /\ exempt' = IF charge' = charge THEN exempt ELSE exempt \cup ({id} \cap Sessions)
  BY DEF AnswerRejected
<1>2. exempt \subseteq exempt' /\ exempt' \subseteq Sessions
  BY <1>1 DEF SessionInv, TypeOK
<1>3. Preserves
  BY <1>2, Unwritten
<1>4. CASE UNCHANGED charge
  BY <1>2, <1>3, <1>4, ChargesKept DEF SessionInv, TypeOK
<1>5. CASE ~ UNCHANGED charge
  <2>1. \A o \in Rejects(id) : o.phase \in Phases /\ o.tid = id
    BY DEF Rejects, Phases
  <2>2. id \in Sessions \cup {None} /\ (id # None => id \in exempt')
    BY <1>1, <1>5, RandomIdsAssumption
  <2>3. req[r].pc \in OcppSteps
    BY DEF OcppSteps
  <2>4. PICK u : u = req[r].user
    OBVIOUS
  <2>5. PICK c : c = req[r].conn
    OBVIOUS
  <2>6. id # None => Own(id, u, c)'
    BY <2>2 DEF Own
  <2>7. QED  BY <1>1, <1>2, <1>3, <2>1, <2>2, <2>3, <2>4, <2>5, <2>6, Answered
<1>6. QED  BY <1>4, <1>5

LEMMA StoppedStep ==
    ASSUME SessionInv, Preserves, NEW r \in Reqs, req[r].pc = "stop",
           Answer(r, "stopping", StopAnswered)
    PROVE  charge' \in [Conns -> Charges] /\ ChargesGoOn /\ \A c \in Conns : ChargeOK(c)'
<1>1. \A o \in StopAnswered : o.phase \in Phases /\ o.tid = None
  BY DEF StopAnswered, Phases
<1>2. req[r].pc \in OcppSteps
  BY DEF OcppSteps
<1>3. PICK u : u = req[r].user
  OBVIOUS
<1>4. PICK c : c = req[r].conn
  OBVIOUS
<1>5. QED  BY <1>1, <1>2, <1>3, <1>4, Answered

LEMMA AcceptedStep ==
    ASSUME SessionInv, Preserves, NEW r \in Reqs, req[r].pc \in StartSteps,
           NEW s \in Sessions, NEW u, u = req[r].user, NEW c, c = req[r].conn, Own(s, u, c)',
           Answer(r, "starting", Accepts(s))
    PROVE  charge' \in [Conns -> Charges] /\ ChargesGoOn /\ \A d \in Conns : ChargeOK(d)'
<1>1. \A o \in Accepts(s) : o.phase \in Phases /\ o.tid = s
  BY DEF Accepts, Phases
<1>2. req[r].pc \in OcppSteps
  BY DEF OcppSteps
<1>3. QED  BY <1>1, <1>2, Answered

\* StartTransaction.
LEMMA StartKeeps ==
    ASSUME SessionInv, NEW r \in Reqs,
           \/ \E s \in Sessions : StartFinds(r, s) \/ StartCreates(r, s)
           \/ StartFindsNone(r) \/ StartReuses(r) \/ StartRejects(r)
    PROVE  SessionInv'
<1>1. ASSUME NEW s \in Sessions, StartFinds(r, s) PROVE SessionInv'
  <2>1. req[r].pc = "start" /\ s \in ActiveSessions(req[r].user, req[r].conn)
    BY <1>1 DEF StartFinds, Candidates
  <2>2. req[r] \in Calls /\ OcppCallOK(req[r])
    BY <2>1, OcppCall DEF OcppSteps, StartSteps
  <2>3. PICK q : q = [req[r] EXCEPT !.pc = "start.reuse", !.session = s]
    OBVIOUS
  <2>4. q \in Calls /\ q.pc = "start.reuse" /\ q.session = s /\ q.conn = req[r].conn
        /\ q.user = req[r].user /\ q.energy = req[r].energy /\ q.n = req[r].n
    BY <2>2, <2>3 DEF Calls, Steps, OcppSteps, StartSteps
  <2>5. Own(s, q.user, q.conn)
    BY <2>1, <2>4 DEF ActiveSessions, Own
  <2>6. CallOK(q)
    BY <2>2, <2>4, <2>5, NoneAssumption DEF CallOK, OcppCallOK, RemoteSteps
  <2>7. CallOK(q)'
    BY <1>1, <2>6 DEF StartFinds, CallOK, OcppCallOK, Own, Exists
  <2>8. req' = [req EXCEPT ![r] = q]
    BY <1>1, <2>3 DEF StartFinds
  <2>9. QED  BY <1>1, <2>4, <2>7, <2>8, WentOn DEF StartFinds
<1>2. CASE StartFindsNone(r)
  <2>1. req[r].pc = "start"
    BY <1>2 DEF StartFindsNone
  <2>2. req[r] \in Calls /\ OcppCallOK(req[r])
    BY <2>1, OcppCall DEF OcppSteps, StartSteps
  <2>3. PICK q : q = [req[r] EXCEPT !.pc = "start.create"]
    OBVIOUS
  <2>4. q \in Calls /\ q.pc = "start.create" /\ q.session = req[r].session /\ q.conn = req[r].conn
        /\ q.user = req[r].user /\ q.energy = req[r].energy /\ q.n = req[r].n
    BY <2>2, <2>3 DEF Calls, Steps, OcppSteps, StartSteps
  <2>5. CallOK(q)
    BY <2>2, <2>4 DEF CallOK, OcppCallOK, RemoteSteps
  <2>6. CallOK(q)'
    BY <1>2, <2>5 DEF StartFindsNone, CallOK, OcppCallOK, Own, Exists
  <2>7. req' = [req EXCEPT ![r] = q]
    BY <1>2, <2>3 DEF StartFindsNone, Continues
  <2>8. QED  BY <1>2, <2>4, <2>6, <2>7, WentOn DEF StartFindsNone
<1>3. CASE StartReuses(r)
  <2>1. req[r].pc = "start.reuse" /\ UNCHANGED <<session, meter, exempt>>
    BY <1>3 DEF StartReuses
  <2>2. Preserves /\ session' \in [Sessions -> Rows] /\ \A t \in Sessions : RowOK(t)'
    BY <2>1, Unwritten
  <2>3. OcppCallOK(req[r]) /\ req[r].session \in Sessions
    BY <2>1, OcppCall DEF OcppSteps, StartSteps, OcppCallOK
  <2>4. PICK t \in Sessions : t = req[r].session
    BY <2>3
  <2>5. PICK u : u = req[r].user
    OBVIOUS
  <2>6. PICK c : c = req[r].conn
    OBVIOUS
  <2>7. Own(t, u, c)
    BY <2>3, <2>4, <2>5, <2>6, NoneAssumption DEF OcppCallOK
  <2>8. Own(t, u, c)'
    BY <2>2, <2>7, OwnKept
  <2>9. charge' \in [Conns -> Charges] /\ ChargesGoOn /\ \A d \in Conns : ChargeOK(d)'
    BY <1>3, <2>1, <2>2, <2>4, <2>5, <2>6, <2>8, AcceptedStep DEF StartReuses, StartSteps
  <2>10. QED
    BY <1>3, <2>2, <2>9, Ended DEF StartReuses, counters, SessionInv, TypeOK
<1>4. ASSUME NEW s \in Sessions, StartCreates(r, s) PROVE SessionInv'
  <2>1. req[r].pc = "start.create" /\ UNCHANGED <<meter, exempt>>
    BY <1>4 DEF StartCreates
  <2>2. req[r].conn \in Conns /\ req[r].user \in Users
    BY <2>1, OcppCall DEF OcppSteps, StartSteps
  <2>3. PICK u \in Users : u = req[r].user
    BY <2>2
  <2>4. PICK c \in Conns : c = req[r].conn
    BY <2>2
  <2>5. Insert(s, NewRow(u, c, "ACTIVE", 0))
    BY <1>4, <2>3, <2>4 DEF StartCreates
  <2>6. session' \in [Sessions -> Rows] /\ Preserves /\ Own(s, u, c)' /\ \A t \in Sessions : RowOK(t)'
    BY <2>1, <2>5, Inserted
  <2>7. charge' \in [Conns -> Charges] /\ ChargesGoOn /\ \A d \in Conns : ChargeOK(d)'
    BY <1>4, <2>1, <2>3, <2>4, <2>6, AcceptedStep DEF StartCreates, StartSteps
  <2>8. QED
    BY <1>4, <2>6, <2>7, Ended DEF StartCreates, counters, SessionInv, TypeOK
<1>5. CASE StartRejects(r)
  <2>1. req[r].pc \in StartSteps /\ UNCHANGED <<session, meter>>
    BY <1>5 DEF StartRejects, StartSteps
  <2>2. /\ exempt \subseteq exempt' /\ exempt' \subseteq Sessions
        /\ charge' \in [Conns -> Charges] /\ ChargesGoOn /\ \A c \in Conns : ChargeOK(c)'
    BY <1>5, <2>1, RejectedStep DEF StartRejects
  <2>3. session' \in [Sessions -> Rows] /\ Preserves /\ \A t \in Sessions : RowOK(t)'
    BY <2>1, <2>2, Unwritten
  <2>4. QED
    BY <1>5, <2>2, <2>3, Ended DEF StartRejects, counters, SessionInv, TypeOK
<1>6. QED  BY <1>1, <1>2, <1>3, <1>4, <1>5

\* MeterValues and StopTransaction: the row they write is the charge's own,
\* and their reading at most the register.
LEMMA WrittenByCall ==
    ASSUME SessionInv, NEW r \in Reqs, req[r].pc \in {"meter", "stop"}, UNCHANGED <<meter, exempt>>,
           \/ UNCHANGED session
           \/ /\ req[r].session # None /\ Exists(req[r].session)
              /\ session' = [session EXCEPT ![req[r].session] = Metered(@, req[r].energy)]
           \/ /\ req[r].session # None /\ Exists(req[r].session)
              /\ session' = [session EXCEPT ![req[r].session] = Stopped(@, req[r].energy)]
    PROVE  session' \in [Sessions -> Rows] /\ Preserves /\ \A t \in Sessions : RowOK(t)'
<1>1. CASE UNCHANGED session
  BY <1>1, Unwritten
<1>2. CASE ~ UNCHANGED session
  <2>1. req[r] \in Calls /\ OcppCallOK(req[r]) /\ req[r].session \in Sessions
    BY <1>2, OcppCall DEF OcppSteps
  <2>2. PICK s \in Sessions : s = req[r].session
    BY <2>1
  <2>3. PICK e \in Energies : e = req[r].energy
    BY <2>1 DEF Calls
  <2>4. /\ session[s] \in Rows /\ Exists(s) /\ session[s].user \in Users /\ session[s].conn \in Conns
        /\ s \notin exempt => session[s].conn = req[r].conn
    BY <1>2, <2>1, <2>2 DEF SessionInv, TypeOK, OcppCallOK, Own, RowOK
  <2>5. s \notin exempt => e <= meter[session[s].conn] /\ session[s].energy <= meter[session[s].conn]
    BY <2>1, <2>3, <2>4 DEF OcppCallOK, SessionInv, RowOK
  <2>6. PICK row : row \in {Metered(session[s], e), Stopped(session[s], e)}
                   /\ session' = [session EXCEPT ![s] = row]
    BY <1>2, <2>2, <2>3
  <2>7. row \in Rows /\ row.user = session[s].user /\ row.conn = session[s].conn
        /\ row.status \in SessionStatuses /\ row.energy \in {e, session[s].energy}
    BY <2>3, <2>4, <2>6 DEF Metered, Stopped, Rows, SessionStatuses, Exists
  <2>8. s \notin exempt => row.energy <= meter[row.conn]
    BY <2>5, <2>7
  <2>9. QED  BY <2>4, <2>6, <2>7, <2>8, Rewritten DEF SessionStatuses
<1>3. QED  BY <1>1, <1>2

LEMMA MeterAndStopKeep ==
    ASSUME SessionInv, NEW r \in Reqs, MeterWrites(r) \/ StopWrites(r)
    PROVE  SessionInv'
<1>1. CASE MeterWrites(r)
  <2>1. session' \in [Sessions -> Rows] /\ Preserves /\ \A t \in Sessions : RowOK(t)'
    BY <1>1, WrittenByCall DEF MeterWrites
  <2>2. ChargesGoOn /\ \A c \in Conns : ChargeOK(c)'
    BY <1>1, <2>1, ChargesKept DEF MeterWrites
  <2>3. QED
    BY <1>1, <2>1, <2>2, Ended DEF MeterWrites, counters, SessionInv, TypeOK
<1>2. CASE StopWrites(r)
  <2>1. session' \in [Sessions -> Rows] /\ Preserves /\ \A t \in Sessions : RowOK(t)'
    BY <1>2, WrittenByCall DEF StopWrites
  <2>2. charge' \in [Conns -> Charges] /\ ChargesGoOn /\ \A c \in Conns : ChargeOK(c)'
    BY <1>2, <2>1, StoppedStep DEF StopWrites
  <2>3. QED
    BY <1>2, <2>1, <2>2, Ended DEF StopWrites, counters, SessionInv, TypeOK
<1>3. QED  BY <1>1, <1>2

\* A failing statement.
LEMMA FailingKeeps ==
    ASSUME SessionInv, NEW r \in Reqs, Fails(r)
    PROVE  SessionInv'
<1>1. /\ exempt \subseteq exempt' /\ exempt' \subseteq Sessions
      /\ charge' \in [Conns -> Charges] /\ ChargesGoOn /\ \A c \in Conns : ChargeOK(c)'
  <2>1. CASE req[r].pc \in StartSteps /\ AnswerRejected(r)
    BY <2>1, RejectedStep DEF Fails
  <2>2. CASE UNCHANGED exempt
    <3>1. Preserves /\ exempt \subseteq exempt' /\ exempt' \subseteq Sessions
      BY <2>2, Unwritten DEF Fails, SessionInv, TypeOK
    <3>2. CASE req[r].pc = "stop" /\ Answer(r, "stopping", StopAnswered)
      BY <3>1, <3>2, StoppedStep DEF Fails
    <3>3. CASE UNCHANGED charge
      BY <3>1, <3>3, ChargesKept DEF SessionInv, TypeOK
    <3>4. CASE req[r].pc \in StartSteps /\ AnswerRejected(r)
      BY <2>1, <3>4
    <3>5. QED  BY <3>2, <3>3, <3>4 DEF Fails
  <2>3. QED  BY <2>1, <2>2 DEF Fails
<1>2. session' \in [Sessions -> Rows] /\ Preserves /\ \A s \in Sessions : RowOK(s)'
  BY <1>1, Unwritten DEF Fails
<1>3. failures' \in 0 .. MaxFailures
  BY BoundsAssumption DEF Fails, SessionInv, TypeOK
<1>4. QED  BY <1>1, <1>2, <1>3, Ended DEF Fails, SessionInv, TypeOK

\* The remote start of the app.
LEMMA RemoteKeeps ==
    ASSUME SessionInv, NEW r \in Reqs, RemoteSent(r) \/ RemoteRefused(r) \/ RemoteDeletes(r)
    PROVE  SessionInv'
<1>1. req[r] \in Calls /\ req[r].session \in Sessions
  BY DEF RemoteSent, RemoteRefused, RemoteDeletes, RemoteSteps, SessionInv, TypeOK, CallOK
<1>2. CASE RemoteSent(r)
  <2>1. session' \in [Sessions -> Rows] /\ Preserves /\ \A t \in Sessions : RowOK(t)'
    BY <1>2, Unwritten DEF RemoteSent
  <2>2. ChargesGoOn /\ \A c \in Conns : ChargeOK(c)'
    BY <1>2, <2>1, ChargesKept DEF RemoteSent
  <2>3. QED
    BY <1>2, <2>1, <2>2, Ended DEF RemoteSent, counters, SessionInv, TypeOK
<1>3. CASE RemoteRefused(r)
  <2>1. PICK q : q = [req[r] EXCEPT !.pc = "remote.delete"]
    OBVIOUS
  <2>2. q \in Calls /\ q.pc = "remote.delete" /\ q.session \in Sessions
    BY <1>1, <2>1 DEF Calls, Steps, OcppSteps, StartSteps, RemoteSteps
  <2>3. CallOK(q)'
    BY <2>2 DEF CallOK, OcppSteps, StartSteps
  <2>4. req' = [req EXCEPT ![r] = q]
    BY <1>3, <2>1 DEF RemoteRefused, Continues
  <2>5. QED  BY <1>3, <2>2, <2>3, <2>4, WentOn DEF RemoteRefused
<1>4. CASE RemoteDeletes(r)
  <2>1. session' \in [Sessions -> Rows] /\ Preserves /\ \A t \in Sessions : RowOK(t)'
    <3>1. CASE UNCHANGED session
      BY <1>4, <3>1, Unwritten DEF RemoteDeletes
    <3>2. CASE Exists(req[r].session) /\ Delete(req[r].session)
      <4>1. PICK s \in Sessions : s = req[r].session
        BY <1>1
      <4>2. PICK row : row = [NoRow EXCEPT !.status = "DELETED"]
        OBVIOUS
      <4>3. row \in Rows /\ row.status = "DELETED"
        BY <4>2, BoundsAssumption DEF NoRow, Rows, Energies
      <4>4. session' = [session EXCEPT ![s] = row] /\ Exists(s)
        BY <3>2, <4>1, <4>2 DEF Delete
      <4>5. QED  BY <1>4, <4>3, <4>4, Rewritten DEF RemoteDeletes, SessionStatuses
    <3>3. QED  BY <1>4, <3>1, <3>2 DEF RemoteDeletes
  <2>2. ChargesGoOn /\ \A c \in Conns : ChargeOK(c)'
    BY <1>4, <2>1, ChargesKept DEF RemoteDeletes
  <2>3. QED
    BY <1>4, <2>1, <2>2, Ended DEF RemoteDeletes, counters, SessionInv, TypeOK
<1>5. QED  BY <1>2, <1>3, <1>4

LEMMA RemoteStartKeeps ==
    ASSUME SessionInv, NEW r \in Reqs, NEW u \in Users, NEW c \in Conns, NEW s \in Sessions,
           RemoteStart(r, u, c, s)
    PROVE  SessionInv'
<1>1. PICK q : q = [Idle EXCEPT !.pc = "remote.send", !.conn = c, !.user = u, !.session = s]
  OBVIOUS
<1>2. q \in Calls /\ q.pc = "remote.send" /\ q.session = s
  <2>1. 0 \in Energies /\ 0 \in 0 .. MaxCharges
    BY BoundsAssumption DEF Energies
  <2>2. "remote.send" \in Steps
    BY DEF Steps, RemoteSteps
  <2>3. QED  BY <1>1, <2>1, <2>2 DEF Idle, Calls
<1>3. req' = [req EXCEPT ![r] = q]
  BY <1>1 DEF RemoteStart, Arrives
<1>4. req' \in [Reqs -> Calls] /\ req'[r] = q /\ \A p \in Reqs \ {r} : req'[p] = req[p]
  BY <1>2, <1>3 DEF SessionInv, TypeOK
<1>5. session' \in [Sessions -> Rows] /\ Preserves /\ \A t \in Sessions : RowOK(t)'
  BY Inserted DEF RemoteStart
<1>6. ChargesGoOn /\ \A d \in Conns : ChargeOK(d)'
  BY <1>5, ChargesKept DEF RemoteStart
<1>7. TypeOK'
  BY <1>4, <1>5, FewerApart DEF RemoteStart, counters, SessionInv, TypeOK
<1>8. CallOK(req[r])'
  BY <1>2, <1>4 DEF CallOK, OcppSteps, StartSteps
<1>9. \A p \in Reqs : CallOK(req[p])'
  BY <1>4, <1>5, <1>6, <1>7, <1>8, CallsKept
<1>10. QED  BY <1>5, <1>6, <1>7, <1>9 DEF SessionInv

\* A call a station sends carries what its charge has.
LEMMA CallSent ==
    ASSUME SessionInv, NEW r \in Reqs, NEW c \in Conns, charge[c].phase # "free",
           NEW pc \in {"start", "meter", "stop"}, NEW energy \in {0, meter[c]},
           req' = [req EXCEPT ![r] = Call(pc, c, energy)],
           apart' \subseteq apart, UNCHANGED <<session, charge, meter, told, exempt, counters>>
    PROVE  SessionInv'
<1>1. PICK q : q = Call(pc, c, energy)
  OBVIOUS
<1>2. charge[c] \in Charges /\ meter[c] \in Energies /\ 0 \in Energies
  BY BoundsAssumption DEF SessionInv, TypeOK, Energies
<1>3. q \in Calls /\ q.pc = pc /\ q.conn = c /\ q.user = charge[c].user
      /\ q.session = charge[c].tid /\ q.energy = energy /\ q.n = charge[c].n
  BY <1>1, <1>2 DEF Call, Idle, Calls, Charges, Steps, OcppSteps, StartSteps
<1>4. charge[c].user \in Users /\ (charge[c].tid # None => Own(charge[c].tid, charge[c].user, c))
  BY DEF SessionInv, ChargeOK
<1>5. energy <= meter[c] /\ charge[c].n <= charge[c].n
  <2>1. meter[c] \in Nat /\ charge[c].n \in Nat
    BY <1>2, BoundsAssumption DEF Energies, Charges
  <2>2. QED  BY <2>1
<1>6. CallOK(q)
  BY <1>3, <1>4, <1>5 DEF CallOK, OcppCallOK, RemoteSteps
<1>7. CallOK(q)'
  BY <1>6 DEF CallOK, OcppCallOK, Own, Exists
<1>8. QED  BY <1>1, <1>3, <1>7, WentOn

LEMMA StationKeeps ==
    ASSUME SessionInv, NEW c \in Conns, StationStep(c)
    PROVE  SessionInv'
<1>1. ASSUME NEW u \in Users, PlugIn(c, u) PROVE SessionInv'
  <2>1. session' \in [Sessions -> Rows] /\ Preserves /\ \A t \in Sessions : RowOK(t)'
    BY <1>1, Unwritten DEF PlugIn
  <2>2. charge[c] \in Charges /\ charge[c].n \in Nat /\ charge[c].n < MaxCharges
        /\ meter[c] \in Energies
    BY <1>1, BoundsAssumption DEF PlugIn, SessionInv, TypeOK, Charges
  <2>3. PICK g : g = [phase |-> "starting", user |-> u, tid |-> None,
                      n |-> charge[c].n + 1]
    OBVIOUS
  <2>4. g \in Charges
    BY <2>2, <2>3, BoundsAssumption DEF Charges, Phases
  <2>5. charge' = [charge EXCEPT ![c] = g]
    BY <1>1, <2>3 DEF PlugIn
  <2>6. charge' \in [Conns -> Charges] /\ charge'[c] = g /\ \A d \in Conns \ {c} : charge'[d] = charge[d]
    BY <2>4, <2>5 DEF SessionInv, TypeOK
  <2>7. ChargesGoOn
    <3>1. \A d \in Conns : charge[d].n \in Nat
      BY BoundsAssumption DEF SessionInv, TypeOK, Charges
    <3>2. QED  BY <2>3, <2>6, <3>1 DEF ChargesGoOn
  <2>8. ASSUME NEW d \in Conns PROVE ChargeOK(d)'
    <3>1. CASE d = c
      BY <2>3, <2>6, <3>1 DEF ChargeOK
    <3>2. CASE d # c
      BY <2>1, <2>6, <3>2, OwnKept DEF SessionInv, TypeOK, Charges, ChargeOK
    <3>3. QED  BY <3>1, <3>2
  <2>9. TypeOK'
    BY <1>1, <2>6 DEF PlugIn, counters, SessionInv, TypeOK
  <2>10. ASSUME NEW r \in Reqs PROVE CallOK(req[r])'
    <3>1. PICK q \in Calls : q = req[r]
      BY DEF SessionInv, TypeOK
    <3>2. CallOK(q)'
      BY <2>1, <2>7, <2>9, <3>1, CallKept DEF SessionInv
    <3>3. QED  BY <1>1, <3>1, <3>2 DEF PlugIn
  <2>11. QED  BY <2>1, <2>8, <2>9, <2>10 DEF SessionInv
<1>2. ASSUME NEW r \in Reqs, SendStart(r, c) PROVE SessionInv'
  BY <1>2, CallSent DEF SendStart, Arrives
<1>3. ASSUME NEW r \in Reqs, SendMeter(r, c) PROVE SessionInv'
  BY <1>3, CallSent DEF SendMeter, Arrives
<1>4. ASSUME NEW r \in Reqs, SendStop(r, c) PROVE SessionInv'
  BY <1>4, CallSent DEF SendStop, Arrives
<1>5. ASSUME Draw(c) PROVE SessionInv'
  <2>1. \A d \in Conns : meter[d] \in Nat
    BY MetersAreNat DEF SessionInv
  <2>2. meter' \in [Conns -> Energies] /\ \A d \in Conns : meter'[d] >= meter[d]
    BY <1>5, <2>1, BoundsAssumption DEF Draw, SessionInv, TypeOK, Energies
  <2>3. TypeOK' /\ UNCHANGED <<session, charge, req, exempt>>
    BY <1>5, <2>2 DEF Draw, counters, SessionInv, TypeOK
  <2>4. Preserves
    BY <2>2, <2>3 DEF Preserves
  <2>5. ChargesGoOn /\ \A d \in Conns : ChargeOK(d)'
    BY <2>3, <2>4, ChargesKept
  <2>6. \A s \in Sessions : RowOK(s)'
    BY <2>3, <2>4, RowsKept
  <2>7. ASSUME NEW r \in Reqs PROVE CallOK(req[r])'
    <3>1. PICK q \in Calls : q = req[r]
      BY DEF SessionInv, TypeOK
    <3>2. CallOK(q)'
      BY <2>3, <2>4, <2>5, <3>1, CallKept DEF SessionInv
    <3>3. QED  BY <2>3, <3>1, <3>2
  <2>8. QED  BY <2>3, <2>5, <2>6, <2>7 DEF SessionInv
<1>6. ASSUME Finish(c) PROVE SessionInv'
  <2>1. session' \in [Sessions -> Rows] /\ Preserves /\ \A t \in Sessions : RowOK(t)'
    BY <1>6, Unwritten DEF Finish
  <2>2. charge' \in [Conns -> Charges] /\ charge'[c] = [charge[c] EXCEPT !.phase = "stopping"]
        /\ \A d \in Conns \ {c} : charge'[d] = charge[d]
    BY <1>6 DEF Finish, SessionInv, TypeOK, Charges, Phases
  <2>3. \A d \in Conns : charge[d] \in Charges /\ charge[d].n \in Nat
    BY BoundsAssumption DEF SessionInv, TypeOK, Charges
  <2>4. charge'[c].n = charge[c].n /\ charge'[c].user = charge[c].user /\ charge'[c].tid = charge[c].tid
    BY <2>2, <2>3 DEF Charges
  <2>5. ChargesGoOn
    <3>1. ASSUME NEW d \in Conns PROVE charge'[d].n = charge[d].n /\ charge'[d].user = charge[d].user
      BY <2>2, <2>4
    <3>2. \A d \in Conns : charge[d].n >= charge[d].n
      BY <2>3
    <3>3. QED  BY <3>1, <3>2 DEF ChargesGoOn
  <2>6. ASSUME NEW d \in Conns PROVE ChargeOK(d)'
    <3>1. charge'[d].user = charge[d].user /\ charge'[d].tid = charge[d].tid
      BY <2>2, <2>4
    <3>2. charge[d].tid # None => Own(charge[d].tid, charge[d].user, d)
      BY DEF SessionInv, ChargeOK
    <3>3. charge[d].tid # None => charge[d].tid \in Sessions
      BY <2>3 DEF Charges
    <3>4. charge'[d].phase # "free" => charge[d].user \in Users
      BY <1>6, <2>2 DEF Finish, SessionInv, ChargeOK
    <3>5. charge[d].tid # None => Own(charge[d].tid, charge[d].user, d)'
      BY <2>1, <3>1, <3>2, <3>3 DEF Preserves, Own, Exists
    <3>6. QED  BY <3>1, <3>4, <3>5 DEF ChargeOK
  <2>7. TypeOK'
    BY <1>6, <2>2 DEF Finish, counters, SessionInv, TypeOK
  <2>8. ASSUME NEW r \in Reqs PROVE CallOK(req[r])'
    <3>1. PICK q \in Calls : q = req[r]
      BY DEF SessionInv, TypeOK
    <3>2. CallOK(q)'
      BY <2>1, <2>5, <2>7, <3>1, CallKept DEF SessionInv
    <3>3. QED  BY <1>6, <3>1, <3>2 DEF Finish
  <2>9. QED  BY <2>1, <2>6, <2>7, <2>8 DEF SessionInv
<1>7. QED  BY <1>1, <1>2, <1>3, <1>4, <1>5, <1>6 DEF StationStep

LEMMA CrashKeeps == ASSUME SessionInv, Crash PROVE SessionInv'
<1>1. session' \in [Sessions -> Rows] /\ Preserves /\ \A t \in Sessions : RowOK(t)'
  BY Unwritten DEF Crash
<1>2. ChargesGoOn /\ \A c \in Conns : ChargeOK(c)'
  BY <1>1, ChargesKept DEF Crash
<1>3. req' \in [Reqs -> Calls] /\ \A r \in Reqs : req'[r] = Idle
  BY IdleOK DEF Crash
<1>4. crashes' \in 0 .. MaxCrashes
  BY BoundsAssumption DEF Crash, SessionInv, TypeOK
<1>5. TypeOK'
  BY <1>1, <1>3, <1>4 DEF Crash, SessionInv, TypeOK
<1>6. \A r \in Reqs : CallOK(req[r])'
  BY <1>3, IdleOK
<1>7. QED  BY <1>1, <1>2, <1>5, <1>6 DEF SessionInv

\* The administrator's calls: the session they write is exempt from then on.
LEMMA ByHandExempts ==
    ASSUME SessionInv, NEW s \in Sessions, ByHand(s)
    PROVE  exempt \subseteq exempt' /\ exempt' \subseteq Sessions /\ s \in exempt'
BY DEF ByHand, SessionInv, TypeOK

\* A session is made, or removed, by hand; no call is in hand for it.
LEMMA AtOnceKeeps ==
    ASSUME SessionInv, NEW s \in Sessions, ByHand(s), Edits, UNCHANGED <<req, told, apart>>,
           session' \in [Sessions -> Rows], Preserves, \A t \in Sessions : RowOK(t)'
    PROVE  SessionInv'
<1>1. ChargesGoOn /\ \A c \in Conns : ChargeOK(c)'
  BY ChargesKept DEF Edits
<1>2. TypeOK'
  <2>1. edits' \in 0 .. MaxEdits
    BY BoundsAssumption DEF Edits, SessionInv, TypeOK
  <2>2. QED  BY <2>1, ByHandExempts DEF Edits, SessionInv, TypeOK
<1>3. ASSUME NEW r \in Reqs PROVE CallOK(req[r])'
  <2>1. PICK q \in Calls : q = req[r]
    BY DEF SessionInv, TypeOK
  <2>2. CallOK(q)'
    BY <1>1, <1>2, <2>1, CallKept DEF SessionInv
  <2>3. QED  BY <2>1, <2>2
<1>4. QED  BY <1>1, <1>2, <1>3 DEF SessionInv

LEMMA AdminKeeps ==
    ASSUME SessionInv, NEW s \in Sessions, NEW u \in Users, NEW c \in Conns,
           NEW status \in SessionStatuses, NEW energy \in Energies,
           CreateByHand(s, u, c, status, energy)
    PROVE  SessionInv'
BY InsertedRow, AtOnceKeeps, ByHandExempts DEF CreateByHand, Edits

LEMMA RemovedKeeps == ASSUME SessionInv, NEW s \in Sessions, AdminRemove(s) PROVE SessionInv'
<1>1. PICK row : row = [NoRow EXCEPT !.status = "DELETED"]
  OBVIOUS
<1>2. row \in Rows /\ row.status = "DELETED"
  BY <1>1, BoundsAssumption DEF NoRow, Rows, Energies
<1>3. session' = [session EXCEPT ![s] = row] /\ Exists(s) /\ UNCHANGED meter
  BY <1>1 DEF AdminRemove, Delete, Edits
<1>4. ByHand(s) /\ Edits /\ UNCHANGED <<req, told, apart>>
  BY DEF AdminRemove
<1>5. exempt \subseteq exempt'
  BY <1>4, ByHandExempts
<1>6. session' \in [Sessions -> Rows] /\ Preserves /\ \A t \in Sessions : RowOK(t)'
  BY <1>2, <1>3, <1>5, Rewritten DEF SessionStatuses
<1>7. QED  BY <1>4, <1>6, AtOnceKeeps

LEMMA EditKeeps ==
    ASSUME SessionInv, NEW r \in Reqs,
           \/ AdminFails(r)
           \/ \E c \in Conns, status \in SessionStatuses, energy \in Energies :
                  AdminWrites(r, c, status, energy)
    PROVE  SessionInv'
<1>1. CASE AdminFails(r)
  <2>1. session' \in [Sessions -> Rows] /\ Preserves /\ \A t \in Sessions : RowOK(t)'
    BY <1>1, Unwritten DEF AdminFails
  <2>2. ChargesGoOn /\ \A c \in Conns : ChargeOK(c)'
    BY <1>1, <2>1, ChargesKept DEF AdminFails
  <2>3. QED
    BY <1>1, <2>1, <2>2, Ended DEF AdminFails, counters, SessionInv, TypeOK
<1>2. ASSUME NEW c \in Conns, NEW status \in SessionStatuses, NEW energy \in Energies,
             AdminWrites(r, c, status, energy)
      PROVE  SessionInv'
  <2>1. PICK s \in Sessions : s = req[r].session
    BY <1>2 DEF AdminWrites, SessionInv, CallOK
  <2>2. PICK row : row = NewRow(session[s].user, c, status, energy)
    OBVIOUS
  <2>3. Exists(s) /\ session' = [session EXCEPT ![s] = row] /\ UNCHANGED <<charge, meter>> /\ ByHand(s)
    BY <1>2, <2>1, <2>2 DEF AdminWrites
  <2>4. row \in Rows /\ row.status = status /\ row.user \in Users /\ row.conn \in Conns
    BY <2>2, <2>3 DEF NewRow, Rows, SessionInv, RowOK
  <2>5. exempt \subseteq exempt' /\ exempt' \subseteq Sessions /\ s \in exempt'
    BY <2>3, ByHandExempts
  <2>6. session' \in [Sessions -> Rows] /\ Preserves /\ \A t \in Sessions : RowOK(t)'
    BY <2>3, <2>4, <2>5, Rewritten DEF SessionStatuses
  <2>7. ChargesGoOn /\ \A d \in Conns : ChargeOK(d)'
    BY <2>3, <2>6, ChargesKept
  <2>8. told' \in [Sessions -> Nat]
    <3>1. told \in [Sessions -> Nat] /\ (told' = told \/ told' = [told EXCEPT ![s] = @ + 1])
      BY <1>2, <2>1 DEF AdminWrites, SessionInv, TypeOK
    <3>2. QED  BY <3>1
  <2>9. QED
    BY <1>2, <2>3, <2>5, <2>6, <2>7, <2>8, Ended DEF AdminWrites, counters, SessionInv, TypeOK
<1>3. QED  BY <1>1, <1>2

LEMMA EditArrives ==
    ASSUME SessionInv, NEW r \in Reqs, NEW s \in Sessions, AdminReads(r, s)
    PROVE  SessionInv'
<1>1. PICK q : q = [Idle EXCEPT !.pc = "edit", !.conn = session[s].conn, !.session = s,
                                !.seen = session[s].status]
  OBVIOUS
<1>2. session[s].conn \in Conns /\ session[s].status \in SessionStatuses
  BY DEF AdminReads, SessionInv, RowOK, Exists
<1>3. q \in Calls /\ q.pc = "edit" /\ q.session = s
  <2>1. 0 \in Energies /\ 0 \in 0 .. MaxCharges
    BY BoundsAssumption DEF Energies
  <2>2. "edit" \in Steps
    BY DEF Steps
  <2>3. QED  BY <1>1, <1>2, <2>1, <2>2 DEF Idle, Calls
<1>4. req' = [req EXCEPT ![r] = q] /\ apart' \subseteq apart
  BY <1>1, FewerApart DEF AdminReads, Arrives
<1>5. req' \in [Reqs -> Calls] /\ req'[r] = q /\ \A p \in Reqs \ {r} : req'[p] = req[p]
  BY <1>3, <1>4 DEF SessionInv, TypeOK
<1>6. session' \in [Sessions -> Rows] /\ Preserves /\ \A t \in Sessions : RowOK(t)'
  BY Unwritten DEF AdminReads, Edits
<1>7. ChargesGoOn /\ \A d \in Conns : ChargeOK(d)'
  BY <1>6, ChargesKept DEF AdminReads, Edits
<1>8. edits' \in 0 .. MaxEdits
  BY BoundsAssumption DEF AdminReads, Edits, SessionInv, TypeOK
<1>9. TypeOK'
  BY <1>4, <1>5, <1>6, <1>8 DEF AdminReads, Edits, SessionInv, TypeOK
<1>10. CallOK(req[r])'
  BY <1>3, <1>5 DEF CallOK, OcppSteps, StartSteps, RemoteSteps
<1>11. \A p \in Reqs : CallOK(req[p])'
  BY <1>5, <1>6, <1>7, <1>9, <1>10, CallsKept
<1>12. QED  BY <1>6, <1>7, <1>9, <1>11 DEF SessionInv

LEMMA StutterKeeps == ASSUME SessionInv, UNCHANGED vars PROVE SessionInv'
<1>1. session' \in [Sessions -> Rows] /\ Preserves /\ \A t \in Sessions : RowOK(t)'
  BY Unwritten DEF vars
<1>2. ChargesGoOn /\ \A c \in Conns : ChargeOK(c)'
  BY <1>1, ChargesKept DEF vars
<1>3. TypeOK'
  BY DEF vars, counters, SessionInv, TypeOK
<1>4. ASSUME NEW r \in Reqs PROVE CallOK(req[r])'
  <2>1. PICK q \in Calls : q = req[r]
    BY DEF SessionInv, TypeOK
  <2>2. CallOK(q)'
    BY <1>1, <1>2, <1>3, <2>1, CallKept DEF SessionInv
  <2>3. QED  BY <2>1, <2>2 DEF vars
<1>5. QED  BY <1>1, <1>2, <1>3, <1>4 DEF SessionInv

LEMMA InitHolds == Init => SessionInv
<1> SUFFICES ASSUME Init PROVE SessionInv
  OBVIOUS
<1>1. NoRow \in Rows /\ NoCharge \in Charges
  BY BoundsAssumption DEF NoRow, NoCharge, Rows, Charges, Energies, Phases
<1>2. TypeOK
  BY <1>1, IdleOK, BoundsAssumption DEF Init, TypeOK
<1>3. \A s \in Sessions : RowOK(s)
  BY DEF Init, RowOK, Exists, NoRow, SessionStatuses
<1>4. \A c \in Conns : ChargeOK(c)
  BY DEF Init, ChargeOK, NoCharge
<1>5. \A r \in Reqs : CallOK(req[r])
  BY IdleOK DEF Init
<1>6. QED  BY <1>2, <1>3, <1>4, <1>5 DEF SessionInv

-----------------------------------------------------------------------------

\* Rows, charges and calls in flight stay consistent: each reading at most
\* the register, each call about a session of its own charge.
THEOREM SessionInvariant == Spec => []SessionInv
<1>1. SessionInv /\ [Next]_vars => SessionInv'
  <2> SUFFICES ASSUME SessionInv, [Next]_vars PROVE SessionInv'
    OBVIOUS
  <2>1. ASSUME NEW r \in Reqs, HandlerStep(r) PROVE SessionInv'
    <3>1. CASE \/ AdminFails(r)
               \/ \E c \in Conns, status \in SessionStatuses, energy \in Energies :
                      AdminWrites(r, c, status, energy)
      BY <3>1, EditKeeps
    <3>2. CASE \/ \E s \in Sessions : StartFinds(r, s) \/ StartCreates(r, s)
               \/ StartFindsNone(r) \/ StartReuses(r) \/ StartRejects(r)
      BY <3>2, StartKeeps
    <3>3. CASE MeterWrites(r) \/ StopWrites(r)
      BY <3>3, MeterAndStopKeep
    <3>4. CASE RemoteSent(r) \/ RemoteRefused(r) \/ RemoteDeletes(r)
      BY <3>4, RemoteKeeps
    <3>5. QED  BY <2>1, <3>1, <3>2, <3>3, <3>4 DEF HandlerStep
  <2>2. ASSUME NEW r \in Reqs, Fails(r) PROVE SessionInv'
    BY <2>2, FailingKeeps
  <2>3. ASSUME NEW c \in Conns, StationStep(c) PROVE SessionInv'
    BY <2>3, StationKeeps
  <2>4. ASSUME NEW r \in Reqs, NEW u \in Users, NEW c \in Conns, NEW s \in Sessions,
               RemoteStart(r, u, c, s)
        PROVE  SessionInv'
    BY <2>4, RemoteStartKeeps
  <2>5. ASSUME NEW s \in Sessions, NEW u \in Users, NEW c \in Conns,
               NEW status \in SessionStatuses, NEW energy \in Energies,
               CreateByHand(s, u, c, status, energy)
        PROVE  SessionInv'
    BY <2>5, AdminKeeps
  <2>6. ASSUME NEW r \in Reqs, NEW s \in Sessions, AdminReads(r, s) PROVE SessionInv'
    BY <2>6, EditArrives
  <2>7. ASSUME NEW s \in Sessions, AdminRemove(s) PROVE SessionInv'
    BY <2>7, RemovedKeeps
  <2>8. CASE Crash
    BY <2>8, CrashKeeps
  <2>9. CASE UNCHANGED vars
    BY <2>9, StutterKeeps
  <2>10. QED  BY <2>1, <2>2, <2>3, <2>4, <2>5, <2>6, <2>7, <2>8, <2>9 DEF Next
<1>2. QED  BY <1>1, InitHolds, PTL DEF Spec

\* No reading or stop lands on the session of another user or connector.
THEOREM EachToItsOwn == Spec => []OwnSession
<1>1. SessionInv => OwnSession
  <2> SUFFICES ASSUME SessionInv PROVE OwnSession
    OBVIOUS
  <2>1. ASSUME NEW r \in Reqs, req[r].pc \in {"start.reuse", "meter", "stop"},
               req[r].session \notin exempt \cup {None}, Exists(req[r].session)
        PROVE  session[req[r].session].conn = req[r].conn /\ session[req[r].session].user = req[r].user
    BY <2>1 DEF SessionInv, CallOK, OcppCallOK, Own, OcppSteps, StartSteps
  <2>2. ASSUME NEW c \in Conns, charge[c].tid \notin exempt \cup {None}, Exists(charge[c].tid)
        PROVE  session[charge[c].tid].conn = c /\ session[charge[c].tid].user = charge[c].user
    BY <2>2 DEF SessionInv, ChargeOK, Own
  <2>3. QED  BY <2>1, <2>2 DEF OwnSession
<1>2. QED  BY <1>1, SessionInvariant, PTL

\* No session is billed for more than the register of its connector shows.
THEOREM NoEnergyFromNowhere == Spec => []NoPhantomEnergy
<1>1. SessionInv => NoPhantomEnergy
  BY DEF SessionInv, RowOK, NoPhantomEnergy
<1>2. QED  BY <1>1, SessionInvariant, PTL

\* Only StopTransaction completes a session, and the call is its own.
LEMMA CompletedByStop ==
    ASSUME SessionInv, Next, NEW s \in Sessions \ exempt',
           session[s].status = "ACTIVE", session'[s].status = "COMPLETED"
    PROVE  \E r \in Reqs : /\ req[r].pc = "stop" /\ req[r].conn = session[s].conn
                           /\ req[r].user = session[s].user
<1>1. session \in [Sessions -> Rows] /\ session' # session
  BY DEF SessionInv, TypeOK
<1>2. ASSUME NEW r \in Reqs, HandlerStep(r)
      PROVE  req[r].pc = "stop" /\ req[r].conn = session[s].conn /\ req[r].user = session[s].user
  <2>1. ~ \E t \in Sessions : StartFinds(r, t) \/ StartCreates(r, t)
    BY <1>1 DEF StartFinds, StartCreates, Insert, NewRow
  <2>2. ~ MeterWrites(r)
    BY <1>1 DEF MeterWrites, Metered, Rows
  <2>3. ~ (StartFindsNone(r) \/ StartReuses(r) \/ StartRejects(r) \/ RemoteSent(r) \/ RemoteRefused(r))
    BY <1>1 DEF StartFindsNone, StartReuses, StartRejects, RemoteSent, RemoteRefused
  <2>4. ~ RemoteDeletes(r)
    BY <1>1 DEF RemoteDeletes, Delete, NoRow
  <2>5. ~ AdminFails(r)
    BY <1>1 DEF AdminFails
  <2>6. ~ \E c \in Conns, status \in SessionStatuses, energy \in Energies :
            AdminWrites(r, c, status, energy)
    BY <1>1 DEF AdminWrites, ByHand
  <2>7. StopWrites(r)
    BY <1>2, <2>1, <2>2, <2>3, <2>4, <2>5, <2>6 DEF HandlerStep
  <2>8. req[r].pc = "stop" /\ OcppCallOK(req[r]) /\ s \notin exempt
    BY <2>7, OcppCall DEF StopWrites, OcppSteps
  <2>9. req[r].session = s /\ req[r].session # None
    BY <1>1, <2>7 DEF StopWrites
  <2>10. QED  BY <2>8, <2>9 DEF OcppCallOK, Own, Exists, SessionStatuses
<1>3. ~ \E r \in Reqs : Fails(r)
  BY <1>1 DEF Fails
<1>4. ~ \E c \in Conns : StationStep(c)
  BY <1>1 DEF StationStep, PlugIn, SendStart, SendMeter, SendStop, Draw, Finish
<1>5. ~ \E r \in Reqs, u \in Users, c \in Conns, t \in Sessions : RemoteStart(r, u, c, t)
  BY <1>1 DEF RemoteStart, Insert, NewRow
<1>6. ~ \E t \in Sessions, u \in Users, c \in Conns, status \in SessionStatuses,
           energy \in Energies : CreateByHand(t, u, c, status, energy)
  BY <1>1 DEF CreateByHand, Insert, ByHand
<1>7. ~ \E r \in Reqs, t \in Sessions : AdminReads(r, t)
  BY <1>1 DEF AdminReads
<1>8. ~ \E t \in Sessions : AdminRemove(t)
  BY <1>1 DEF AdminRemove, Delete, ByHand
<1>9. ~ Crash
  BY <1>1 DEF Crash
<1>10. \E r \in Reqs : HandlerStep(r)
  BY <1>3, <1>4, <1>5, <1>6, <1>7, <1>8, <1>9 DEF Next
<1>11. QED  BY <1>2, <1>10

\* A session is completed only by a stop of its own user on its connector.
THEOREM OwnStopOnly == Spec => StopIsReal
<1>1. SessionInv /\ [Next]_vars =>
        [\A s \in Sessions \ exempt' :
             session[s].status = "ACTIVE" /\ session'[s].status = "COMPLETED" =>
                 \E r \in Reqs : req[r].pc = "stop" /\ req[r].conn = session[s].conn
                                 /\ req[r].user = session[s].user]_vars
  BY CompletedByStop
<1>2. QED  BY <1>1, SessionInvariant, PTL DEF Spec, StopIsReal
-----------------------------------------------------------------------------
(* Connectors whose calls never overlapped: a charge has its session, one  *)
(* session is made for it, and what is settled is final.                   *)

\* A remote start is about a session of its own, too.
RemotesOwn ==
    \A r \in Reqs :
        LET q == req[r] IN
        q.pc \in RemoteSteps => q.conn \in Conns /\ Own(q.session, q.user, q.conn)

\* The one call in hand fits the phase of the charge.
CallApart(q) ==
    LET g == charge[q.conn] IN
    /\ q.pc \in StartSteps => g.phase = "starting" /\ g.n = q.n
    /\ q.pc \in {"start.reuse", "meter"} => q.session \in exempt \cup ActiveSessions(q.user, q.conn)
    /\ q.pc = "start.create" => ActiveSessions(q.user, q.conn) \subseteq exempt
    /\ q.pc = "meter" => g.phase \in {"charging", "stopping"} /\ q.session = g.tid
    /\ q.pc = "stop" => g.phase = "stopping" /\ q.session = g.tid /\ q.energy = meter[q.conn]
    /\ q.pc \in RemoteSteps /\ q.session \notin exempt =>
           q.session \in ActiveSessions(q.user, q.conn) /\ q.session # g.tid

\* A stop of the charge would find the session as the first stop left it.
Settled(c, s) ==
    session[s].status = "COMPLETED" /\ (meter[c] > 0 => session[s].energy = meter[c])

ChargeApart(c) ==
    LET g == charge[c] IN
    /\ g.phase = "charging" => g.tid \in exempt \cup ActiveSessions(g.user, c)
    /\ g.phase = "stopping" /\ g.tid \notin exempt \cup {None} =>
           g.tid \in ActiveSessions(g.user, c) \/ Settled(c, g.tid)

ConnApart(c) ==
    /\ \A r, k \in Reqs : req[r].conn = c /\ req[k].conn = c => r = k
    /\ \A r \in Reqs : req[r].conn = c => CallApart(req[r])
    /\ ChargeApart(c)

ApartInv == RemotesOwn /\ \A c \in apart : ConnApart(c)

\* What a step about connector e leaves to all the others, and in settled rows.
SameRows(d) ==
    \A s \in Sessions \ exempt' :
        (Exists(s) /\ session[s].conn = d) \/ (Exists(s)' /\ session'[s].conn = d) =>
            session'[s] = session[s]

Elsewhere(e) ==
    \A d \in Conns \ {e} : SameRows(d) /\ charge'[d] = charge[d] /\ meter'[d] = meter[d]

Final ==
    \A s \in Sessions \ exempt' :
        session[s].status = "COMPLETED" /\ session[s].conn \in apart => session'[s] = session[s]

LEMMA ActiveKept ==
    ASSUME NEW d, SameRows(d)
    PROVE  \A u, s : s \notin exempt' => (s \in ActiveSessions(u, d)' <=> s \in ActiveSessions(u, d))
BY DEF SameRows, ActiveSessions, Exists, SessionStatuses

LEMMA CallApartKept ==
    ASSUME NEW d, NEW q, q.conn = d, CallApart(q), SameRows(d), exempt \subseteq exempt',
           charge'[d] = charge[d], meter'[d] = meter[d]
    PROVE  CallApart(q)'
<1>1. \A u, s : s \notin exempt' => (s \in ActiveSessions(u, d)' <=> s \in ActiveSessions(u, d))
  BY ActiveKept
<1>2. q.pc \in {"start.reuse", "meter"} => q.session \in exempt' \cup ActiveSessions(q.user, d)'
  BY <1>1 DEF CallApart
<1>3. q.pc = "start.create" => ActiveSessions(q.user, d)' \subseteq exempt'
  BY <1>1 DEF CallApart
<1>4. q.pc \in RemoteSteps /\ q.session \notin exempt' =>
          q.session \in ActiveSessions(q.user, d)' /\ q.session # charge'[d].tid
  BY <1>1 DEF CallApart
<1>5. QED  BY <1>2, <1>3, <1>4 DEF CallApart

LEMMA ChargeApartKept ==
    ASSUME SessionInv, NEW d \in Conns, ChargeApart(d), SameRows(d), exempt \subseteq exempt',
           charge'[d] = charge[d], meter'[d] = meter[d]
    PROVE  ChargeApart(d)'
<1>1. \A u, s : s \notin exempt' => (s \in ActiveSessions(u, d)' <=> s \in ActiveSessions(u, d))
  BY ActiveKept
<1>2. PICK s : s = charge[d].tid
  OBVIOUS
<1>3. ChargeOK(d) /\ s \in Sessions \cup {None}
  BY <1>2 DEF SessionInv, TypeOK, Charges
<1>4. s \notin exempt' \cup {None} /\ Settled(d, s) => Settled(d, s)'
  BY <1>2, <1>3 DEF Settled, ChargeOK, Own, SameRows, Exists, SessionStatuses
<1>5. QED  BY <1>1, <1>2, <1>4 DEF ChargeApart

LEMMA ConnKept ==
    ASSUME SessionInv, NEW d \in Conns, ConnApart(d), SameRows(d), exempt \subseteq exempt',
           charge'[d] = charge[d], meter'[d] = meter[d],
           \A r \in Reqs : req'[r].conn = d => req'[r] = req[r]
    PROVE  ConnApart(d)'
<1>1. \A r, k \in Reqs : req'[r].conn = d /\ req'[k].conn = d => r = k
  BY DEF ConnApart
<1>2. ASSUME NEW r \in Reqs, req'[r].conn = d PROVE CallApart(req[r])'
  <2>1. PICK q : q = req[r]
    OBVIOUS
  <2>2. req'[r] = q /\ q.conn = d /\ CallApart(q)
    BY <1>2, <2>1 DEF ConnApart
  <2>3. CallApart(q)'
    BY <2>2, CallApartKept
  <2>4. QED  BY <2>2, <2>3
<1>3. ChargeApart(d)'
  BY ChargeApartKept DEF ConnApart
<1>4. QED  BY <1>1, <1>2, <1>3 DEF ConnApart

\* A step about connector e.
LEMMA ApartStep ==
    ASSUME SessionInv, ApartInv, NEW e, Preserves, Elsewhere(e), apart' \subseteq apart,
           \A r \in Reqs : req'[r].conn \in Conns \ {e} => req'[r] = req[r],
           \A r \in Reqs : req'[r].pc \in RemoteSteps =>
               \/ req'[r] = req[r]
               \/ req'[r].conn \in Conns /\ Own(req[r].session, req[r].user, req[r].conn)',
           e \in apart' => ConnApart(e)'
    PROVE  ApartInv'
<1>1. apart \subseteq Conns
  BY DEF SessionInv, TypeOK
<1>2. ASSUME NEW d \in apart' PROVE ConnApart(d)'
  <2>1. CASE d = e
    BY <1>2, <2>1
  <2>2. CASE d # e
    BY <1>1, <2>2, ConnKept DEF Elsewhere, ApartInv, Preserves
  <2>3. QED  BY <2>1, <2>2
<1>3. ASSUME NEW r \in Reqs, req'[r].pc \in RemoteSteps
      PROVE  req'[r].conn \in Conns /\ Own(req[r].session, req[r].user, req[r].conn)'
  <2>1. CASE req'[r] = req[r]
    <3>1. PICK q : q = req[r]
      OBVIOUS
    <3>2. q.conn \in Conns /\ Own(q.session, q.user, q.conn) /\ q.session \in Sessions
      BY <1>3, <2>1, <3>1 DEF ApartInv, RemotesOwn, SessionInv, CallOK
    <3>3. Own(q.session, q.user, q.conn)'
      BY <3>2, OwnKept
    <3>4. QED  BY <2>1, <3>1, <3>2, <3>3
  <2>2. CASE req'[r] # req[r]
    BY <1>3, <2>2
  <2>3. QED  BY <2>1, <2>2
<1>4. RemotesOwn'
  BY <1>3 DEF RemotesOwn
<1>5. QED  BY <1>2, <1>4 DEF ApartInv

\* The call in hand ends.
LEMMA EndsApart ==
    ASSUME SessionInv, ApartInv, NEW r \in Reqs, Ends(r), apart' = apart,
           NEW e, e = req[r].conn, Preserves, Elsewhere(e), e \in apart => ChargeApart(e)'
    PROVE  ApartInv'
<1>1. req'[r] = Idle /\ \A p \in Reqs \ {r} : req'[p] = req[p]
  BY DEF Ends, SessionInv, TypeOK
<1>2. Idle.conn = None /\ Idle.pc \notin RemoteSteps /\ None \notin Conns
  BY NoneAssumption DEF Idle, RemoteSteps
<1>3. ASSUME e \in apart PROVE ConnApart(e)'
  <2>1. \A p \in Reqs : req[p].conn = e => p = r
    BY <1>3 DEF ApartInv, ConnApart
  <2>2. e # None
    BY <1>2, <1>3 DEF SessionInv, TypeOK
  <2>3. \A p \in Reqs : req'[p].conn # e
    BY <1>1, <1>2, <2>1, <2>2
  <2>4. QED  BY <1>3, <2>3 DEF ConnApart
<1>4. \A p \in Reqs : req'[p].conn \in Conns => req'[p] = req[p]
  BY <1>1, <1>2
<1>5. \A p \in Reqs : req'[p].pc \in RemoteSteps => req'[p] = req[p]
  BY <1>1, <1>2
<1>6. QED  BY <1>3, <1>4, <1>5, ApartStep

LEMMA SameRowsKept == UNCHANGED session => Final /\ \A d : SameRows(d)
BY DEF SameRows, Final

\* What an answer does to the charge it is about.
LEMMA AnswerApart ==
    ASSUME SessionInv, NEW r \in Reqs, req[r].pc \in OcppSteps, NEW e, e = req[r].conn,
           NEW from, NEW outcomes, Answer(r, from, outcomes), UNCHANGED meter,
           \A d \in Conns \ {e} : SameRows(d)
    PROVE  /\ e \in Conns /\ Elsewhere(e)
           /\ \/ charge' = charge
              \/ /\ charge[e].phase = from /\ charge'[e].user = req[r].user
                 /\ \E o \in outcomes : charge'[e].phase = o.phase /\ charge'[e].tid = o.tid
<1>1. e \in Conns /\ OcppCallOK(req[r]) /\ charge \in [Conns -> Charges]
  BY OcppCall DEF SessionInv, TypeOK
<1>2. CASE charge' = charge
  BY <1>1, <1>2 DEF Elsewhere
<1>3. CASE charge' # charge
  <2>1. PICK o \in outcomes : charge' = [charge EXCEPT ![e].phase = o.phase, ![e].tid = o.tid]
    BY <1>3 DEF Answer
  <2>2. charge[e].phase = from /\ charge[e].n = req[r].n
    BY <1>3 DEF Answer
  <2>3. PICK g : g = [charge[e] EXCEPT !.phase = o.phase, !.tid = o.tid]
    OBVIOUS
  <2>4. charge'[e] = g /\ \A d \in Conns \ {e} : charge'[d] = charge[d]
    BY <1>1, <2>1, <2>3
  <2>5. g.phase = o.phase /\ g.tid = o.tid /\ g.user = charge[e].user
    BY <1>1, <2>3 DEF Charges
  <2>6. charge[e].user = req[r].user
    BY <1>1, <2>2 DEF OcppCallOK
  <2>7. QED  BY <1>1, <2>2, <2>4, <2>5, <2>6 DEF Elsewhere
<1>4. QED  BY <1>2, <1>3

LEMMA HereApart ==
    ASSUME SessionInv, ApartInv, NEW r \in Reqs, NEW e, e = req[r].conn, e \in apart
    PROVE  e \in Conns /\ CallApart(req[r]) /\ ChargeApart(e)
BY DEF SessionInv, TypeOK, ApartInv, ConnApart

\* A row of connector e is written or inserted, or there is no other change.
LEMMA RowOfConn ==
    ASSUME SessionInv, NEW s \in Sessions, NEW row, session' = [session EXCEPT ![s] = row],
           NEW e, \/ s \in exempt'
                  \/ /\ Exists(s) => session[s].conn = e
                     /\ row.status \in SessionStatuses => row.conn = e
    PROVE  \A d \in Conns \ {e} : SameRows(d)
<1>1. session'[s] = row /\ \A t \in Sessions \ {s} : session'[t] = session[t]
  BY DEF SessionInv, TypeOK
<1>2. QED  BY <1>1 DEF SameRows, Exists

\* A rejected start leaves a charge without session, or with one that is exempt.
LEMMA RejectedApart ==
    ASSUME SessionInv, ApartInv, NEW r \in Reqs, req[r].pc \in StartSteps,
           AnswerRejected(r), Ends(r), UNCHANGED <<session, meter, apart>>
    PROVE  ApartInv' /\ Final
<1>1. PICK e : e = req[r].conn
  OBVIOUS
<1>2. PICK id \in RandomIds \cup {None} :
          /\ Answer(r, "starting", Rejects(id))
          /\ exempt' = IF charge' = charge THEN exempt ELSE exempt \cup ({id} \cap Sessions)
  BY DEF AnswerRejected
<1>3. Preserves
  BY <1>2, Unwritten
<1>4. /\ Elsewhere(e)
      /\ \/ charge' = charge
         \/ charge'[e].phase \in {"stopping", "free"} /\ charge'[e].tid \in exempt' \cup {None}
  <2>1. req[r].pc \in OcppSteps
    BY DEF OcppSteps
  <2>2. \A o \in Rejects(id) : o.phase \in {"stopping", "free"} /\ o.tid = id
    BY DEF Rejects
  <2>3. charge' = charge \/ id \in exempt' \cup {None}
    BY <1>2, RandomIdsAssumption
  <2>4. QED  BY <1>1, <1>2, <2>1, <2>2, <2>3, SameRowsKept, AnswerApart
<1>5. ASSUME e \in apart PROVE ChargeApart(e)'
  <2>1. CASE charge' = charge
    BY <1>1, <1>3, <1>5, <2>1, HereApart, ChargeApartKept, SameRowsKept DEF Preserves
  <2>2. CASE charge'[e].phase \in {"stopping", "free"} /\ charge'[e].tid \in exempt' \cup {None}
    BY <2>2 DEF ChargeApart
  <2>3. QED  BY <1>4, <2>1, <2>2
<1>6. QED  BY <1>1, <1>3, <1>4, <1>5, EndsApart, SameRowsKept

\* StartTransaction finds a session, or finds that it has to make one.
LEMMA StartLooksApart ==
    ASSUME SessionInv, ApartInv, NEW r \in Reqs, StartFindsNone(r) \/ \E s \in Sessions : StartFinds(r, s)
    PROVE  ApartInv' /\ Final
<1>1. PICK q : q = req[r]
  OBVIOUS
<1>2. PICK e : e = q.conn
  OBVIOUS
<1>3. q \in Calls /\ q.pc = "start" /\ q.pc \in OcppSteps /\ e \in Conns
  BY <1>1, <1>2, OcppCall DEF StartFinds, StartFindsNone, OcppSteps, StartSteps
<1>4. UNCHANGED <<session, charge, meter, exempt, apart>>
  BY DEF StartFinds, StartFindsNone
<1>5. PICK w : /\ req' = [req EXCEPT ![r] = w] /\ w.conn = e /\ w.user = q.user /\ w.n = q.n
               /\ \/ w.pc = "start.create" /\ ActiveSessions(q.user, e) = {}
                  \/ w.pc = "start.reuse" /\ w.session \in ActiveSessions(q.user, e)
  <2>1. CASE StartFindsNone(r)
    <3>1. PICK w : w = [q EXCEPT !.pc = "start.create"]
      OBVIOUS
    <3>2. /\ w.pc = "start.create" /\ w.conn = e /\ w.user = q.user /\ w.n = q.n
      BY <1>2, <1>3, <3>1 DEF Calls
    <3>3. req' = [req EXCEPT ![r] = w]
      BY <1>1, <2>1, <3>1 DEF StartFindsNone, Continues
    <3>4. ActiveSessions(q.user, e) = {}
      BY <1>1, <1>2, <2>1 DEF StartFindsNone, Candidates
    <3>5. QED  BY <3>2, <3>3, <3>4
  <2>2. ASSUME NEW s \in Sessions, StartFinds(r, s)
        PROVE  \E w : /\ req' = [req EXCEPT ![r] = w] /\ w.conn = e /\ w.user = q.user /\ w.n = q.n
                     /\ \/ w.pc = "start.create" /\ ActiveSessions(q.user, e) = {}
                        \/ w.pc = "start.reuse" /\ w.session \in ActiveSessions(q.user, e)
    <3>1. PICK w : w = [q EXCEPT !.pc = "start.reuse", !.session = s]
      OBVIOUS
    <3>2. /\ w.pc = "start.reuse" /\ w.session = s /\ w.conn = e /\ w.user = q.user /\ w.n = q.n
      BY <1>2, <1>3, <3>1 DEF Calls
    <3>3. req' = [req EXCEPT ![r] = w]
      BY <1>1, <1>3, <2>2, <3>1 DEF StartFinds, SessionInv, TypeOK
    <3>4. s \in ActiveSessions(q.user, e)
      BY <1>1, <1>2, <2>2 DEF StartFinds, Candidates
    <3>5. QED  BY <3>2, <3>3, <3>4
  <2>3. QED  BY <2>1, <2>2
<1>6. req'[r] = w /\ \A p \in Reqs \ {r} : req'[p] = req[p]
  BY <1>5 DEF SessionInv, TypeOK
<1>7. Preserves /\ Elsewhere(e) /\ Final
  BY <1>4, Unwritten, SameRowsKept DEF Elsewhere
<1>8. ASSUME e \in apart' PROVE ConnApart(e)'
  <2>1. CallApart(q) /\ ChargeApart(e)
    BY <1>1, <1>2, <1>4, <1>8, HereApart
  <2>2. charge[e].phase = "starting" /\ charge[e].n = q.n
    BY <1>2, <1>3, <2>1 DEF CallApart, StartSteps
  <2>3. CallApart(w)'
    BY <1>4, <1>5, <2>2 DEF CallApart, ActiveSessions, StartSteps, RemoteSteps
  <2>4. \A p \in Reqs : req[p].conn = e => p = r
    BY <1>1, <1>2, <1>4, <1>8 DEF ApartInv, ConnApart
  <2>5. ChargeApart(e)'
    BY <1>4, <2>2 DEF ChargeApart
  <2>6. QED  BY <1>6, <2>3, <2>4, <2>5 DEF ConnApart
<1>9. w.pc \notin RemoteSteps
  BY <1>5 DEF RemoteSteps
<1>10. QED  BY <1>4, <1>5, <1>6, <1>7, <1>8, <1>9, ApartStep
LEMMA ArrivesApart ==
    ASSUME SessionInv, ApartInv, NEW r \in Reqs, NEW q, Arrives(r, q),
           NEW e \in Conns, q.conn = e, Preserves, Elsewhere(e),
           q.pc \in RemoteSteps => Own(q.session, q.user, e)',
           e \in apart' => CallApart(q)' /\ ChargeApart(e)'
    PROVE  ApartInv'
<1>1. req'[r] = q /\ \A p \in Reqs \ {r} : req'[p] = req[p]
  BY DEF Arrives, SessionInv, TypeOK
<1>2. apart' \subseteq apart
  BY FewerApart
<1>3. ASSUME e \in apart' PROVE ConnApart(e)'
  <2>1. InHand(q) = {}
    BY <1>3 DEF Arrives
  <2>2. \A p \in Reqs : req[p].conn # e
    BY <2>1 DEF InHand
  <2>3. \A p \in Reqs : req'[p].conn = e => p = r
    BY <1>1, <2>2
  <2>4. QED  BY <1>1, <1>3, <2>3 DEF ConnApart
<1>4. \A p \in Reqs : req'[p].conn \in Conns \ {e} => req'[p] = req[p]
  BY <1>1
<1>5. \A p \in Reqs : req'[p].pc \in RemoteSteps =>
          \/ req'[p] = req[p]
          \/ req'[p].conn \in Conns /\ Own(req[p].session, req[p].user, req[p].conn)'
  BY <1>1
<1>6. QED  BY <1>2, <1>3, <1>4, <1>5, ApartStep

\* StartTransaction is answered with a session of its own that is active.
LEMMA AcceptedApart ==
    ASSUME SessionInv, ApartInv, NEW r \in Reqs, req[r].pc \in StartSteps, NEW s \in Sessions,
           Answer(r, "starting", Accepts(s)), Ends(r), UNCHANGED <<meter, apart>>, Preserves,
           NEW e, e = req[r].conn, \A d \in Conns \ {e} : SameRows(d),
           NEW u, u = req[r].user, e \in apart => s \in exempt' \cup ActiveSessions(u, e)'
    PROVE  ApartInv'
<1>1. /\ Elsewhere(e)
      /\ \/ charge' = charge
         \/ charge'[e].user = u /\ charge'[e].phase = "charging" /\ charge'[e].tid = s
  <2>1. req[r].pc \in OcppSteps
    BY DEF OcppSteps
  <2>2. \A o \in Accepts(s) : o.phase = "charging" /\ o.tid = s
    BY DEF Accepts
  <2>3. QED  BY <2>1, <2>2, AnswerApart
<1>2. ASSUME e \in apart PROVE ChargeApart(e)'
  <2>1. CASE charge' = charge
    <3>1. charge[e].phase = "starting"
      BY <1>2, HereApart DEF CallApart
    <3>2. QED  BY <2>1, <3>1 DEF ChargeApart
  <2>2. CASE charge'[e].user = u /\ charge'[e].phase = "charging" /\ charge'[e].tid = s
    BY <1>2, <2>2 DEF ChargeApart
  <2>3. QED  BY <1>1, <2>1, <2>2
<1>3. QED  BY <1>1, <1>2, EndsApart

LEMMA ReuseApart ==
    ASSUME SessionInv, ApartInv, NEW r \in Reqs, StartReuses(r)
    PROVE  ApartInv' /\ Final
<1>1. PICK e : e = req[r].conn
  OBVIOUS
<1>2. PICK u : u = req[r].user
  OBVIOUS
<1>3. req[r].pc \in StartSteps /\ UNCHANGED <<session, meter, exempt, apart>> /\ Ends(r)
  BY DEF StartReuses, StartSteps
<1>4. PICK s \in Sessions : s = req[r].session
  BY <1>3, OcppCall DEF StartReuses, OcppSteps, OcppCallOK
<1>5. Answer(r, "starting", Accepts(s))
  BY <1>4 DEF StartReuses
<1>6. e \in apart => s \in exempt' \cup ActiveSessions(u, e)'
  <2>1. e \in apart => s \in exempt \cup ActiveSessions(u, e)
    BY <1>1, <1>2, <1>4, HereApart DEF CallApart, StartReuses
  <2>2. QED  BY <1>3, <2>1 DEF ActiveSessions
<1>7. QED  BY <1>1, <1>2, <1>3, <1>5, <1>6, AcceptedApart, SameRowsKept, Unwritten

LEMMA CreateApart ==
    ASSUME SessionInv, ApartInv, NEW r \in Reqs, NEW s \in Sessions, StartCreates(r, s)
    PROVE  ApartInv' /\ Final
<1>1. PICK e : e = req[r].conn
  OBVIOUS
<1>2. PICK u : u = req[r].user
  OBVIOUS
<1>3. req[r].pc \in StartSteps /\ UNCHANGED <<meter, exempt, apart>> /\ Ends(r)
      /\ Answer(r, "starting", Accepts(s))
  BY DEF StartCreates, StartSteps
<1>4. e \in Conns /\ u \in Users
  BY <1>1, <1>2, <1>3, OcppCall DEF OcppSteps
<1>5. Insert(s, NewRow(u, e, "ACTIVE", 0))
  BY <1>1, <1>2 DEF StartCreates
<1>6. Preserves
  BY <1>3, <1>4, <1>5, Inserted
<1>7. PICK row : row = NewRow(u, e, "ACTIVE", 0)
  OBVIOUS
<1>8. row.status = "ACTIVE" /\ row.user = u /\ row.conn = e
  BY <1>7 DEF NewRow
<1>9. session[s].status = "NONE" /\ session' = [session EXCEPT ![s] = row]
  BY <1>5, <1>7 DEF Insert
<1>10. session'[s] = row /\ \A t \in Sessions \ {s} : session'[t] = session[t]
  BY <1>9 DEF SessionInv, TypeOK
<1>11. \A d \in Conns \ {e} : SameRows(d)
  BY <1>8, <1>9, RowOfConn DEF Exists, SessionStatuses
<1>12. s \in ActiveSessions(u, e)'
  BY <1>8, <1>10 DEF ActiveSessions
<1>13. Final
  BY <1>9, <1>10 DEF Final
<1>14. ApartInv'
  BY <1>1, <1>2, <1>3, <1>6, <1>11, <1>12, AcceptedApart
<1>15. QED  BY <1>13, <1>14
\* MeterValues and StopTransaction write a row of their connector.
LEMMA MeterApart ==
    ASSUME SessionInv, ApartInv, NEW r \in Reqs, MeterWrites(r)
    PROVE  ApartInv' /\ Final
<1>1. PICK e : e = req[r].conn
  OBVIOUS
<1>2. PICK q : q = req[r]
  OBVIOUS
<1>3. PICK s : s = q.session
  OBVIOUS
<1>4. q.pc = "meter" /\ req[r].pc \in OcppSteps /\ UNCHANGED <<charge, meter, exempt, apart>> /\ Ends(r)
  BY <1>2 DEF MeterWrites, OcppSteps
<1>5. Preserves
  BY WrittenByCall DEF MeterWrites
<1>6. CASE UNCHANGED session
  <2>1. Elsewhere(e) /\ Final
    BY <1>4, <1>6, SameRowsKept DEF Elsewhere
  <2>2. e \in apart => ChargeApart(e)'
    BY <1>1, <1>4, <1>6, HereApart DEF ChargeApart, ActiveSessions, Settled
  <2>3. QED  BY <1>1, <1>4, <1>5, <2>1, <2>2, EndsApart
<1>7. CASE ~ UNCHANGED session
  <2>1. s # None /\ Exists(s) /\ session' = [session EXCEPT ![s] = Metered(@, q.energy)]
    BY <1>2, <1>3, <1>7 DEF MeterWrites
  <2>2. PICK row : row = Metered(session[s], q.energy)
    OBVIOUS
  <2>3. s \in Sessions /\ session[s] \in Rows /\ OcppCallOK(q)
    BY <1>2, <1>3, <1>4, <2>1, OcppCall DEF SessionInv, TypeOK
  <2>4. row.conn = session[s].conn /\ row.user = session[s].user /\ row.status = session[s].status
    BY <2>2, <2>3 DEF Metered, Rows
  <2>5. session' = [session EXCEPT ![s] = row]
    BY <2>1, <2>2
  <2>6. /\ s \notin exempt => session[s].conn = e
        /\ session'[s] = row /\ \A t \in Sessions \ {s} : session'[t] = session[t]
        /\ \A d \in Conns \ {e} : SameRows(d)
    <3>1. s \notin exempt => session[s].conn = e
      BY <1>1, <1>2, <1>3, <2>1, <2>3 DEF OcppCallOK, Own
    <3>2. \A d \in Conns \ {e} : SameRows(d)
      BY <1>4, <2>3, <2>4, <2>5, <3>1, RowOfConn
    <3>3. session'[s] = row /\ \A t \in Sessions \ {s} : session'[t] = session[t]
      BY <2>3, <2>5 DEF SessionInv, TypeOK
    <3>4. QED  BY <3>1, <3>2, <3>3
  <2>7. Elsewhere(e)
    BY <1>4, <2>6 DEF Elsewhere
  <2>8. e \in apart => s \in exempt \cup ActiveSessions(q.user, e) /\ ChargeApart(e) /\ s = charge[e].tid
    BY <1>1, <1>2, <1>3, <1>4, HereApart DEF CallApart
  <2>9. Final
    BY <1>4, <2>6, <2>8 DEF Final, ActiveSessions
  <2>10. ASSUME e \in apart PROVE ChargeApart(e)'
    <3>1. CASE s \in exempt
      BY <1>4, <2>8, <2>10, <3>1 DEF ChargeApart
    <3>2. CASE s \notin exempt
      <4>1. \A v : s \in ActiveSessions(v, e) => s \in ActiveSessions(v, e)'
        BY <2>3, <2>4, <2>6 DEF ActiveSessions
      <4>2. ~ Settled(e, s)
        BY <2>8, <2>10, <3>2 DEF Settled, ActiveSessions
      <4>3. QED  BY <1>4, <2>8, <2>10, <3>2, <4>1, <4>2 DEF ChargeApart
    <3>3. QED  BY <3>1, <3>2
  <2>11. QED  BY <1>1, <1>4, <1>5, <2>7, <2>9, <2>10, EndsApart
<1>8. QED  BY <1>6, <1>7

LEMMA StopApart ==
    ASSUME SessionInv, ApartInv, NEW r \in Reqs, StopWrites(r)
    PROVE  ApartInv' /\ Final
<1>1. PICK e : e = req[r].conn
  OBVIOUS
<1>2. PICK q : q = req[r]
  OBVIOUS
<1>3. PICK s : s = q.session
  OBVIOUS
<1>4. q.pc = "stop" /\ req[r].pc \in OcppSteps /\ UNCHANGED <<meter, exempt, apart>> /\ Ends(r)
      /\ Answer(r, "stopping", StopAnswered)
  BY <1>2 DEF StopWrites, OcppSteps
<1>5. Preserves
  BY WrittenByCall DEF StopWrites
<1>6. e \in apart => /\ e \in Conns /\ ChargeApart(e)
                     /\ charge[e].phase = "stopping" /\ s = charge[e].tid /\ q.energy = meter[e]
  BY <1>1, <1>2, <1>3, <1>4, HereApart DEF CallApart
<1>7. /\ \A d \in Conns \ {e} : SameRows(d)
      /\ Final
      /\ e \in apart /\ s \notin exempt \cup {None}
         /\ (s \in ActiveSessions(charge[e].user, e) \/ Settled(e, s)) => Settled(e, s)'
  <2>1. CASE ~ (s # None /\ Exists(s))
    <3>1. UNCHANGED session
      BY <1>2, <1>3, <2>1 DEF StopWrites
    <3>2. s # None => ~ Settled(e, s) /\ s \notin ActiveSessions(charge[e].user, e)
      BY <2>1 DEF Settled, ActiveSessions, Exists, SessionStatuses
    <3>3. QED  BY <3>1, <3>2, SameRowsKept
  <2>2. CASE s # None /\ Exists(s)
    <3>1. session' = [session EXCEPT ![s] = Stopped(@, q.energy)]
      BY <1>2, <1>3, <2>2 DEF StopWrites
    <3>2. PICK row : row = Stopped(session[s], q.energy)
      OBVIOUS
    <3>3. s \in Sessions /\ session[s] \in Rows /\ OcppCallOK(q)
      BY <1>2, <1>3, <1>4, <2>2, OcppCall DEF SessionInv, TypeOK
    <3>4. row.conn = session[s].conn /\ row.status = "COMPLETED"
          /\ row.energy = (IF q.energy > 0 THEN q.energy ELSE session[s].energy)
      BY <3>2, <3>3 DEF Stopped, Rows
    <3>5. session' = [session EXCEPT ![s] = row]
      BY <3>1, <3>2
    <3>6. /\ s \notin exempt => session[s].conn = e
          /\ session'[s] = row /\ \A t \in Sessions \ {s} : session'[t] = session[t]
          /\ \A d \in Conns \ {e} : SameRows(d)
      <4>1. s \notin exempt => session[s].conn = e
        BY <1>1, <1>2, <1>3, <2>2, <3>3 DEF OcppCallOK, Own
      <4>2. \A d \in Conns \ {e} : SameRows(d)
        BY <1>4, <3>3, <3>4, <3>5, <4>1, RowOfConn
      <4>3. session'[s] = row /\ \A t \in Sessions \ {s} : session'[t] = session[t]
        BY <3>3, <3>5 DEF SessionInv, TypeOK
      <4>4. QED  BY <4>1, <4>2, <4>3
    <3>7. e \in apart => Settled(e, s)'
      BY <1>4, <1>6, <3>4, <3>6 DEF Settled
    <3>8. ASSUME e \in apart, s \notin exempt, session[s].status = "COMPLETED" PROVE row = session[s]
      <4>1. Settled(e, s)
        BY <1>6, <2>2, <3>8 DEF ChargeApart, ActiveSessions
      <4>2. row.energy = session[s].energy
        BY <1>6, <3>4, <3>8, <4>1 DEF Settled
      <4>3. QED  BY <3>2, <3>3, <3>4, <3>8, <4>2 DEF Stopped, Rows
    <3>9. Final
      BY <1>4, <3>6, <3>8 DEF Final
    <3>10. QED  BY <3>6, <3>7, <3>9
  <2>3. QED  BY <2>1, <2>2
<1>8. /\ Elsewhere(e)
      /\ \/ charge' = charge
         \/ charge'[e].phase = "free"
  <2>1. \A o \in StopAnswered : o.phase = "free"
    BY DEF StopAnswered
  <2>2. QED  BY <1>1, <1>4, <1>7, <2>1, AnswerApart
<1>9. ASSUME e \in apart PROVE ChargeApart(e)'
  <2>1. CASE charge' = charge
    BY <1>4, <1>6, <1>7, <1>9, <2>1 DEF ChargeApart
  <2>2. CASE charge'[e].phase = "free"
    BY <2>2 DEF ChargeApart
  <2>3. QED  BY <1>8, <2>1, <2>2
<1>10. QED  BY <1>1, <1>4, <1>5, <1>7, <1>8, <1>9, EndsApart
\* What it takes to end a call that leaves its charge alone.
LEMMA LeftApart ==
    ASSUME SessionInv, ApartInv, NEW e, e \in apart, ConnApart(e),
           UNCHANGED <<session, charge, meter, exempt>>
    PROVE  ChargeApart(e)'
BY ChargeApartKept, SameRowsKept DEF SessionInv, TypeOK, ConnApart

LEMMA FailsApart ==
    ASSUME SessionInv, ApartInv, NEW r \in Reqs, Fails(r)
    PROVE  ApartInv' /\ Final
<1>1. PICK e : e = req[r].conn
  OBVIOUS
<1>2. UNCHANGED <<session, meter, apart>> /\ Ends(r)
  BY DEF Fails
<1>3. CASE req[r].pc \in StartSteps /\ AnswerRejected(r)
  BY <1>2, <1>3, RejectedApart
<1>4. CASE UNCHANGED exempt /\ req[r].pc = "stop" /\ Answer(r, "stopping", StopAnswered)
  <2>1. req[r].pc \in OcppSteps
    BY <1>4 DEF OcppSteps
  <2>2. \A o \in StopAnswered : o.phase = "free"
    BY DEF StopAnswered
  <2>3. Elsewhere(e) /\ (charge' = charge \/ charge'[e].phase = "free")
    BY <1>1, <1>2, <1>4, <2>1, <2>2, SameRowsKept, AnswerApart
  <2>4. e \in apart => ChargeApart(e)'
    BY <1>2, <1>4, <2>3, LeftApart DEF ApartInv, ChargeApart
  <2>5. Preserves
    BY <1>2, <1>4, Unwritten
  <2>6. QED  BY <1>1, <1>2, <2>3, <2>4, <2>5, EndsApart, SameRowsKept
<1>5. CASE UNCHANGED <<charge, exempt>>
  <2>1. Elsewhere(e)
    BY <1>2, <1>5, SameRowsKept DEF Elsewhere
  <2>2. e \in apart => ChargeApart(e)'
    BY <1>2, <1>5, LeftApart DEF ApartInv
  <2>3. Preserves
    BY <1>2, <1>5, Unwritten
  <2>4. QED  BY <1>1, <1>2, <2>1, <2>2, <2>3, EndsApart, SameRowsKept
<1>6. QED  BY <1>3, <1>4, <1>5 DEF Fails

LEMMA RemoteSentApart ==
    ASSUME SessionInv, ApartInv, NEW r \in Reqs, RemoteSent(r)
    PROVE  ApartInv' /\ Final
<1>1. PICK e : e = req[r].conn
  OBVIOUS
<1>2. UNCHANGED <<session, charge, meter, exempt, apart>> /\ Ends(r) /\ Preserves
  BY Unwritten DEF RemoteSent
<1>3. Elsewhere(e)
  BY <1>2, SameRowsKept DEF Elsewhere
<1>4. e \in apart => ChargeApart(e)'
  BY <1>2, LeftApart DEF ApartInv
<1>5. QED  BY <1>1, <1>2, <1>3, <1>4, EndsApart, SameRowsKept

LEMMA RemoteRefusedApart ==
    ASSUME SessionInv, ApartInv, NEW r \in Reqs, RemoteRefused(r)
    PROVE  ApartInv' /\ Final
<1>1. PICK q : q = req[r]
  OBVIOUS
<1>2. PICK e : e = q.conn
  OBVIOUS
<1>3. UNCHANGED <<session, charge, meter, exempt, apart>> /\ Preserves
  BY Unwritten DEF RemoteRefused
<1>4. q \in Calls /\ q.pc = "remote.send" /\ e \in Conns /\ Own(q.session, q.user, e)
      /\ q.session \in Sessions
  BY <1>1, <1>2
     DEF RemoteRefused, RemoteSteps, ApartInv, RemotesOwn, SessionInv, TypeOK, CallOK
<1>5. PICK w : w = [q EXCEPT !.pc = "remote.delete"]
  OBVIOUS
<1>6. w.pc = "remote.delete" /\ w.conn = e /\ w.user = q.user /\ w.session = q.session
  BY <1>2, <1>4, <1>5 DEF Calls
<1>7. req' = [req EXCEPT ![r] = w]
  BY <1>1, <1>5 DEF RemoteRefused, Continues
<1>8. req'[r] = w /\ \A p \in Reqs \ {r} : req'[p] = req[p]
  BY <1>7 DEF SessionInv, TypeOK
<1>9. Elsewhere(e) /\ Final
  BY <1>3, SameRowsKept DEF Elsewhere
<1>10. Own(w.session, w.user, w.conn)'
  BY <1>3, <1>4, <1>6, OwnKept
<1>11. ASSUME e \in apart' PROVE ConnApart(e)'
  <2>1. ChargeApart(e)'
    BY <1>3, <1>11, LeftApart DEF ApartInv
  <2>2. \A p \in Reqs : req[p].conn = e => p = r
    BY <1>1, <1>2, <1>3, <1>11 DEF ApartInv, ConnApart
  <2>3. CallApart(q)
    BY <1>1, <1>2, <1>3, <1>11, HereApart
  <2>4. q.session \notin exempt => q.session \in ActiveSessions(q.user, e) /\ q.session # charge[e].tid
    BY <1>2, <1>4, <2>3 DEF CallApart, RemoteSteps
  <2>5. CallApart(w)'
    BY <1>3, <1>6, <2>4 DEF CallApart, ActiveSessions, StartSteps, RemoteSteps
  <2>6. QED  BY <1>8, <2>1, <2>2, <2>5 DEF ConnApart
<1>12. \A p \in Reqs : req'[p].conn \in Conns \ {e} => req'[p] = req[p]
  BY <1>6, <1>8
<1>13. \A p \in Reqs : req'[p].pc \in RemoteSteps =>
           \/ req'[p] = req[p]
           \/ req'[p].conn \in Conns /\ Own(req[p].session, req[p].user, req[p].conn)'
  BY <1>4, <1>6, <1>8, <1>10
<1>14. QED  BY <1>3, <1>9, <1>11, <1>12, <1>13, ApartStep

LEMMA RemoteDeletesApart ==
    ASSUME SessionInv, ApartInv, NEW r \in Reqs, RemoteDeletes(r)
    PROVE  ApartInv' /\ Final
<1>1. PICK q : q = req[r]
  OBVIOUS
<1>2. PICK e : e = q.conn
  OBVIOUS
<1>3. PICK s : s = q.session
  OBVIOUS
<1>4. UNCHANGED <<charge, meter, exempt, apart>> /\ Ends(r)
  BY DEF RemoteDeletes
<1>5. q.pc = "remote.delete" /\ e \in Conns /\ Own(s, q.user, e) /\ s \in Sessions
  BY <1>1, <1>2, <1>3 DEF RemoteDeletes, RemoteSteps, ApartInv, RemotesOwn, SessionInv, CallOK
<1>6. CASE ~ Exists(s)
  <2>1. UNCHANGED session /\ Preserves
    BY <1>1, <1>3, <1>4, <1>6, Unwritten DEF RemoteDeletes
  <2>2. Elsewhere(e)
    BY <1>4, <2>1, SameRowsKept DEF Elsewhere
  <2>3. e \in apart => ChargeApart(e)'
    BY <1>4, <2>1, LeftApart DEF ApartInv
  <2>4. QED  BY <1>1, <1>2, <1>4, <2>1, <2>2, <2>3, EndsApart, SameRowsKept
<1>7. CASE Exists(s)
  <2>1. PICK row : row = [NoRow EXCEPT !.status = "DELETED"]
    OBVIOUS
  <2>2. row \in Rows /\ row.status = "DELETED"
    BY <2>1, BoundsAssumption DEF NoRow, Rows, Energies
  <2>3. session' = [session EXCEPT ![s] = row] /\ (s \notin exempt => session[s].conn = e)
    BY <1>1, <1>3, <1>5, <1>7, <2>1 DEF RemoteDeletes, Delete, Own
  <2>4. Preserves
    BY <1>4, <1>5, <1>7, <2>2, <2>3, Rewritten DEF SessionStatuses
  <2>5. \A d \in Conns \ {e} : SameRows(d)
    BY <1>4, <1>5, <2>2, <2>3, RowOfConn DEF SessionStatuses
  <2>6. session'[s] = row /\ \A t \in Sessions \ {s} : session'[t] = session[t]
    BY <1>5, <2>3 DEF SessionInv, TypeOK
  <2>7. e \in apart => /\ ChargeApart(e)
                       /\ s \notin exempt => s \in ActiveSessions(q.user, e) /\ s # charge[e].tid
    BY <1>1, <1>2, <1>3, <1>5, HereApart DEF CallApart, RemoteSteps
  <2>8. Final
    BY <1>4, <2>3, <2>6, <2>7 DEF Final, ActiveSessions
  <2>9. ASSUME e \in apart PROVE ChargeApart(e)'
    <3>1. PICK x : x = charge[e].tid
      OBVIOUS
    <3>2. x \in Sessions \cup {None} /\ (x \notin exempt => x # s)
      BY <1>5, <2>7, <2>9, <3>1 DEF SessionInv, TypeOK, Charges
    <3>3. x \notin exempt => \A v : x \in ActiveSessions(v, e) => x \in ActiveSessions(v, e)'
      BY <2>6, <3>2 DEF ActiveSessions
    <3>4. x \notin exempt \cup {None} /\ Settled(e, x) => Settled(e, x)'
      BY <1>4, <2>6, <3>2 DEF Settled
    <3>5. QED  BY <1>4, <2>7, <2>9, <3>1, <3>3, <3>4 DEF ChargeApart
  <2>10. QED  BY <1>1, <1>2, <1>4, <2>4, <2>5, <2>8, <2>9, EndsApart DEF Elsewhere
<1>8. QED  BY <1>6, <1>7
LEMMA RemoteStartApart ==
    ASSUME SessionInv, ApartInv, NEW r \in Reqs, NEW u \in Users, NEW c \in Conns,
           NEW s \in Sessions, RemoteStart(r, u, c, s)
    PROVE  ApartInv' /\ Final
<1>1. PICK q : q = [Idle EXCEPT !.pc = "remote.send", !.conn = c, !.user = u, !.session = s]
  OBVIOUS
<1>2. q.pc = "remote.send" /\ q.conn = c /\ q.user = u /\ q.session = s
  BY <1>1 DEF Idle
<1>3. Arrives(r, q) /\ Insert(s, NewRow(u, c, "ACTIVE", 0)) /\ UNCHANGED <<charge, meter, exempt>>
  BY <1>1 DEF RemoteStart
<1>4. Preserves /\ Own(s, u, c)'
  BY <1>3, Inserted
<1>5. PICK row : row = NewRow(u, c, "ACTIVE", 0)
  OBVIOUS
<1>6. row.status = "ACTIVE" /\ row.user = u /\ row.conn = c
  BY <1>5 DEF NewRow
<1>7. session[s].status = "NONE" /\ session' = [session EXCEPT ![s] = row]
  BY <1>3, <1>5 DEF Insert
<1>8. session'[s] = row /\ \A t \in Sessions \ {s} : session'[t] = session[t]
  BY <1>7 DEF SessionInv, TypeOK
<1>9. \A d \in Conns \ {c} : SameRows(d)
  BY <1>6, <1>7, RowOfConn DEF Exists, SessionStatuses
<1>10. Final
  BY <1>7, <1>8 DEF Final
<1>11. /\ charge[c] \in Charges /\ charge[c].tid \in Sessions \cup {None}
       /\ charge[c].tid \notin exempt => charge[c].tid # s
  <2>1. charge[c] \in Charges /\ charge[c].tid \in Sessions \cup {None}
    BY DEF SessionInv, TypeOK, Charges
  <2>2. charge[c].tid \notin exempt \cup {None} => session[charge[c].tid].status # "NONE"
    BY DEF SessionInv, ChargeOK, Own
  <2>3. QED  BY <1>7, <2>1, <2>2, NoneAssumption
<1>12. ASSUME c \in apart' PROVE CallApart(q)' /\ ChargeApart(c)'
  <2>1. ChargeApart(c)
    BY <1>3, <1>12, FewerApart DEF ApartInv, ConnApart
  <2>2. CallApart(q)'
    BY <1>2, <1>3, <1>6, <1>8, <1>11 DEF CallApart, ActiveSessions, StartSteps
  <2>3. charge[c].tid \notin exempt =>
            \A v : charge[c].tid \in ActiveSessions(v, c) => charge[c].tid \in ActiveSessions(v, c)'
    BY <1>8, <1>11 DEF ActiveSessions
  <2>4. charge[c].tid \notin exempt \cup {None} /\ Settled(c, charge[c].tid) => Settled(c, charge[c].tid)'
    BY <1>3, <1>8, <1>11 DEF Settled
  <2>5. ChargeApart(c)'
    BY <1>3, <2>1, <2>3, <2>4 DEF ChargeApart
  <2>6. QED  BY <2>2, <2>5
<1>13. Elsewhere(c)
  BY <1>3, <1>9 DEF Elsewhere
<1>14. ApartInv'
  BY <1>2, <1>3, <1>4, <1>12, <1>13, ArrivesApart
<1>15. QED  BY <1>10, <1>14

\* A station sends a call.
LEMMA SentApart ==
    ASSUME SessionInv, ApartInv, NEW r \in Reqs, NEW c \in Conns, NEW pc \in {"start", "meter", "stop"},
           NEW energy, Arrives(r, Call(pc, c, energy)), UNCHANGED <<session, charge, meter, exempt>>,
           pc = "start" => charge[c].phase = "starting",
           pc = "meter" => charge[c].phase = "charging",
           pc = "stop" => charge[c].phase = "stopping" /\ energy = meter[c]
    PROVE  ApartInv' /\ Final
<1>1. PICK q : q = Call(pc, c, energy)
  OBVIOUS
<1>2. q.pc = pc /\ q.conn = c /\ q.user = charge[c].user /\ q.session = charge[c].tid
      /\ q.energy = energy /\ q.n = charge[c].n
  BY <1>1 DEF Call, Idle
<1>3. Preserves /\ Elsewhere(c) /\ Final
  BY Unwritten, SameRowsKept DEF Elsewhere
<1>4. ASSUME c \in apart' PROVE CallApart(q)' /\ ChargeApart(c)'
  <2>1. ChargeApart(c)
    BY <1>1, <1>4, FewerApart DEF ApartInv, ConnApart
  <2>2. pc = "meter" => q.session \in exempt \cup ActiveSessions(q.user, c)
    BY <1>2, <2>1 DEF ChargeApart
  <2>3. CallApart(q)'
    BY <1>2, <2>2 DEF CallApart, ActiveSessions, StartSteps, RemoteSteps
  <2>4. ChargeApart(c)'
    BY <2>1 DEF ChargeApart, ActiveSessions, Settled
  <2>5. QED  BY <2>3, <2>4
<1>5. Arrives(r, q) /\ q.pc \notin RemoteSteps
  BY <1>1, <1>2 DEF RemoteSteps
<1>6. QED  BY <1>2, <1>3, <1>4, <1>5, ArrivesApart

\* What stations do without a call.
LEMMA AloneApart ==
    ASSUME SessionInv, ApartInv, NEW c \in Conns,
           Draw(c) \/ Finish(c) \/ \E u \in Users : PlugIn(c, u)
    PROVE  ApartInv' /\ Final
<1>1. UNCHANGED <<session, req, exempt, apart>>
  BY DEF Draw, Finish, PlugIn
<1>2. charge[c] \in Charges /\ charge[c].tid \in Sessions \cup {None}
  BY DEF SessionInv, TypeOK, Charges
<1>3. /\ \/ /\ charge[c].phase = "charging" /\ charge' = charge
         \/ /\ charge[c].phase = "charging" /\ charge'[c].phase = "stopping" /\ meter' = meter
            /\ charge'[c].tid = charge[c].tid /\ charge'[c].user = charge[c].user
            /\ charge'[c].n = charge[c].n
         \/ charge[c].phase = "free" /\ charge'[c].phase = "starting" /\ charge'[c].tid = None
      /\ \A d \in Conns \ {c} : charge'[d] = charge[d] /\ meter'[d] = meter[d]
      /\ \A d \in Conns : meter'[d] >= meter[d]
  <2>1. \A d \in Conns : meter[d] \in Nat
    BY MetersAreNat DEF SessionInv
  <2>2. CASE Draw(c)
    BY <2>1, <2>2 DEF Draw, SessionInv, TypeOK
  <2>3. CASE Finish(c)
    <3>1. PICK g : g = [charge[c] EXCEPT !.phase = "stopping"]
      OBVIOUS
    <3>2. g.phase = "stopping" /\ g.tid = charge[c].tid /\ g.user = charge[c].user /\ g.n = charge[c].n
      BY <1>2, <3>1 DEF Charges
    <3>3. charge'[c] = g /\ \A d \in Conns \ {c} : charge'[d] = charge[d]
      BY <2>3, <3>1 DEF Finish, SessionInv, TypeOK
    <3>4. charge[c].phase = "charging" /\ meter' = meter
      BY <2>3 DEF Finish
    <3>5. QED  BY <2>1, <3>2, <3>3, <3>4
  <2>4. ASSUME NEW u \in Users, PlugIn(c, u)
        PROVE  /\ charge[c].phase = "free" /\ charge'[c].phase = "starting" /\ charge'[c].tid = None
               /\ meter' = meter /\ \A d \in Conns \ {c} : charge'[d] = charge[d]
    <3>1. PICK g : g = [phase |-> "starting", user |-> u, tid |-> None, n |-> charge[c].n + 1]
      OBVIOUS
    <3>2. charge' = [charge EXCEPT ![c] = g]
      BY <2>4, <3>1 DEF PlugIn
    <3>3. QED  BY <2>4, <3>1, <3>2 DEF PlugIn, SessionInv, TypeOK
  <2>5. QED  BY <2>1, <2>2, <2>3, <2>4
<1>4. Preserves /\ Elsewhere(c) /\ Final
  BY <1>1, <1>3, SameRowsKept DEF Preserves, Elsewhere, SessionInv, TypeOK, Rows
<1>5. ASSUME c \in apart PROVE ConnApart(c)'
  <2>1. ChargeApart(c) /\ \A v : ActiveSessions(v, c)' = ActiveSessions(v, c)
    BY <1>1, <1>5 DEF ApartInv, ConnApart, ActiveSessions
  <2>2. ChargeApart(c)'
    BY <1>1, <1>3, <2>1 DEF ChargeApart
  <2>3. ASSUME NEW p \in Reqs, req[p].conn = c PROVE CallApart(req[p])'
    <3>1. PICK q : q = req[p]
      OBVIOUS
    <3>2. CallApart(q) /\ q.conn = c /\ q.session \in Sessions \cup {None}
      BY <1>5, <2>3, <3>1, HereApart DEF SessionInv, TypeOK, Calls
    <3>3. q.pc \in StartSteps => charge[c].phase = "starting"
      BY <3>2 DEF CallApart
    <3>4. q.pc = "stop" => charge[c].phase = "stopping"
      BY <3>2 DEF CallApart
    <3>5. q.pc \notin StartSteps \cup {"stop"}
      BY <1>3, <3>3, <3>4
    <3>6. q.pc \in RemoteSteps => q.session # None
      BY <3>1, NoneAssumption DEF SessionInv, CallOK
    <3>7. CallApart(q)'
      BY <1>1, <1>3, <2>1, <3>2, <3>5, <3>6, NoneAssumption DEF CallApart, StartSteps, RemoteSteps
    <3>8. QED  BY <1>1, <3>1, <3>7
  <2>4. \A p, k \in Reqs : req[p].conn = c /\ req[k].conn = c => p = k
    BY <1>5 DEF ApartInv, ConnApart
  <2>5. QED  BY <1>1, <2>2, <2>3, <2>4 DEF ConnApart
<1>6. \A p \in Reqs : req'[p] = req[p]
  BY <1>1
<1>7. QED  BY <1>1, <1>4, <1>5, <1>6, ApartStep

LEMMA CrashApart == ASSUME SessionInv, ApartInv, Crash PROVE ApartInv' /\ Final
<1>1. UNCHANGED <<session, charge, meter, exempt, apart>> /\ Preserves
  BY Unwritten DEF Crash
<1>2. \A r \in Reqs : req'[r] = Idle
  BY DEF Crash
<1>3. Idle.conn = None /\ Idle.pc \notin RemoteSteps /\ apart \subseteq Conns
  BY DEF Idle, RemoteSteps, SessionInv, TypeOK
<1>4. ASSUME NEW d \in apart PROVE ConnApart(d)'
  <2>1. ChargeApart(d)'
    BY <1>1, LeftApart DEF ApartInv
  <2>2. \A r \in Reqs : req'[r].conn # d
    BY <1>2, <1>3, NoneAssumption
  <2>3. QED  BY <2>1, <2>2 DEF ConnApart
<1>5. RemotesOwn'
  BY <1>2, <1>3 DEF RemotesOwn
<1>6. QED  BY <1>1, <1>4, <1>5, SameRowsKept DEF ApartInv

\* Steps that touch no call and, but for sessions that are exempt, no row.
LEMMA QuietApart ==
    ASSUME SessionInv, ApartInv, Preserves, UNCHANGED <<charge, meter, req, apart>>,
           \A s \in Sessions \ exempt' : session'[s] = session[s]
    PROVE  ApartInv' /\ Final
<1>1. \A d : SameRows(d)
  BY DEF SameRows
<1>2. ASSUME NEW d \in apart PROVE ConnApart(d)'
  BY <1>1, ConnKept DEF SessionInv, TypeOK, ApartInv, Preserves
<1>3. ASSUME NEW r \in Reqs, req[r].pc \in RemoteSteps
      PROVE  req[r].conn \in Conns /\ Own(req[r].session, req[r].user, req[r].conn)'
  <2>1. PICK q : q = req[r]
    OBVIOUS
  <2>2. q.conn \in Conns /\ q.session \in Sessions /\ Own(q.session, q.user, q.conn)
    BY <1>3, <2>1 DEF ApartInv, RemotesOwn, SessionInv, CallOK
  <2>3. Own(q.session, q.user, q.conn)'
    BY <2>2, OwnKept
  <2>4. QED  BY <2>1, <2>2, <2>3
<1>4. RemotesOwn'
  BY <1>3 DEF RemotesOwn
<1>5. QED  BY <1>2, <1>4 DEF ApartInv, Final

\* The calls of administrators.
LEMMA ByHandApart ==
    ASSUME SessionInv, ApartInv,
           \/ \E s \in Sessions : AdminRemove(s)
           \/ \E s \in Sessions, u \in Users, c \in Conns, status \in SessionStatuses,
                 energy \in Energies : CreateByHand(s, u, c, status, energy)
    PROVE  ApartInv' /\ Final
<1>1. PICK s \in Sessions :
          /\ ByHand(s) /\ UNCHANGED <<charge, meter, req, apart>>
          /\ \A x \in Sessions \ {s} : session'[x] = session[x]
          /\ session'[s].status # "NONE"
  <2>1. ASSUME NEW s \in Sessions, AdminRemove(s)
        PROVE  /\ ByHand(s) /\ UNCHANGED <<charge, meter, req, apart>>
               /\ \A x \in Sessions \ {s} : session'[x] = session[x]
               /\ session'[s].status # "NONE"
    <3>1. PICK row : row = [NoRow EXCEPT !.status = "DELETED"]
      OBVIOUS
    <3>2. row.status = "DELETED" /\ session' = [session EXCEPT ![s] = row]
      BY <2>1, <3>1 DEF NoRow, AdminRemove, Delete
    <3>3. session'[s] = row /\ \A x \in Sessions \ {s} : session'[x] = session[x]
      BY <3>2 DEF SessionInv, TypeOK
    <3>4. QED  BY <2>1, <3>2, <3>3 DEF AdminRemove, Edits
  <2>2. ASSUME NEW s \in Sessions, NEW u \in Users, NEW c \in Conns, NEW status \in SessionStatuses,
               NEW energy \in Energies, CreateByHand(s, u, c, status, energy)
        PROVE  /\ ByHand(s) /\ UNCHANGED <<charge, meter, req, apart>>
               /\ \A x \in Sessions \ {s} : session'[x] = session[x]
               /\ session'[s].status # "NONE"
    <3>1. PICK row : row = NewRow(u, c, status, energy)
      OBVIOUS
    <3>2. row.status = status /\ session' = [session EXCEPT ![s] = row]
      BY <2>2, <3>1 DEF NewRow, CreateByHand, Insert
    <3>3. session'[s] = row /\ \A x \in Sessions \ {s} : session'[x] = session[x]
      BY <3>2 DEF SessionInv, TypeOK
    <3>4. QED  BY <2>2, <3>2, <3>3 DEF CreateByHand, Edits, SessionStatuses
  <2>3. QED  BY <2>1, <2>2
<1>2. exempt \subseteq exempt' /\ s \in exempt'
  BY <1>1, ByHandExempts
<1>3. Preserves
  BY <1>1, <1>2, MetersAreNat DEF Preserves, SessionInv
<1>4. QED  BY <1>1, <1>2, <1>3, QuietApart

LEMMA EditApart ==
    ASSUME SessionInv, ApartInv, NEW r \in Reqs,
           \/ AdminFails(r)
           \/ \E c \in Conns, status \in SessionStatuses, energy \in Energies :
                  AdminWrites(r, c, status, energy)
    PROVE  ApartInv' /\ Final
<1>1. PICK e : e = req[r].conn
  OBVIOUS
<1>2. /\ UNCHANGED <<charge, meter, apart>> /\ Ends(r) /\ exempt \subseteq exempt'
      /\ \A x \in Sessions \ exempt' : session'[x] = session[x]
  <2>1. CASE AdminFails(r)
    BY <2>1 DEF AdminFails
  <2>2. ASSUME NEW c \in Conns, NEW status \in SessionStatuses, NEW energy \in Energies,
               AdminWrites(r, c, status, energy)
        PROVE  /\ UNCHANGED <<charge, meter, apart>> /\ Ends(r) /\ exempt \subseteq exempt'
               /\ \A x \in Sessions \ exempt' : session'[x] = session[x]
    BY <2>2 DEF AdminWrites, ByHand, SessionInv, TypeOK
  <2>3. QED  BY <2>1, <2>2
<1>3. (\A d : SameRows(d)) /\ Final
  BY <1>2 DEF SameRows, Final
<1>4. Elsewhere(e) /\ Preserves
  BY <1>2, <1>3, MetersAreNat DEF Elsewhere, Preserves, SessionInv
<1>5. e \in apart => ChargeApart(e)'
  BY <1>1, <1>2, <1>3, HereApart, ChargeApartKept
<1>6. QED  BY <1>1, <1>2, <1>3, <1>4, <1>5, EndsApart

LEMMA EditArrivesApart ==
    ASSUME SessionInv, ApartInv, NEW r \in Reqs, NEW s \in Sessions, AdminReads(r, s)
    PROVE  ApartInv' /\ Final
<1>1. PICK q : q = [Idle EXCEPT !.pc = "edit", !.conn = session[s].conn, !.session = s,
                                !.seen = session[s].status]
  OBVIOUS
<1>2. PICK e \in Conns : e = session[s].conn
  BY DEF AdminReads, SessionInv, RowOK
<1>3. q.pc = "edit" /\ q.conn = e
  BY <1>1, <1>2 DEF Idle
<1>4. Arrives(r, q) /\ UNCHANGED <<session, charge, meter, exempt>>
  BY <1>1 DEF AdminReads, Edits
<1>5. Preserves /\ Elsewhere(e) /\ Final
  BY <1>4, Unwritten, SameRowsKept DEF Elsewhere
<1>6. e \in apart' => CallApart(q)' /\ ChargeApart(e)'
  BY <1>3, <1>4, FewerApart, LeftApart DEF ApartInv, CallApart, StartSteps, RemoteSteps
<1>7. QED  BY <1>3, <1>4, <1>5, <1>6, ArrivesApart DEF RemoteSteps

LEMMA InitApart == Init => ApartInv
<1> SUFFICES ASSUME Init PROVE ApartInv
  OBVIOUS
<1>1. Idle.conn = None /\ Idle.pc \notin RemoteSteps /\ NoCharge.phase = "free"
  BY DEF Idle, RemoteSteps, NoCharge
<1>2. QED  BY <1>1, NoneAssumption DEF Init, ApartInv, RemotesOwn, ConnApart, ChargeApart
LEMMA ApartKept ==
    ASSUME SessionInv, ApartInv, [Next]_vars
    PROVE  ApartInv' /\ Final
<1>1. ASSUME NEW r \in Reqs, HandlerStep(r) PROVE ApartInv' /\ Final
  <2>1. CASE \/ AdminFails(r)
             \/ \E c \in Conns, status \in SessionStatuses, energy \in Energies :
                    AdminWrites(r, c, status, energy)
    BY <2>1, EditApart
  <2>2. CASE StartFindsNone(r) \/ \E s \in Sessions : StartFinds(r, s)
    BY <2>2, StartLooksApart
  <2>3. CASE \E s \in Sessions : StartCreates(r, s)
    BY <2>3, CreateApart
  <2>4. CASE StartReuses(r)
    BY <2>4, ReuseApart
  <2>5. CASE StartRejects(r)
    BY <2>5, RejectedApart DEF StartRejects, StartSteps
  <2>6. CASE MeterWrites(r)
    BY <2>6, MeterApart
  <2>7. CASE StopWrites(r)
    BY <2>7, StopApart
  <2>8. CASE RemoteSent(r) \/ RemoteRefused(r) \/ RemoteDeletes(r)
    BY <2>8, RemoteSentApart, RemoteRefusedApart, RemoteDeletesApart
  <2>9. QED  BY <1>1, <2>1, <2>2, <2>3, <2>4, <2>5, <2>6, <2>7, <2>8 DEF HandlerStep
<1>2. ASSUME NEW c \in Conns, StationStep(c) PROVE ApartInv' /\ Final
  <2>1. ASSUME NEW r \in Reqs, SendStart(r, c) PROVE ApartInv' /\ Final
    BY <2>1, SentApart DEF SendStart
  <2>2. ASSUME NEW r \in Reqs, SendMeter(r, c) PROVE ApartInv' /\ Final
    BY <2>2, SentApart DEF SendMeter
  <2>3. ASSUME NEW r \in Reqs, SendStop(r, c) PROVE ApartInv' /\ Final
    BY <2>3, SentApart DEF SendStop
  <2>4. CASE Draw(c) \/ Finish(c) \/ \E u \in Users : PlugIn(c, u)
    BY <2>4, AloneApart
  <2>5. QED  BY <1>2, <2>1, <2>2, <2>3, <2>4 DEF StationStep
<1>3. ASSUME NEW r \in Reqs, Fails(r) PROVE ApartInv' /\ Final
  BY <1>3, FailsApart
<1>4. ASSUME NEW r \in Reqs, NEW u \in Users, NEW c \in Conns, NEW s \in Sessions,
             RemoteStart(r, u, c, s)
      PROVE  ApartInv' /\ Final
  BY <1>4, RemoteStartApart
<1>5. CASE \/ \E s \in Sessions : AdminRemove(s)
           \/ \E s \in Sessions, u \in Users, c \in Conns, status \in SessionStatuses,
                 energy \in Energies : CreateByHand(s, u, c, status, energy)
  BY <1>5, ByHandApart
<1>6. ASSUME NEW r \in Reqs, NEW s \in Sessions, AdminReads(r, s) PROVE ApartInv' /\ Final
  BY <1>6, EditArrivesApart
<1>7. CASE Crash
  BY <1>7, CrashApart
<1>8. CASE UNCHANGED vars
  BY <1>8, Unwritten, QuietApart DEF vars
<1>9. QED  BY <1>1, <1>2, <1>3, <1>4, <1>5, <1>6, <1>7, <1>8 DEF Next

LEMMA ApartInvariant == Spec => []ApartInv
<1>1. SessionInv /\ ApartInv /\ [Next]_vars => ApartInv'
  BY ApartKept
<1>2. QED  BY <1>1, SessionInvariant, InitApart, PTL DEF Spec

\* As long as the calls about a connector never overlapped, whatever was lost,
\* failed or crashed, an accepted charge has an active session of its own.
THEOREM ChargesHaveSessions == Spec => []ChargeHasSession
<1>1. ApartInv => ChargeHasSession
  BY DEF ApartInv, ConnApart, ChargeApart, ChargeHasSession, Charging
<1>2. QED  BY <1>1, ApartInvariant, PTL

\* Then a completed session is never written again with anything new: a stop
\* that is repeated finds it as the first stop left it.
THEOREM StoppedIsSettled == Spec => FinishedIsFinal
<1>1. SessionInv /\ ApartInv /\ [Next]_vars =>
        [\A s \in Sessions \ exempt' :
             session[s].status = "COMPLETED" /\ session[s].conn \in apart =>
                 session'[s] = session[s]]_vars
  BY ApartKept DEF Final
<1>2. QED  BY <1>1, SessionInvariant, ApartInvariant, PTL DEF Spec, FinishedIsFinal

\* Then a session is made only if the user has none active on the connector.
THEOREM OneSessionPerCharge == Spec => ReusesSession
<1>1. SessionInv /\ ApartInv /\ [Next]_vars =>
        [\A r \in Reqs, s \in Sessions :
             StartCreates(r, s) /\ req[r].conn \in apart =>
                 ActiveSessions(req[r].user, req[r].conn) \subseteq exempt]_vars
  BY HereApart DEF StartCreates, CallApart
<1>2. QED  BY <1>1, SessionInvariant, ApartInvariant, PTL DEF Spec, ReusesSession
-----------------------------------------------------------------------------
(* What holds of exempt sessions, too: a deleted session stays deleted,    *)
(* and an edit tells of the end only if it makes the end.                  *)

RowFields == {"status", "user", "conn", "energy"}
CallFields == {"pc", "conn", "user", "session", "energy", "n", "seen"}

Tables ==
    /\ DOMAIN session = Sessions /\ DOMAIN told = Sessions /\ DOMAIN req = Reqs
    /\ \A s \in Sessions : DOMAIN session[s] = RowFields
    /\ \A r \in Reqs : DOMAIN req[r] = CallFields

\* An edit in hand has its session, and as long as no stop and no other edit
\* of that session overlaps it, the status is what it has read.
EditsOK ==
    \A r \in Reqs :
        LET q == req[r] IN
        q.pc = "edit" =>
            /\ q.session \in Sessions /\ session[q.session].status # "NONE"
            /\ q.conn \in apart =>
                   /\ \A k \in Reqs \ {r} : req[k].session = q.session => req[k].pc \notin {"stop", "edit"}
                   /\ Exists(q.session) => session[q.session].status = q.seen

\* A stop or an edit in hand ends or is not touched, and none comes in.
CallsGoOn ==
    \A r \in Reqs :
        \/ req'[r] \in {Idle, req[r]}
        \/ req[r].pc \notin {"stop", "edit"} /\ req'[r].pc \notin {"stop", "edit"}

\* What a step may do to a row: insert it, or write it while it exists, and
\* then only a stop or an edit may give it another status.
RowStep(s) ==
    \/ session'[s] = session[s]
    \/ session[s].status = "NONE" /\ session'[s].status # "NONE"
    \/ /\ Exists(s) /\ session'[s].status # "NONE"
       /\ \/ session'[s].status \in {session[s].status, "DELETED"}
          \/ \E k \in Reqs : /\ req[k].session = s /\ req[k].pc \in {"stop", "edit"}
                             /\ req'[k] = Idle

LEMMA FieldsOfRows ==
    \A u, c, status, energy : /\ DOMAIN NewRow(u, c, status, energy) = RowFields
                              /\ NewRow(u, c, status, energy).status = status
BY DEF NewRow, RowFields

LEMMA FieldsOfRow ==
    ASSUME NEW row, DOMAIN row = RowFields, NEW energy
    PROVE  /\ DOMAIN Metered(row, energy) = RowFields /\ Metered(row, energy).status = row.status
           /\ DOMAIN Stopped(row, energy) = RowFields /\ Stopped(row, energy).status = "COMPLETED"
BY DEF Metered, Stopped, RowFields

LEMMA FieldsOfIdle == DOMAIN Idle = CallFields /\ Idle.pc = "idle"
BY DEF Idle, CallFields

LEMMA TablesStart == Init => Tables /\ EditsOK
<1>1. DOMAIN NoRow = RowFields
  BY DEF NoRow, RowFields
<1>2. QED  BY <1>1, FieldsOfIdle DEF Init, Tables, EditsOK
\* Steps that no call arrives with keep the edits in hand.
LEMMA EditsGoOn ==
    ASSUME EditsOK, UNCHANGED apart, CallsGoOn, \A s \in Sessions : RowStep(s)
    PROVE  EditsOK'
<1> SUFFICES ASSUME NEW r \in Reqs, req'[r].pc = "edit"
             PROVE  /\ req'[r].session \in Sessions /\ session'[req'[r].session].status # "NONE"
                    /\ req'[r].conn \in apart =>
                         /\ \A k \in Reqs \ {r} : req'[k].session = req'[r].session =>
                                                     req'[k].pc \notin {"stop", "edit"}
                         /\ Exists(req[r].session)' =>
                                session'[req'[r].session].status = req'[r].seen
  BY DEF EditsOK
<1>1. PICK q : q = req[r]
  OBVIOUS
<1>2. PICK s : s = q.session
  OBVIOUS
<1>3. req'[r] = q
  BY <1>1, FieldsOfIdle DEF CallsGoOn
<1>4. s \in Sessions /\ session[s].status # "NONE"
  BY <1>1, <1>2, <1>3 DEF EditsOK
<1>5. session'[s].status # "NONE"
  BY <1>4 DEF RowStep
<1>6. ASSUME q.conn \in apart, NEW k \in Reqs \ {r}, req'[k].session = s
      PROVE  req'[k].pc \notin {"stop", "edit"}
  <2>1. req[k].session = s => req[k].pc \notin {"stop", "edit"}
    BY <1>1, <1>2, <1>3, <1>6 DEF EditsOK
  <2>2. QED  BY <1>6, <2>1, FieldsOfIdle DEF CallsGoOn
<1>7. ASSUME q.conn \in apart, session'[s].status \in SessionStatuses
      PROVE  session'[s].status = q.seen
  <2>1. session[s].status \in SessionStatuses => session[s].status = q.seen
    BY <1>1, <1>2, <1>3, <1>7 DEF EditsOK, Exists
  <2>2. ASSUME NEW k \in Reqs, req[k].session = s, req[k].pc \in {"stop", "edit"}, req'[k] = Idle
        PROVE  FALSE
    <3>1. k # r
      BY <1>1, <1>3, <2>2, FieldsOfIdle
    <3>2. QED  BY <1>1, <1>2, <1>3, <1>7, <2>2, <3>1 DEF EditsOK
  <2>3. session'[s].status = session[s].status
    BY <1>4, <1>7, <2>2 DEF RowStep, SessionStatuses
  <2>4. QED  BY <1>7, <2>1, <2>3
<1>8. QED  BY <1>2, <1>3, <1>4, <1>5, <1>6, <1>7 DEF Exists

\* A call arrives.
LEMMA EditsArrive ==
    ASSUME Tables, EditsOK, NEW r \in Reqs, NEW q, Arrives(r, q),
           \A s \in Sessions : \/ session'[s] = session[s]
                               \/ session[s].status = "NONE" /\ session'[s].status # "NONE",
           q.pc = "edit" => /\ q.session \in Sessions /\ Exists(q.session)
                            /\ session[q.session].status = q.seen
    PROVE  EditsOK'
<1>1. req'[r] = q /\ \A p \in Reqs \ {r} : req'[p] = req[p]
  BY DEF Arrives, Tables
<1>2. apart' \subseteq apart
  BY FewerApart
<1>3. ASSUME NEW p \in Reqs, NEW c, c = req'[p], c.pc = "edit", NEW s, s = c.session
      PROVE  /\ s \in Sessions /\ session'[s].status # "NONE"
             /\ c.conn \in apart' =>
                  /\ \A k \in Reqs \ {p} : req'[k].session = s => req'[k].pc \notin {"stop", "edit"}
                  /\ session'[s].status \in SessionStatuses => session'[s].status = c.seen
  <2>1. CASE p = r
    <3>1. c = q /\ s \in Sessions /\ session[s].status \in SessionStatuses /\ session[s].status = c.seen
      BY <1>1, <1>3, <2>1 DEF Exists
    <3>2. session'[s] = session[s] /\ session[s].status # "NONE"
      BY <3>1 DEF SessionStatuses
    <3>3. ASSUME c.conn \in apart', NEW k \in Reqs \ {p}, req'[k].session = s PROVE FALSE
      <4>1. InHand(q) = {}
        BY <3>1, <3>3 DEF Arrives
      <4>2. req[k].session = q.session /\ q.session # None
        BY <1>1, <1>3, <2>1, <3>1, <3>3, NoneAssumption
      <4>3. QED  BY <3>3, <4>1, <4>2 DEF InHand
    <3>4. QED  BY <3>1, <3>2, <3>3
  <2>2. CASE p # r
    <3>1. c = req[p]
      BY <1>1, <1>3, <2>2
    <3>2. s \in Sessions /\ session[s].status # "NONE"
      BY <1>3, <3>1 DEF EditsOK
    <3>3. session'[s] = session[s]
      BY <3>2
    <3>4. ASSUME c.conn \in apart', NEW k \in Reqs \ {p}, req'[k].session = s
          PROVE  req'[k].pc \notin {"stop", "edit"}
      <4>1. CASE k = r
        <5>1. q.session = s /\ s # None
          BY <1>1, <3>2, <3>4, <4>1, NoneAssumption
        <5>2. p \in InHand(q)
          BY <1>3, <3>1, <5>1 DEF InHand
        <5>3. c.conn \notin apart'
          BY <3>1, <5>2 DEF Arrives
        <5>4. QED  BY <3>4, <5>3
      <4>2. CASE k # r
        BY <1>1, <1>2, <1>3, <3>1, <3>4, <4>2 DEF EditsOK
      <4>3. QED  BY <4>1, <4>2
    <3>5. c.conn \in apart' /\ session[s].status \in SessionStatuses => session[s].status = c.seen
      BY <1>2, <1>3, <3>1 DEF EditsOK, Exists
    <3>6. QED  BY <3>2, <3>3, <3>4, <3>5
  <2>3. QED  BY <2>1, <2>2
<1>4. QED  BY <1>3 DEF EditsOK, Exists
\* Which steps write what.
LEMMA CallEnded ==
    ASSUME Tables, NEW r \in Reqs, Ends(r)
    PROVE  /\ DOMAIN req' = Reqs /\ \A p \in Reqs : DOMAIN req'[p] = CallFields
           /\ req'[r] = Idle /\ CallsGoOn
<1>1. req'[r] = Idle /\ DOMAIN req' = Reqs /\ \A p \in Reqs \ {r} : req'[p] = req[p]
  BY DEF Ends, Tables
<1>2. QED  BY <1>1, FieldsOfIdle DEF Tables, CallsGoOn

LEMMA CallMoved ==
    ASSUME Tables, NEW r \in Reqs, NEW q, req' = [req EXCEPT ![r] = q], DOMAIN q = CallFields,
           req[r].pc \notin {"stop", "edit"}, q.pc \notin {"stop", "edit"}
    PROVE  /\ DOMAIN req' = Reqs /\ \A p \in Reqs : DOMAIN req'[p] = CallFields
           /\ CallsGoOn
<1>1. req'[r] = q /\ DOMAIN req' = Reqs /\ \A p \in Reqs \ {r} : req'[p] = req[p]
  BY DEF Tables
<1>2. QED  BY <1>1 DEF Tables, CallsGoOn

LEMMA RowWritten ==
    ASSUME Tables, NEW s, NEW row, session' = [session EXCEPT ![s] = row],
           s \in Sessions => DOMAIN row = RowFields
    PROVE  /\ DOMAIN session' = Sessions /\ \A t \in Sessions : DOMAIN session'[t] = RowFields
           /\ s \in Sessions => session'[s] = row
           /\ \A t \in Sessions \ {s} : session'[t] = session[t]
<1>1. DOMAIN session' = Sessions /\ \A t \in Sessions \ {s} : session'[t] = session[t]
  BY DEF Tables
<1>2. s \in Sessions => session'[s] = row
  BY DEF Tables
<1>3. QED  BY <1>1, <1>2 DEF Tables

LEMMA RowInserted ==
    ASSUME Tables, NEW s \in Sessions, NEW u, NEW c, NEW status \in SessionStatuses, NEW energy,
           Insert(s, NewRow(u, c, status, energy))
    PROVE  /\ DOMAIN session' = Sessions /\ \A t \in Sessions : DOMAIN session'[t] = RowFields
           /\ \A t \in Sessions : \/ session'[t] = session[t]
                                  \/ session[t].status = "NONE" /\ session'[t].status # "NONE"
<1>1. PICK row : row = NewRow(u, c, status, energy)
  OBVIOUS
<1>2. DOMAIN row = RowFields /\ row.status = status
  BY <1>1, FieldsOfRows
<1>3. session[s].status = "NONE" /\ session' = [session EXCEPT ![s] = row]
  BY <1>1 DEF Insert
<1>4. QED  BY <1>2, <1>3, RowWritten DEF SessionStatuses

LEMMA RowDeleted ==
    ASSUME Tables, NEW s, Exists(s), Delete(s)
    PROVE  /\ DOMAIN session' = Sessions /\ \A t \in Sessions : DOMAIN session'[t] = RowFields
           /\ \A t \in Sessions : RowStep(t)
<1>1. PICK row : row = [NoRow EXCEPT !.status = "DELETED"]
  OBVIOUS
<1>2. DOMAIN row = RowFields /\ row.status = "DELETED"
  BY <1>1 DEF NoRow, RowFields
<1>3. session' = [session EXCEPT ![s] = row]
  BY <1>1 DEF Delete
<1>4. QED  BY <1>2, <1>3, RowWritten DEF RowStep

\* What a step of the server does that no call arrives with.
Quiet ==
    /\ DOMAIN session' = Sessions /\ \A t \in Sessions : DOMAIN session'[t] = RowFields
    /\ DOMAIN req' = Reqs /\ \A p \in Reqs : DOMAIN req'[p] = CallFields
    /\ CallsGoOn /\ \A t \in Sessions : RowStep(t)

LEMMA StartQuiet ==
    ASSUME Tables, NEW r \in Reqs,
           \/ \E s \in Sessions : StartFinds(r, s) \/ StartCreates(r, s)
           \/ StartFindsNone(r) \/ StartReuses(r) \/ StartRejects(r)
    PROVE  Quiet /\ UNCHANGED <<told, apart>>
<1>1. DOMAIN req[r] = CallFields
  BY DEF Tables
<1>2. ASSUME NEW s \in Sessions, StartFinds(r, s) PROVE Quiet /\ UNCHANGED <<told, apart>>
  <2>1. PICK q : q = [req[r] EXCEPT !.pc = "start.reuse", !.session = s]
    OBVIOUS
  <2>2. DOMAIN q = CallFields /\ q.pc = "start.reuse"
    BY <1>1, <2>1 DEF CallFields
  <2>3. req' = [req EXCEPT ![r] = q]
    BY <1>2, <2>1 DEF StartFinds, Tables
  <2>4. QED  BY <1>2, <2>2, <2>3, CallMoved DEF StartFinds, Quiet, RowStep, Tables
<1>3. CASE StartFindsNone(r)
  <2>1. PICK q : q = [req[r] EXCEPT !.pc = "start.create"]
    OBVIOUS
  <2>2. DOMAIN q = CallFields /\ q.pc = "start.create"
    BY <1>1, <2>1 DEF CallFields
  <2>3. req' = [req EXCEPT ![r] = q]
    BY <1>3, <2>1 DEF StartFindsNone, Continues
  <2>4. QED  BY <1>3, <2>2, <2>3, CallMoved DEF StartFindsNone, Quiet, RowStep, Tables
<1>4. ASSUME NEW s \in Sessions, StartCreates(r, s) PROVE Quiet /\ UNCHANGED <<told, apart>>
  <2>1. "ACTIVE" \in SessionStatuses
    BY DEF SessionStatuses
  <2>2. QED  BY <1>4, <2>1, RowInserted, CallEnded DEF StartCreates, Quiet, RowStep
<1>5. CASE StartReuses(r)
  BY <1>5, CallEnded DEF StartReuses, Quiet, RowStep, Tables
<1>6. CASE StartRejects(r)
  BY <1>6, CallEnded DEF StartRejects, Quiet, RowStep, Tables
<1>7. QED  BY <1>2, <1>3, <1>4, <1>5, <1>6

LEMMA WritesQuiet ==
    ASSUME Tables, NEW r \in Reqs, MeterWrites(r) \/ StopWrites(r)
    PROVE  Quiet /\ UNCHANGED <<told, apart>>
<1>1. PICK s : s = req[r].session
  OBVIOUS
<1>2. PICK energy : energy = req[r].energy
  OBVIOUS
<1>3. Ends(r) /\ UNCHANGED <<told, apart>>
  BY DEF MeterWrites, StopWrites
<1>4. CASE UNCHANGED session
  BY <1>3, <1>4, CallEnded DEF Quiet, RowStep, Tables
<1>5. CASE Exists(s) /\ session' = [session EXCEPT ![s] = Metered(@, energy)]
  <2>1. PICK row : row = Metered(session[s], energy)
    OBVIOUS
  <2>2. s \in Sessions => DOMAIN row = RowFields /\ row.status = session[s].status
    BY <2>1, FieldsOfRow DEF Tables
  <2>3. session' = [session EXCEPT ![s] = row]
    BY <1>5, <2>1
  <2>4. QED  BY <1>3, <1>5, <2>2, <2>3, RowWritten, CallEnded DEF Quiet, RowStep, Exists, SessionStatuses
<1>6. CASE req[r].pc = "stop" /\ Exists(s) /\ session' = [session EXCEPT ![s] = Stopped(@, energy)]
  <2>1. PICK row : row = Stopped(session[s], energy)
    OBVIOUS
  <2>2. s \in Sessions => DOMAIN row = RowFields /\ row.status = "COMPLETED"
    BY <2>1, FieldsOfRow DEF Tables
  <2>3. session' = [session EXCEPT ![s] = row]
    BY <1>6, <2>1
  <2>4. req'[r] = Idle /\ req[r].session = s /\ req[r].pc \in {"stop", "edit"}
    BY <1>1, <1>3, <1>6, CallEnded
  <2>5. \A t \in Sessions : RowStep(t)
    <3>1. \A t \in Sessions \ {s} : session'[t] = session[t]
      BY <2>2, <2>3, RowWritten
    <3>2. s \in Sessions => session'[s].status = "COMPLETED"
      BY <2>2, <2>3, RowWritten
    <3>3. s \in Sessions => RowStep(s)
      BY <1>6, <2>4, <3>2 DEF RowStep
    <3>4. QED  BY <3>1, <3>3 DEF RowStep
  <2>6. QED  BY <1>3, <2>2, <2>3, <2>5, RowWritten, CallEnded DEF Quiet
<1>7. QED  BY <1>1, <1>2, <1>4, <1>5, <1>6 DEF MeterWrites, StopWrites
LEMMA OthersQuiet ==
    ASSUME Tables, NEW r \in Reqs,
           Fails(r) \/ RemoteSent(r) \/ RemoteRefused(r) \/ RemoteDeletes(r) \/ AdminFails(r)
    PROVE  Quiet /\ UNCHANGED <<told, apart>>
<1>1. CASE Fails(r)
  BY <1>1, CallEnded DEF Fails, Quiet, RowStep, Tables
<1>2. CASE RemoteSent(r)
  BY <1>2, CallEnded DEF RemoteSent, Quiet, RowStep, Tables
<1>3. CASE AdminFails(r)
  BY <1>3, CallEnded DEF AdminFails, Quiet, RowStep, Tables
<1>4. CASE RemoteRefused(r)
  <2>1. PICK q : q = [req[r] EXCEPT !.pc = "remote.delete"]
    OBVIOUS
  <2>2. DOMAIN q = CallFields /\ q.pc = "remote.delete"
    BY <2>1 DEF CallFields, Tables
  <2>3. req' = [req EXCEPT ![r] = q]
    BY <1>4, <2>1 DEF RemoteRefused, Continues
  <2>4. QED  BY <1>4, <2>2, <2>3, CallMoved DEF RemoteRefused, Quiet, RowStep, Tables
<1>5. CASE RemoteDeletes(r)
  <2>1. CASE UNCHANGED session
    BY <1>5, <2>1, CallEnded DEF RemoteDeletes, Quiet, RowStep, Tables
  <2>2. CASE Exists(req[r].session) /\ Delete(req[r].session)
    BY <1>5, <2>2, RowDeleted, CallEnded DEF RemoteDeletes, Quiet
  <2>3. QED  BY <1>5, <2>1, <2>2 DEF RemoteDeletes
<1>6. QED  BY <1>1, <1>2, <1>3, <1>4, <1>5

\* An edit writes its session, and tells the user if it has found another
\* status than COMPLETED and leaves COMPLETED.
LEMMA EditWrites ==
    ASSUME Tables, NEW r \in Reqs, NEW c \in Conns, NEW status \in SessionStatuses,
           NEW energy \in Energies, AdminWrites(r, c, status, energy)
    PROVE  /\ Quiet /\ UNCHANGED apart /\ DOMAIN told' = Sessions
           /\ \A t \in Sessions :
                  told'[t] # told[t] =>
                      /\ req[r].pc = "edit" /\ req[r].session = t /\ Exists(t)
                      /\ req[r].seen # "COMPLETED" /\ session'[t].status = "COMPLETED"
<1>1. PICK s : s = req[r].session
  OBVIOUS
<1>2. PICK row : row = NewRow(session[s].user, c, status, energy)
  OBVIOUS
<1>3. req[r].pc = "edit" /\ Exists(s) /\ session' = [session EXCEPT ![s] = row]
      /\ Ends(r) /\ UNCHANGED apart
  BY <1>1, <1>2 DEF AdminWrites
<1>4. DOMAIN row = RowFields /\ row.status = status
  BY <1>2, FieldsOfRows
<1>5. req'[r] = Idle /\ req[r].session = s /\ req[r].pc \in {"stop", "edit"}
  BY <1>1, <1>3, CallEnded
<1>6. \A t \in Sessions : RowStep(t)
  <2>1. \A t \in Sessions \ {s} : session'[t] = session[t]
    BY <1>3, <1>4, RowWritten
  <2>2. s \in Sessions => session'[s].status = status
    BY <1>3, <1>4, RowWritten
  <2>3. s \in Sessions => RowStep(s)
    BY <1>3, <1>5, <2>2 DEF RowStep, SessionStatuses
  <2>4. QED  BY <2>1, <2>3 DEF RowStep
<1>7. Quiet
  BY <1>3, <1>4, <1>6, RowWritten, CallEnded DEF Quiet
<1>8. told' = IF Announced(req[r].seen, status) THEN [told EXCEPT ![s] = @ + 1] ELSE told
  BY <1>1 DEF AdminWrites
<1>9. DOMAIN told' = Sessions /\ \A t \in Sessions \ {s} : told'[t] = told[t]
  BY <1>8 DEF Tables
<1>10. ASSUME NEW t \in Sessions, told'[t] # told[t]
       PROVE  /\ t = s /\ req[r].seen # "COMPLETED" /\ session'[t].status = "COMPLETED"
  <2>1. t = s
    BY <1>9, <1>10
  <2>2. Announced(req[r].seen, status)
    BY <1>8, <1>10
  <2>3. session'[s].status = status
    BY <1>3, <1>4, <1>10, <2>1, RowWritten
  <2>4. QED  BY <2>1, <2>2, <2>3 DEF Announced
<1>11. QED  BY <1>1, <1>3, <1>7, <1>9, <1>10

LEMMA ByHandQuiet ==
    ASSUME Tables,
           \/ \E s \in Sessions : AdminRemove(s)
           \/ \E s \in Sessions, u \in Users, c \in Conns, status \in SessionStatuses,
                 energy \in Energies : CreateByHand(s, u, c, status, energy)
           \/ Crash
    PROVE  Quiet /\ UNCHANGED <<told, apart>>
<1>1. ASSUME NEW s \in Sessions, AdminRemove(s) PROVE Quiet /\ UNCHANGED <<told, apart>>
  BY <1>1, RowDeleted DEF AdminRemove, Quiet, CallsGoOn, Tables
<1>2. ASSUME NEW s \in Sessions, NEW u \in Users, NEW c \in Conns, NEW status \in SessionStatuses,
             NEW energy \in Energies, CreateByHand(s, u, c, status, energy)
      PROVE  Quiet /\ UNCHANGED <<told, apart>>
  BY <1>2, RowInserted DEF CreateByHand, Quiet, CallsGoOn, Tables, RowStep
<1>3. CASE Crash
  BY <1>3, FieldsOfIdle DEF Crash, Quiet, CallsGoOn, Tables, RowStep
<1>4. QED  BY <1>1, <1>2, <1>3
\* A deleted row stays as it is, and a user is told of the end of a charge only.
GoneStays == \A s \in Sessions : session[s].status = "DELETED" => session'[s] = session[s]

ToldRight ==
    \A s \in Sessions :
        told'[s] # told[s] /\ (\A r \in Reqs : req[r].session = s => req[r].conn \in apart) =>
            session[s].status # "COMPLETED" /\ session'[s].status = "COMPLETED"

LEMMA QuietKeeps ==
    ASSUME Tables, EditsOK, Quiet, UNCHANGED apart, DOMAIN told' = Sessions
    PROVE  Tables' /\ EditsOK' /\ GoneStays
BY EditsGoOn DEF Quiet, Tables, GoneStays, RowStep, Exists, SessionStatuses

LEMMA ArrivalKeeps ==
    ASSUME Tables, EditsOK, NEW r \in Reqs, NEW q, Arrives(r, q), DOMAIN q = CallFields,
           UNCHANGED told,
           DOMAIN session' = Sessions, \A t \in Sessions : DOMAIN session'[t] = RowFields,
           \A s \in Sessions : \/ session'[s] = session[s]
                               \/ session[s].status = "NONE" /\ session'[s].status # "NONE",
           q.pc = "edit" => /\ q.session \in Sessions /\ Exists(q.session)
                            /\ session[q.session].status = q.seen
    PROVE  Tables' /\ EditsOK' /\ GoneStays /\ ToldRight
<1>1. EditsOK'
  BY EditsArrive
<1>2. DOMAIN req' = Reqs /\ \A p \in Reqs : DOMAIN req'[p] = CallFields
  BY DEF Arrives, Tables
<1>3. QED  BY <1>1, <1>2 DEF Tables, GoneStays, ToldRight

LEMMA HandlersKeep ==
    ASSUME Tables, EditsOK, NEW r \in Reqs, HandlerStep(r) \/ Fails(r)
    PROVE  Tables' /\ EditsOK' /\ GoneStays /\ ToldRight
<1>1. CASE Quiet /\ UNCHANGED <<told, apart>>
  <2>1. DOMAIN told' = Sessions /\ ToldRight
    BY <1>1 DEF Tables, ToldRight
  <2>2. QED  BY <1>1, <2>1, QuietKeeps
<1>2. ASSUME NEW c \in Conns, NEW status \in SessionStatuses, NEW energy \in Energies,
             AdminWrites(r, c, status, energy)
      PROVE  Tables' /\ EditsOK' /\ GoneStays /\ ToldRight
  <2>1. Tables' /\ EditsOK' /\ GoneStays
    BY <1>2, EditWrites, QuietKeeps
  <2>2. ASSUME NEW s \in Sessions, told'[s] # told[s],
               \A k \in Reqs : req[k].session = s => req[k].conn \in apart
        PROVE  session[s].status # "COMPLETED" /\ session'[s].status = "COMPLETED"
    <3>1. /\ req[r].pc = "edit" /\ req[r].session = s /\ Exists(s)
          /\ req[r].seen # "COMPLETED" /\ session'[s].status = "COMPLETED"
      BY <1>2, <2>2, EditWrites
    <3>2. session[s].status = req[r].seen
      BY <2>2, <3>1 DEF EditsOK
    <3>3. QED  BY <3>1, <3>2
  <2>3. QED  BY <2>1, <2>2 DEF ToldRight
<1>3. CASE \/ \E s \in Sessions : StartFinds(r, s) \/ StartCreates(r, s)
           \/ StartFindsNone(r) \/ StartReuses(r) \/ StartRejects(r)
  BY <1>1, <1>3, StartQuiet
<1>4. CASE MeterWrites(r) \/ StopWrites(r)
  BY <1>1, <1>4, WritesQuiet
<1>5. CASE Fails(r) \/ RemoteSent(r) \/ RemoteRefused(r) \/ RemoteDeletes(r) \/ AdminFails(r)
  BY <1>1, <1>5, OthersQuiet
<1>6. QED  BY <1>2, <1>3, <1>4, <1>5 DEF HandlerStep

LEMMA StationsKeep ==
    ASSUME Tables, EditsOK, NEW c \in Conns, StationStep(c)
    PROVE  Tables' /\ EditsOK' /\ GoneStays /\ ToldRight
<1>1. UNCHANGED <<session, told>>
  BY DEF StationStep, PlugIn, SendStart, SendMeter, SendStop, Draw, Finish
<1>2. CASE UNCHANGED <<req, apart>>
  <2>1. Quiet
    BY <1>1, <1>2 DEF Quiet, CallsGoOn, RowStep, Tables
  <2>2. ToldRight /\ DOMAIN told' = Sessions
    BY <1>1 DEF ToldRight, Tables
  <2>3. QED  BY <1>2, <2>1, <2>2, QuietKeeps
<1>3. ASSUME NEW r \in Reqs, NEW pc \in {"start", "meter", "stop"}, NEW energy,
             Arrives(r, Call(pc, c, energy))
      PROVE  Tables' /\ EditsOK' /\ GoneStays /\ ToldRight
  <2>1. PICK q : q = Call(pc, c, energy)
    OBVIOUS
  <2>2. DOMAIN q = CallFields /\ q.pc = pc
    BY <2>1, FieldsOfIdle DEF Call, CallFields
  <2>3. Arrives(r, q) /\ q.pc # "edit"
    BY <1>3, <2>1, <2>2
  <2>4. DOMAIN session' = Sessions /\ \A t \in Sessions : DOMAIN session'[t] = RowFields
    BY <1>1 DEF Tables
  <2>5. QED  BY <1>1, <2>2, <2>3, <2>4, ArrivalKeeps
<1>4. QED
  BY <1>2, <1>3 DEF StationStep, PlugIn, SendStart, SendMeter, SendStop, Draw, Finish

LEMMA StepsKeep ==
    ASSUME Tables, EditsOK, [Next]_vars
    PROVE  Tables' /\ EditsOK' /\ GoneStays /\ ToldRight
<1>1. ASSUME NEW r \in Reqs, NEW u \in Users, NEW c \in Conns, NEW s \in Sessions,
             RemoteStart(r, u, c, s)
      PROVE  Tables' /\ EditsOK' /\ GoneStays /\ ToldRight
  <2>1. PICK q : q = [Idle EXCEPT !.pc = "remote.send", !.conn = c, !.user = u, !.session = s]
    OBVIOUS
  <2>2. DOMAIN q = CallFields /\ q.pc = "remote.send"
    BY <2>1, FieldsOfIdle DEF CallFields
  <2>3. Arrives(r, q) /\ UNCHANGED told /\ Insert(s, NewRow(u, c, "ACTIVE", 0))
    BY <1>1, <2>1 DEF RemoteStart
  <2>4. "ACTIVE" \in SessionStatuses
    BY DEF SessionStatuses
  <2>5. QED  BY <2>2, <2>3, <2>4, RowInserted, ArrivalKeeps
<1>2. ASSUME NEW r \in Reqs, NEW s \in Sessions, AdminReads(r, s)
      PROVE  Tables' /\ EditsOK' /\ GoneStays /\ ToldRight
  <2>1. PICK q : q = [Idle EXCEPT !.pc = "edit", !.conn = session[s].conn, !.session = s,
                                  !.seen = session[s].status]
    OBVIOUS
  <2>2. DOMAIN q = CallFields /\ q.session = s /\ q.seen = session[s].status
    BY <2>1, FieldsOfIdle DEF CallFields
  <2>3. Arrives(r, q) /\ UNCHANGED <<session, told>> /\ Exists(s)
    BY <1>2, <2>1 DEF AdminReads
  <2>4. DOMAIN session' = Sessions /\ \A t \in Sessions : DOMAIN session'[t] = RowFields
    BY <2>3 DEF Tables
  <2>5. QED  BY <2>2, <2>3, <2>4, ArrivalKeeps
<1>3. CASE \/ \E s \in Sessions : AdminRemove(s)
           \/ \E s \in Sessions, u \in Users, c \in Conns, status \in SessionStatuses,
                 energy \in Energies : CreateByHand(s, u, c, status, energy)
           \/ Crash
  <2>1. Quiet /\ UNCHANGED <<told, apart>>
    BY <1>3, ByHandQuiet
  <2>2. DOMAIN told' = Sessions /\ ToldRight
    BY <2>1 DEF Tables, ToldRight
  <2>3. QED  BY <2>1, <2>2, QuietKeeps
<1>4. CASE UNCHANGED vars
  <2>1. Quiet /\ UNCHANGED <<told, apart>>
    BY <1>4 DEF vars, Quiet, CallsGoOn, RowStep, Tables
  <2>2. DOMAIN told' = Sessions /\ ToldRight
    BY <2>1 DEF Tables, ToldRight
  <2>3. QED  BY <2>1, <2>2, QuietKeeps
<1>5. QED  BY <1>1, <1>2, <1>3, <1>4, HandlersKeep, StationsKeep DEF Next

\* Whatever is in flight when a session is deleted, no later call brings it
\* back: with any random ids, and whoever edits sessions by hand.
THEOREM GoneForGood == Spec => DeletedForGood
<1>1. Tables /\ EditsOK /\ [Next]_vars => Tables' /\ EditsOK'
  BY StepsKeep
<1>2. Tables /\ EditsOK /\ [Next]_vars =>
        [\A s \in Sessions : session[s].status = "DELETED" => session'[s] = session[s]]_vars
  BY StepsKeep DEF GoneStays
<1>3. QED  BY <1>1, <1>2, TablesStart, PTL DEF Spec, DeletedForGood

\* An edit that no stop and no other edit overlaps tells the user of the end
\* of a charge only as the step that ends it.
THEOREM ToldWhenItEnds == Spec => ToldOfTheEnd
<1>1. Tables /\ EditsOK /\ [Next]_vars => Tables' /\ EditsOK'
  BY StepsKeep
<1>2. Tables /\ EditsOK /\ [Next]_vars =>
        [\A s \in Sessions :
             told'[s] # told[s] /\ (\A r \in Reqs : req[r].session = s => req[r].conn \in apart) =>
                 session[s].status # "COMPLETED" /\ session'[s].status = "COMPLETED"]_vars
  BY StepsKeep DEF ToldRight
<1>3. QED  BY <1>1, <1>2, TablesStart, PTL DEF Spec, ToldOfTheEnd
=============================================================================
