----------------------- MODULE StationRegistryProofs ------------------------
(***************************************************************************)
(* The registry of station sockets, for every set of stations and sockets: *)
(* it never holds a superseded or dead socket; and a steady station that   *)
(* is connected is registered and shown online.                            *)
(***************************************************************************)
EXTENDS StationRegistry, TLAPS

\* Taking one query out of a queue leaves a queue.
LEMMA TakenOut ==
    ASSUME NEW q \in Seq(BOOLEAN), NEW i \in 1 .. Len(q)
    PROVE  SubSeq(q, 1, i - 1) \o SubSeq(q, i + 1, Len(q)) \in Seq(BOOLEAN)
<1>1. SubSeq(q, 1, i - 1) \in Seq(BOOLEAN) /\ SubSeq(q, i + 1, Len(q)) \in Seq(BOOLEAN)
  OBVIOUS
<1>2. QED  BY <1>1

\* Taking out the first of several leaves the last in its place.
LEMMA FirstTakenOut ==
    ASSUME NEW q \in Seq(BOOLEAN), Len(q) > 1
    PROVE  LET p == SubSeq(q, 1, 0) \o SubSeq(q, 2, Len(q)) IN
           Len(p) > 0 /\ p[Len(p)] = q[Len(q)]
<1>1. SubSeq(q, 1, 0) = <<>>
  OBVIOUS
<1>2. SubSeq(q, 2, Len(q)) \in Seq(BOOLEAN) /\ Len(SubSeq(q, 2, Len(q))) = Len(q) - 1
  OBVIOUS
<1>3. SubSeq(q, 2, Len(q))[Len(q) - 1] = q[Len(q)]
  OBVIOUS
<1>4. SubSeq(q, 1, 0) \o SubSeq(q, 2, Len(q)) = SubSeq(q, 2, Len(q))
  BY <1>1, <1>2
<1>5. QED  BY <1>2, <1>3, <1>4

LEMMA TypeInit == Init => TypeOK
BY MaxCrashesAssumption DEF Init, TypeOK, SocketRecords, SocketStates

LEMMA IssueType ==
    ASSUME TypeOK, NEW s \in Stations, NEW value \in BOOLEAN, Issue(s, value)
    PROVE  updates' \in [Stations -> Seq(BOOLEAN)]
<1>1. Append(updates[s], value) \in Seq(BOOLEAN)
  BY DEF TypeOK
<1>2. QED  BY <1>1 DEF Issue, TypeOK

\* Every step of the registry keeps the types of its state.
LEMMA TypeStep == TypeOK /\ SocketsInv /\ [Next]_vars => TypeOK'
<1> SUFFICES ASSUME TypeOK, SocketsInv, [Next]_vars PROVE TypeOK'
  OBVIOUS
<1>1. ASSUME NEW k \in Sockets, PeerVanishes(k) PROVE TypeOK'
  BY <1>1 DEF PeerVanishes, TypeOK, SocketRecords, SocketStates
<1>2. ASSUME NEW k \in Sockets, ConnectionEnds(k) PROVE TypeOK'
  BY <1>2 DEF ConnectionEnds, TypeOK, SocketRecords, SocketStates
<1>3. ASSUME NEW k \in Sockets, Close(k) PROVE TypeOK'
  <2>1. sock[k].station \in Stations
    BY <1>3 DEF Close, SocketsInv, Attached
  <2>2. updates' \in [Stations -> Seq(BOOLEAN)]
    BY <1>3, <2>1, IssueType DEF Close
  <2>3. QED  BY <1>3, <2>1, <2>2 DEF Close, Unregistered, TypeOK, SocketRecords, SocketStates
<1>4. ASSUME NEW k \in Sockets, Boot(k) PROVE TypeOK'
  <2>1. sock[k].station \in Stations
    BY <1>4 DEF Boot, SocketsInv, Attached
  <2>2. updates' \in [Stations -> Seq(BOOLEAN)]
    BY <1>4, <2>1, IssueType DEF Boot
  <2>3. QED  BY <1>4, <2>2 DEF Boot, TypeOK
<1>5. ASSUME NEW k \in Sockets, NEW s \in Stations, Connect(k, s) PROVE TypeOK'
  <2>1. updates' \in [Stations -> Seq(BOOLEAN)]
    BY <1>5, IssueType DEF Connect
  <2>2. QED  BY <1>5, <2>1 DEF Connect, Registered, SteadyIf, TypeOK, SocketRecords, SocketStates
<1>6. ASSUME NEW s \in Stations, NEW i \in 1 .. Len(updates[s]), Commit(s, i) PROVE TypeOK'
  <2>1. updates[s] \in Seq(BOOLEAN)
    BY DEF TypeOK
  <2>2. SubSeq(updates[s], 1, i - 1) \o SubSeq(updates[s], i + 1, Len(updates[s])) \in Seq(BOOLEAN)
    BY <2>1, TakenOut
  <2>3. updates' \in [Stations -> Seq(BOOLEAN)]
    BY <1>6, <2>2 DEF Commit, TypeOK
  <2>4. isOnline' \in [Stations -> BOOLEAN]
    <3>1. updates[s][i] \in BOOLEAN
      BY <2>1
    <3>2. MarksOnline(s, updates[s][i]) \in BOOLEAN
      BY <3>1 DEF MarksOnline, TypeOK
    <3>3. QED  BY <1>6, <3>2, Zenon DEF Commit, TypeOK
  <2>5. steady' \subseteq Stations
    BY <1>6 DEF Commit, SteadyIf, TypeOK
  <2>6. QED  BY <1>6, <2>3, <2>4, <2>5 DEF Commit, TypeOK
<1>7. ASSUME Crash PROVE TypeOK'
  <2>1. isOnline' \in [Stations -> BOOLEAN]
    BY <1>7 DEF Crash
  <2>2. updates' \in [Stations -> Seq(BOOLEAN)]
    <3>1. <<>> \in Seq(BOOLEAN)
      OBVIOUS
    <3>2. QED  BY <1>7, <3>1 DEF Crash
  <2>3. sock' \in [Sockets -> SocketRecords]
    BY <1>7 DEF Crash, TypeOK, SocketRecords, SocketStates
  <2>4. crashes' \in 0 .. MaxCrashes
    BY <1>7, MaxCrashesAssumption DEF Crash, TypeOK
  <2>5. QED  BY <1>7, <2>1, <2>2, <2>3, <2>4 DEF Crash, TypeOK
<1>8. ASSUME UNCHANGED vars PROVE TypeOK'
  BY <1>8 DEF vars, TypeOK
<1>9. QED  BY <1>1, <1>2, <1>3, <1>4, <1>5, <1>6, <1>7, <1>8 DEF Next

LEMMA SocketsInit == Init => SocketsInv
BY DEF Init, SocketsInv, NoStaleSocket, Attached

\* A close event removes the entry of its station, a connection replaces it,
\* and the entry holds no other socket than the newest.
LEMMA SocketsStep == TypeOK /\ SocketsInv /\ [Next]_vars => SocketsInv'
<1> SUFFICES ASSUME TypeOK, SocketsInv, [Next]_vars PROVE SocketsInv'
  OBVIOUS
<1> USE NoneAssumption DEF TypeOK, SocketsInv, NoStaleSocket, Attached, SocketRecords
<1>1. ASSUME NEW k \in Sockets, PeerVanishes(k) PROVE SocketsInv'
  BY <1>1 DEF PeerVanishes
<1>2. ASSUME NEW k \in Sockets, ConnectionEnds(k) PROVE SocketsInv'
  BY <1>2 DEF ConnectionEnds
<1>3. ASSUME NEW k \in Sockets, Close(k) PROVE SocketsInv'
  BY <1>3 DEF Close, Unregistered
<1>4. ASSUME NEW k \in Sockets, Boot(k) PROVE SocketsInv'
  BY <1>4 DEF Boot
<1>5. ASSUME NEW k \in Sockets, NEW s \in Stations, Connect(k, s) PROVE SocketsInv'
  <2>1. \A t \in Stations \ {s} : newest[t] # k
    BY <1>5 DEF Connect
  <2>2. k # None /\ None \notin Sockets
    OBVIOUS
  <2>3. \A j \in Sockets \ {k} : sock'[j] = sock[j]
    BY <1>5 DEF Connect
  <2>4. sock'[k] = [state |-> "open", station |-> s]
    BY <1>5 DEF Connect
  <2>5. QED  BY <1>5, <2>1, <2>2, <2>3, <2>4 DEF Connect, Registered
<1>6. ASSUME NEW s \in Stations, NEW i \in 1 .. Len(updates[s]), Commit(s, i) PROVE SocketsInv'
  BY <1>6 DEF Commit
<1>7. ASSUME Crash PROVE SocketsInv'
  BY <1>7 DEF Crash
<1>8. ASSUME UNCHANGED vars PROVE SocketsInv'
  BY <1>8 DEF vars
<1>9. QED  BY <1>1, <1>2, <1>3, <1>4, <1>5, <1>6, <1>7, <1>8 DEF Next

LEMMA SteadyInit == Init => OneSocket /\ SettledIsTrue
BY DEF Init, OneSocket, SettledIsTrue, SocketsOf, Attached, Settled

\* A steady station that has one connection has no other.
LEMMA OneSocketStep ==
    TypeOK /\ SocketsInv /\ OneSocket /\ [Next]_vars => OneSocket'
<1> SUFFICES ASSUME TypeOK, SocketsInv, OneSocket, [Next]_vars PROVE OneSocket'
  OBVIOUS
<1> USE NoneAssumption DEF TypeOK, OneSocket, SocketsOf, Attached, SocketRecords
<1>1. ASSUME NEW k \in Sockets, PeerVanishes(k) PROVE OneSocket'
  BY <1>1 DEF PeerVanishes
<1>2. ASSUME NEW k \in Sockets, ConnectionEnds(k) PROVE OneSocket'
  BY <1>2 DEF ConnectionEnds
<1>3. ASSUME NEW k \in Sockets, Close(k) PROVE OneSocket'
  BY <1>3 DEF Close, Unregistered
<1>4. ASSUME NEW k \in Sockets, Boot(k) PROVE OneSocket'
  BY <1>4 DEF Boot
<1>5. ASSUME NEW k \in Sockets, NEW s \in Stations, Connect(k, s) PROVE OneSocket'
  <2>1. \A j \in Sockets \ {k} : sock'[j] = sock[j]
    BY <1>5 DEF Connect
  <2>2. sock'[k] = [state |-> "open", station |-> s]
    BY <1>5 DEF Connect
  <2>3. s \in steady' => SocketsOf(s) = {}
    BY <1>5 DEF Connect, SteadyIf
  <2>4. steady' \subseteq steady
    BY <1>5 DEF Connect, SteadyIf
  <2>5. QED  BY <1>5, <2>1, <2>2, <2>3, <2>4 DEF Connect, Registered
<1>6. ASSUME NEW s \in Stations, NEW i \in 1 .. Len(updates[s]), Commit(s, i) PROVE OneSocket'
  BY <1>6 DEF Commit, SteadyIf
<1>7. ASSUME Crash PROVE OneSocket'
  BY <1>7 DEF Crash
<1>8. ASSUME UNCHANGED vars PROVE OneSocket'
  BY <1>8 DEF vars
<1>9. QED  BY <1>1, <1>2, <1>3, <1>4, <1>5, <1>6, <1>7, <1>8 DEF Next

\* A query just issued is the last one.
LEMMA SettledByIssue ==
    ASSUME TypeOK, NEW s \in Stations, NEW value \in BOOLEAN,
           Issue(s, value), UNCHANGED isOnline, NEW t \in Stations
    PROVE  Settled(t)' = IF t = s THEN value ELSE Settled(t)
<1>1. updates[s] \in Seq(BOOLEAN)
  BY DEF TypeOK
<1>2. updates'[s] = Append(updates[s], value) /\ \A x \in Stations \ {s} : updates'[x] = updates[x]
  BY DEF Issue, TypeOK
<1>3. Append(updates[s], value) # <<>>
      /\ Append(updates[s], value)[Len(Append(updates[s], value))] = value
  BY <1>1
<1>4. CASE t = s
  BY <1>2, <1>3, <1>4 DEF Settled
<1>5. CASE t # s
  BY <1>2, <1>5 DEF Settled
<1>6. QED  BY <1>4, <1>5

\* A query taking effect in its turn settles nothing else than before.
LEMMA SettledByCommit ==
    ASSUME TypeOK, NEW s \in Stations, NEW i \in 1 .. Len(updates[s]), Commit(s, i),
           NEW t \in Known, t \in steady'
    PROVE  Settled(t)' = Settled(t)
<1> DEFINE q == updates[s]
<1>1. q \in Seq(BOOLEAN) /\ t \in Stations /\ Len(q) \in Nat \ {0}
  BY KnownAssumption DEF TypeOK
<1>2. CASE t # s
  BY <1>1, <1>2 DEF Commit, Settled, TypeOK
<1>3. CASE t = s
  <2>1. i = 1
    BY <1>3 DEF Commit, SteadyIf
  <2>2. updates'[s] = SubSeq(q, 1, 0) \o SubSeq(q, 2, Len(q))
    <3>1. updates' = [updates EXCEPT ![s] = SubSeq(@, 1, i - 1) \o SubSeq(@, i + 1, Len(@))]
      BY DEF Commit
    <3>2. i - 1 = 0 /\ i + 1 = 2
      BY <2>1
    <3>3. QED  BY <3>1, <3>2 DEF TypeOK
  <2>3. CASE Len(q) > 1
    <3>1. updates'[s] # <<>> /\ updates'[s][Len(updates'[s])] = q[Len(q)]
      <4>1. updates'[s] \in Seq(BOOLEAN)
        BY <1>1, <2>1, <2>2, TakenOut
      <4>2. Len(updates'[s]) > 0 /\ updates'[s][Len(updates'[s])] = q[Len(q)]
        <5>1. Len(SubSeq(q, 1, 0) \o SubSeq(q, 2, Len(q))) > 0
              /\ (SubSeq(q, 1, 0) \o SubSeq(q, 2, Len(q)))
                   [Len(SubSeq(q, 1, 0) \o SubSeq(q, 2, Len(q)))] = q[Len(q)]
          BY <1>1, <2>3, FirstTakenOut
        <5>2. QED  BY <2>2, <5>1
      <4>3. ASSUME NEW p \in Seq(BOOLEAN), Len(p) > 0 PROVE p # <<>>
        BY <4>3
      <4>4. QED  BY <4>1, <4>2, <4>3
    <3>2. q # <<>>
      BY <1>1
    <3>3. QED  BY <1>3, <3>1, <3>2 DEF Settled
  <2>4. CASE Len(q) = 1
    <3>1. updates'[s] = <<>>
      <4>1. SubSeq(q, 1, 0) = <<>> /\ SubSeq(q, 2, Len(q)) = <<>>
        BY <1>1, <2>4
      <4>2. QED  BY <2>2, <4>1
    <3>2. isOnline'[s] = q[1]
      <4>1. MarksOnline(s, q[i]) = q[1]
        BY <1>3, <2>1 DEF MarksOnline
      <4>2. QED  BY <4>1 DEF Commit, TypeOK
    <3>3. q # <<>>
      BY <1>1
    <3>4. QED  BY <1>3, <2>4, <3>1, <3>2, <3>3 DEF Settled
  <2>5. Len(q) > 1 \/ Len(q) = 1
    <3>1. ASSUME NEW n \in Nat \ {0} PROVE n > 1 \/ n = 1
      OBVIOUS
    <3>2. Len(q) \in Nat \ {0}
      BY <1>1
    <3>3. QED  BY <3>1, <3>2
  <2>6. QED  BY <2>3, <2>4, <2>5
<1>4. QED  BY <1>2, <1>3

\* What SettledIsTrue says of one station.
Truth(t) ==
    /\ SocketsOf(t) # {} => Settled(t) = TRUE
    /\ crashes = 0 /\ SocketsOf(t) = {} => Settled(t) = FALSE

\* Once its queries have taken effect a steady station is shown online exactly
\* if it is connected (the latter before any restart).
LEMMA SettledStep == RegistryInv /\ [Next]_vars => SettledIsTrue'
<1> SUFFICES ASSUME RegistryInv, [Next]_vars, NEW t \in Known, t \in steady' PROVE Truth(t)'
  BY DEF SettledIsTrue, Truth
<1>a. TypeOK /\ SocketsInv /\ OneSocket /\ t \in Stations
  BY KnownAssumption DEF RegistryInv
<1>b. t \in steady => Truth(t)
  BY DEF RegistryInv, SettledIsTrue, Truth
<1>1. ASSUME NEW k \in Sockets, PeerVanishes(k) PROVE Truth(t)'
  <2>1. SocketsOf(t)' = SocketsOf(t)
    BY <1>1, <1>a DEF PeerVanishes, SocketsOf, Attached, TypeOK, SocketRecords
  <2>2. QED  BY <1>1, <1>b, <2>1 DEF PeerVanishes, Truth, Settled
<1>2. ASSUME NEW k \in Sockets, ConnectionEnds(k) PROVE Truth(t)'
  <2>1. SocketsOf(t)' = SocketsOf(t)
    BY <1>2, <1>a DEF ConnectionEnds, SocketsOf, Attached, TypeOK, SocketRecords
  <2>2. QED  BY <1>2, <1>b, <2>1 DEF ConnectionEnds, Truth, Settled
<1>3. ASSUME NEW k \in Sockets, Close(k) PROVE Truth(t)'
  <2>1. t \in steady /\ k \in SocketsOf(sock[k].station) /\ sock[k].station \in Stations
    BY <1>3, <1>a DEF Close, SocketsInv, SocketsOf, Attached
  <2>2. SocketsOf(t)' = SocketsOf(t) \ {k}
    BY <1>3, <1>a DEF Close, SocketsOf, Attached, TypeOK, SocketRecords
  <2>3. CASE t = sock[k].station
    <3>1. SocketsOf(t) = {k}
      BY <1>a, <2>1, <2>3 DEF OneSocket, SocketsOf
    <3>2. Settled(t)' = FALSE
      BY <1>3, <1>a, <2>1, <2>3, SettledByIssue DEF Close
    <3>3. QED  BY <2>2, <3>1, <3>2 DEF Truth
  <2>4. CASE t # sock[k].station
    <3>1. SocketsOf(t)' = SocketsOf(t)
      BY <2>2, <2>4 DEF SocketsOf
    <3>2. Settled(t)' = Settled(t)
      BY <1>3, <1>a, <2>1, <2>4, SettledByIssue DEF Close
    <3>3. QED  BY <1>3, <1>b, <2>1, <3>1, <3>2 DEF Close, Truth
  <2>5. QED  BY <2>3, <2>4
<1>4. ASSUME NEW k \in Sockets, Boot(k) PROVE Truth(t)'
  <2>1. t \in steady /\ k \in SocketsOf(sock[k].station) /\ sock[k].station \in Stations
    BY <1>4, <1>a DEF Boot, SocketsInv, SocketsOf, Attached
  <2>2. SocketsOf(t)' = SocketsOf(t)
    BY <1>4 DEF Boot, SocketsOf, Attached
  <2>3. Settled(t)' = IF t = sock[k].station THEN TRUE ELSE Settled(t)
    BY <1>4, <1>a, <2>1, SettledByIssue DEF Boot
  <2>4. t = sock[k].station => SocketsOf(t) # {}
    BY <2>1
  <2>5. QED  BY <1>4, <1>b, <2>1, <2>2, <2>3, <2>4 DEF Boot, Truth
<1>5. ASSUME NEW k \in Sockets, NEW s \in Stations, Connect(k, s) PROVE Truth(t)'
  <2>1. t \in steady
    BY <1>5 DEF Connect, SteadyIf
  <2>2. Settled(t)' = IF t = s THEN TRUE ELSE Settled(t)
    BY <1>5, <1>a, SettledByIssue DEF Connect
  <2>3. t = s => k \in SocketsOf(t)'
    BY <1>5, <1>a DEF Connect, SocketsOf, Attached, TypeOK
  <2>4. t # s => SocketsOf(t)' = SocketsOf(t)
    BY <1>5, <1>a DEF Connect, SocketsOf, Attached, TypeOK, SocketRecords
  <2>5. QED  BY <1>5, <1>b, <2>1, <2>2, <2>3, <2>4 DEF Connect, Truth
<1>6. ASSUME NEW s \in Stations, NEW i \in 1 .. Len(updates[s]), Commit(s, i) PROVE Truth(t)'
  <2>1. t \in steady
    BY <1>6 DEF Commit, SteadyIf
  <2>2. SocketsOf(t)' = SocketsOf(t)
    BY <1>6 DEF Commit, SocketsOf, Attached
  <2>3. Settled(t)' = Settled(t)
    BY <1>6, <1>a, SettledByCommit
  <2>4. QED  BY <1>6, <1>b, <2>1, <2>2, <2>3 DEF Commit, Truth
<1>7. ASSUME Crash PROVE Truth(t)'
  <2>1. SocketsOf(t)' = {}
    BY <1>7, <1>a DEF Crash, SocketsOf, Attached, TypeOK, SocketRecords
  <2>2. crashes' # 0
    BY <1>7, <1>a, MaxCrashesAssumption DEF Crash, TypeOK
  <2>3. QED  BY <2>1, <2>2 DEF Truth
<1>8. ASSUME UNCHANGED vars PROVE Truth(t)'
  BY <1>8, <1>b DEF vars, SocketsOf, Attached, Settled, Truth
<1>9. QED  BY <1>1, <1>2, <1>3, <1>4, <1>5, <1>6, <1>7, <1>8 DEF Next

\* The inductive invariant: types, only the newest socket registered, and for
\* a steady station one socket and queries that end in the truth.
THEOREM RegistryInvariant == Spec => []RegistryInv
<1>1. Init => RegistryInv
  BY TypeInit, SocketsInit, SteadyInit DEF RegistryInv
<1>2. RegistryInv /\ [Next]_vars => RegistryInv'
  BY TypeStep, SocketsStep, OneSocketStep, SettledStep DEF RegistryInv
<1>3. QED  BY <1>1, <1>2, PTL DEF Spec

\* A command is never sent on a superseded connection, nor after its close
\* (sendCallToStation, ocpp.server.ts:144).
THEOREM NeverStale == Spec => []NoStaleSocket
<1>1. RegistryInv => NoStaleSocket
  BY DEF RegistryInv, SocketsInv
<1>2. QED  BY <1>1, RegistryInvariant, PTL

\* No steady station with an open connection is refused as "not connected".
THEOREM ReachableWhenSteady == Spec => []SteadyIsReachable
<1>1. RegistryInv => SteadyIsReachable
  BY NoneAssumption DEF RegistryInv, TypeOK, OneSocket, SteadyIsReachable, Reachable, SocketsOf
<1>2. QED  BY <1>1, RegistryInvariant, PTL

\* A steady station is shown online if it is connected, and offline if it is not and
\* nothing was restarted, when its queries have taken effect.
THEOREM FlagFollowsConnection == Spec => []ShownAsItIs
<1>1. RegistryInv => ConnectedIsOnline
  BY DEF RegistryInv, SettledIsTrue, ConnectedIsOnline, Settled
<1>2. RegistryInv => DisconnectedIsOffline
  BY DEF RegistryInv, SettledIsTrue, DisconnectedIsOffline, Settled
<1>3. RegistryInv => ShownAsItIs
  BY <1>1, <1>2 DEF ShownAsItIs
<1>4. QED  BY <1>3, RegistryInvariant, PTL
=============================================================================
