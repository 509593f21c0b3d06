-------------------------- MODULE StationCatalogue ---------------------------
(***************************************************************************)
(* Stations, their connectors with the QR codes printed for them, their    *)
(* prices, and the likes of users.                                         *)
(* Source: modules/charging-station, connector, station-pricing and        *)
(* station-like, and the foreign keys of schema.prisma.                    *)
(*                                                                         *)
(* Two operations read and then write and so occupy a slot of CatReqs:     *)
(* generateQrCode and toggle.  The others find a row and then write it;    *)
(* the write throws if the row is gone, so they are one step.              *)
(***************************************************************************)
EXTENDS Naturals

CONSTANTS Stations, Conns,    \* rows of ChargingStation and Connector, ever
          Members,            \* users
          QrCodes, CatReqs, Nil,
          MaxLikes            \* bound on the rows of StationLike, ever

ASSUME NilAssumption == Nil \notin Stations \cup Conns \cup Members \cup QrCodes
ASSUME LikesAssumption == MaxLikes \in Nat

VARIABLES station,    \* ChargingStation: unused, live or deleted
          priced,     \* stations with a row of StationPricing
          conn,       \* Connector: its station and its QR code
          like,       \* StationLike: the row of a user and a station, or 0
          likes,      \* how many rows were ever inserted
          drawn,      \* UUIDs drawn so far
          catReq,
          printed,    \* connectors and codes that requests were answered with (history)
          apart,      \* connectors no two generations were at at once (history)
          told        \* what users were last told of their likes (history)

catVars == <<station, priced, conn, like, likes, drawn, catReq, printed, apart, told>>

ConnRows == [at : Stations \cup {Nil}, qr : QrCodes \cup {Nil}, state : {"unused", "live", "deleted"}]
CatCalls == [pc : {"idle", "qr", "like", "unlike"}, conn : Conns \cup {Nil},
             member : Members \cup {Nil}, station : Stations \cup {Nil}, row : 0 .. MaxLikes]
Ready == [pc |-> "idle", conn |-> Nil, member |-> Nil, station |-> Nil, row |-> 0]

CatTypeOK ==
    /\ station \in [Stations -> {"unused", "live", "deleted"}]
    /\ priced \subseteq Stations
    /\ conn \in [Conns -> ConnRows]
    /\ like \in [Members \X Stations -> 0 .. MaxLikes]
    /\ likes \in 0 .. MaxLikes
    /\ drawn \subseteq QrCodes
    /\ catReq \in [CatReqs -> CatCalls]
    /\ printed \subseteq Conns \X QrCodes
    /\ apart \subseteq Conns
    /\ told \in [Members \X Stations -> BOOLEAN]

CatInit ==
    /\ station = [s \in Stations |-> "unused"]
    /\ priced = {}
    /\ conn = [c \in Conns |-> [at |-> Nil, qr |-> Nil, state |-> "unused"]]
    /\ like = [p \in Members \X Stations |-> 0]
    /\ likes = 0
    /\ drawn = {}
    /\ catReq = [r \in CatReqs |-> Ready]
    /\ printed = {}
    /\ apart = Conns
    /\ told = [p \in Members \X Stations |-> FALSE]

LiveStations == {s \in Stations : station[s] = "live"}
LiveConns == {c \in Conns : conn[c].state = "live"}

CatCall(r, call) == catReq[r] = Ready /\ catReq' = [catReq EXCEPT ![r] = call]

CatDone(r) == catReq' = [catReq EXCEPT ![r] = Ready]

-----------------------------------------------------------------------------
(* Stations, prices and connectors.                                        *)

CreateStation(s) ==
    /\ station[s] = "unused"
    /\ station' = [station EXCEPT ![s] = "live"]
    /\ UNCHANGED <<priced, conn, like, likes, drawn, catReq, printed, apart, told>>

\* Foreign keys to a station are RESTRICT: rows that refer to it keep it.
Referred(s) ==
    \/ s \in priced
    \/ \E c \in LiveConns : conn[c].at = s
    \/ \E m \in Members : like[<<m, s>>] # 0

RemoveStation(s) ==
    /\ s \in LiveStations
    /\ ~ Referred(s)
    /\ station' = [station EXCEPT ![s] = "deleted"]
    /\ UNCHANGED <<priced, conn, like, likes, drawn, catReq, printed, apart, told>>

SetPrice(s) ==
    /\ s \in LiveStations \ priced
    /\ priced' = priced \cup {s}
    /\ UNCHANGED <<station, conn, like, likes, drawn, catReq, printed, apart, told>>

RemovePrice(s) ==
    /\ s \in priced
    /\ priced' = priced \ {s}
    /\ UNCHANGED <<station, conn, like, likes, drawn, catReq, printed, apart, told>>

CreateConnector(c, s) ==
    /\ conn[c].state = "unused"
    /\ s \in LiveStations
    /\ conn' = [conn EXCEPT ![c] = [at |-> s, qr |-> Nil, state |-> "live"]]
    /\ UNCHANGED <<station, priced, like, likes, drawn, catReq, printed, apart, told>>

\* update: the station may be another one, the code stays.
UpdateConnector(c, s) ==
    /\ c \in LiveConns
    /\ s \in LiveStations
    /\ conn' = [conn EXCEPT ![c].at = s]
    /\ UNCHANGED <<station, priced, like, likes, drawn, catReq, printed, apart, told>>

RemoveConnector(c) ==
    /\ c \in LiveConns
    /\ conn' = [conn EXCEPT ![c] = [at |-> Nil, qr |-> Nil, state |-> "deleted"]]
    /\ UNCHANGED <<station, priced, like, likes, drawn, catReq, printed, apart, told>>

-----------------------------------------------------------------------------
(* generateQrCode, also for the picture: the code of the connector, or a   *)
(* new one if it had none when it was read.                                *)

\* A code is drawn on every request.
Reusable_Never(c) == FALSE

Reusable(c) == conn[c].qr # Nil

Generating(c) == {r \in CatReqs : catReq[r].pc = "qr" /\ catReq[r].conn = c}

QrBegins(r, c) ==
    /\ c \in LiveConns
    /\ catReq[r] = Ready
    /\ IF Reusable(c)
       THEN /\ printed' = printed \cup {<<c, conn[c].qr>>}
            /\ UNCHANGED <<catReq, apart>>
       ELSE /\ CatCall(r, [Ready EXCEPT !.pc = "qr", !.conn = c])
            /\ apart' = IF Generating(c) = {} THEN apart ELSE apart \ {c}
            /\ UNCHANGED printed
    /\ UNCHANGED <<station, priced, conn, like, likes, drawn, told>>

\* The update does not look whether there is a code by now.
QrStores(r, k) ==
    LET c == catReq[r].conn IN
    /\ catReq[r].pc = "qr"
    /\ k \notin drawn
    /\ drawn' = drawn \cup {k}
    /\ IF c \in LiveConns
       THEN /\ conn' = [conn EXCEPT ![c].qr = k]
            /\ printed' = printed \cup {<<c, k>>}
       ELSE UNCHANGED <<conn, printed>>
    /\ CatDone(r)
    /\ UNCHANGED <<station, priced, like, likes, apart, told>>

-----------------------------------------------------------------------------
(* toggle.                                                                 *)

ToggleBegins(r, m, s) ==
    /\ s \in LiveStations
    /\ CatCall(r, [Ready EXCEPT !.pc = IF like[<<m, s>>] = 0 THEN "like" ELSE "unlike",
                                !.member = m, !.station = s, !.row = like[<<m, s>>]])
    /\ UNCHANGED <<station, priced, conn, like, likes, drawn, printed, apart, told>>

\* delete by the id that was read
Throws(r) == like[<<catReq[r].member, catReq[r].station>>] # catReq[r].row

Unlikes(r) ==
    LET p == <<catReq[r].member, catReq[r].station>> IN
    /\ catReq[r].pc = "unlike"
    /\ like' = [like EXCEPT ![p] = IF @ = catReq[r].row THEN 0 ELSE @]
    /\ told' = IF Throws(r) THEN told ELSE [told EXCEPT ![p] = FALSE]
    /\ CatDone(r)
    /\ UNCHANGED <<station, priced, conn, likes, drawn, printed, apart>>

\* A like that another request stored meanwhile is success too; a missing station
\* is not.
Likes(r) ==
    LET p == <<catReq[r].member, catReq[r].station>> IN
    /\ catReq[r].pc = "like"
    /\ likes < MaxLikes
    /\ IF like[p] # 0 THEN told' = [told EXCEPT ![p] = TRUE] /\ UNCHANGED <<like, likes>>
       ELSE IF p[2] \in LiveStations
       THEN /\ like' = [like EXCEPT ![p] = likes + 1]
            /\ likes' = likes + 1
            /\ told' = [told EXCEPT ![p] = TRUE]
       ELSE UNCHANGED <<like, likes, told>>
    /\ CatDone(r)
    /\ UNCHANGED <<station, priced, conn, drawn, printed, apart>>

\* A statement fails, or the process stops.
CatCutOff(r) ==
    /\ catReq[r] # Ready
    /\ CatDone(r)
    /\ UNCHANGED <<station, priced, conn, like, likes, drawn, printed, apart, told>>

CatNext ==
    \/ \E s \in Stations : CreateStation(s) \/ RemoveStation(s) \/ SetPrice(s) \/ RemovePrice(s)
    \/ \E c \in Conns, s \in Stations : CreateConnector(c, s) \/ UpdateConnector(c, s)
    \/ \E c \in Conns : RemoveConnector(c)
    \/ \E r \in CatReqs, c \in Conns : QrBegins(r, c)
    \/ \E r \in CatReqs, k \in QrCodes : QrStores(r, k)
    \/ \E r \in CatReqs, m \in Members, s \in Stations : ToggleBegins(r, m, s)
    \/ \E r \in CatReqs : Unlikes(r) \/ Likes(r) \/ CatCutOff(r)

CatSpec == CatInit /\ [][CatNext]_catVars

-----------------------------------------------------------------------------

\* No row refers to a station that is not there.
ReferencesOK ==
    /\ priced \subseteq LiveStations
    /\ \A c \in Conns : conn[c].state = "live" <=> conn[c].at # Nil
    /\ \A c \in LiveConns : conn[c].at \in LiveStations
    /\ \A m \in Members, s \in Stations : like[<<m, s>>] # 0 => s \in LiveStations

\* Codes are drawn once, and only live connectors carry one.
CodesUsedOnce ==
    /\ \A c \in Conns : conn[c].qr # Nil => c \in LiveConns /\ conn[c].qr \in drawn
    /\ \A c, d \in Conns : conn[c].qr = conn[d].qr /\ conn[c].qr # Nil => c = d
    /\ \A p \in printed : p[2] \in drawn /\ \A d \in Conns : conn[d].qr = p[2] => d = p[1]

\* A code that someone was given leads to its connector for as long as there is one,
\* wherever the connector moves, unless two requests that both found no code drew one
\* each (connector.service.ts:59-62); no code ever leads to another connector.
PrintedCodesResolve ==
    /\ \A p \in printed : p[1] \in apart /\ p[1] \in LiveConns => conn[p[1]].qr = p[2]
    /\ \A p \in printed, d \in LiveConns : conn[d].qr = p[2] => d = p[1]

CatCallsOK ==
    \A r \in CatReqs :
        LET q == catReq[r] IN
        /\ q.pc = "qr" => q.conn \in Conns
        /\ q.pc = "qr" /\ q.conn \in apart =>
               /\ \A n \in CatReqs : catReq[n].pc = "qr" /\ catReq[n].conn = q.conn => n = r
               /\ conn[q.conn].qr = Nil
               /\ \A p \in printed : p[1] # q.conn \/ q.conn \notin LiveConns
        /\ q.pc \in {"like", "unlike"} => q.member \in Members /\ q.station \in Stations
        /\ q.pc = "unlike" => q.row \in 1 .. likes

\* Users find what they were last told of their likes, however toggles and removals
\* of stations overlap: the loser of a race is told what the winner did, or nothing
\* (station-like.service.ts:23-35).
LikesAsTold ==
    \A m \in Members, s \in Stations : told[<<m, s>>] <=> like[<<m, s>>] # 0

\* Stations, connectors, codes and likes fit together.
CatalogueInv ==
    /\ CatTypeOK
    /\ ReferencesOK
    /\ CodesUsedOnce
    /\ CatCallsOK
    /\ \A m \in Members, s \in Stations : like[<<m, s>>] <= likes
    /\ PrintedCodesResolve
    /\ LikesAsTold
=============================================================================
