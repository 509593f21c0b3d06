------------------------------- MODULE Listing -------------------------------
(***************************************************************************)
(* Reading a list page by page while its rows come, go and change.         *)
(* Source: the list endpoints of modules/*, and the query DTOs.            *)
(*                                                                         *)
(* An endpoint answers a page with the rows of a sorted query from         *)
(* (page - 1) * limit on, and with the number of all rows.  Rows and       *)
(* number are two statements, also where one $transaction sends both (READ *)
(* COMMITTED); endpoints differ in the columns they sort by and in the     *)
(* statement that comes first.  A client asks for pages until the number   *)
(* says that he has them all.                                              *)
(***************************************************************************)
EXTENDS Naturals, FiniteSets

CONSTANTS MaxRows,    \* bound on the rows ever inserted: 1 .. MaxRows, by age
          MaxLimit    \* bound on "limit"

ASSUME RowsAssumption == MaxRows \in Nat /\ MaxLimit \in Nat

VARIABLES key,       \* the value that rows are sorted by; 0 if a row is not there
          inserted,  \* rows ever inserted
          walk

listVars == <<key, inserted, walk>>

-----------------------------------------------------------------------------
(* The endpoints.                                                          *)

\* Columns that a row keeps and no other has (createdAt, id); columns that may change
\* and tie (powerKw, title, startTime); no order at all.
Endpoint(columns, dirs, first) == [columns |-> columns, dirs |-> dirs, first |-> first]

BothDirs == {"asc", "desc"}

ConnectorList == Endpoint({"kept", "free"}, BothDirs, "rows")
OperatorList == Endpoint({"kept", "free"}, BothDirs, "rows")
LegalList == Endpoint({"kept", "free"}, BothDirs, "rows")
DiscountList == Endpoint({"kept", "free"}, BothDirs, "rows")
CarList == Endpoint({"kept", "free"}, BothDirs, "number")
LikeList == Endpoint({"kept"}, {"desc"}, "number")
NotificationList == Endpoint({"kept"}, {"desc"}, "rows")
PaymentList == Endpoint({"kept"}, {"desc"}, "rows")
PayoutList == Endpoint({"kept"}, {"desc"}, "rows")
TransactionList == Endpoint({"kept"}, {"desc"}, "rows")
PricingList == Endpoint({"kept"}, {"desc"}, "rows")
StatusLogList == Endpoint({"kept"}, {"desc"}, "rows")
SessionList == Endpoint({"free"}, {"desc"}, "rows")
AdminSessionList == Endpoint({"free"}, {"desc"}, "rows")
WalletList == Endpoint({"kept"}, {"asc"}, "rows")

\* One query for all stations, of which a page is cut out; sorted by price or distance
\* if the request says so, never by sortBy.
StationList == Endpoint({"none", "free"}, BothDirs, "both")

Endpoints ==
    {ConnectorList, OperatorList, LegalList, DiscountList, CarList, LikeList, NotificationList,
     PaymentList, PayoutList, TransactionList, PricingList, StatusLogList, SessionList,
     AdminSessionList, WalletList, StationList}

\* page and limit are at least 1.
Limits == 1 .. MaxLimit

-----------------------------------------------------------------------------

Idle == [pc |-> "idle", column |-> "none", dir |-> "asc", first |-> "both", limit |-> 1,
         page |-> 1, items |-> {}, number |-> 0, all |-> {}, seen |-> {}, again |-> FALSE,
         came |-> FALSE, late |-> FALSE, left |-> FALSE, even |-> TRUE]

Rows == 1 .. MaxRows

Walks == [pc : {"idle", "ask", "rest", "done"}, column : {"kept", "free", "none"}, dir : BothDirs,
          first : {"rows", "number", "both"}, limit : Limits \cup {1}, page : 1 .. 2 * MaxRows + 1,
          items : SUBSET Rows, number : 0 .. MaxRows, all : SUBSET Rows, seen : SUBSET Rows,
          again : BOOLEAN, came : BOOLEAN, late : BOOLEAN, left : BOOLEAN, even : BOOLEAN]

ListTypeOK ==
    /\ key \in [Rows -> 0 .. MaxRows]
    /\ inserted \in 0 .. MaxRows
    /\ walk \in Walks

ListInit ==
    /\ key = [x \in Rows |-> 0]
    /\ inserted = 0
    /\ walk = Idle

There == {x \in Rows : key[x] # 0}

\* The rows have an order that the column decides.
Even(k) == \A x, y \in Rows : k[x] = k[y] /\ k[x] # 0 => x = y

Busy == walk.pc \in {"ask", "rest"}

\* Rows sorted by a column that is kept get ascending values.
Insert(v) ==
    LET x == inserted + 1 IN
    /\ inserted < MaxRows
    /\ inserted' = x
    /\ walk.column = "kept" => v = x
    /\ key' = [key EXCEPT ![x] = v]
    /\ walk' = IF Busy
               THEN [walk EXCEPT !.came = TRUE, !.late = @ \/ walk.pc = "rest",
                                 !.even = @ /\ Even(key')]
               ELSE walk

Delete(x) ==
    /\ x \in There
    /\ key' = [key EXCEPT ![x] = 0]
    /\ walk' = IF Busy THEN [walk EXCEPT !.left = TRUE, !.all = @ \ {x}] ELSE walk
    /\ UNCHANGED inserted

\* A row that is sorted by what changes goes and comes.
Edit(x, v) ==
    /\ x \in There
    /\ walk.column # "kept"
    /\ key' = [key EXCEPT ![x] = v]
    /\ walk' = IF Busy
               THEN [walk EXCEPT !.came = TRUE, !.left = TRUE, !.late = @ \/ walk.pc = "rest",
                                 !.even = @ /\ Even(key')]
               ELSE walk
    /\ UNCHANGED inserted

-----------------------------------------------------------------------------
(* A walk.                                                                 *)

\* A column that is kept has the values that Insert gave.
WalkBegins(e, c, d, l) ==
    /\ walk.pc \in {"idle", "done"}
    /\ c \in e.columns /\ d \in e.dirs /\ l \in Limits
    /\ c = "kept" => \A x \in There : key[x] = x
    /\ walk' = [Idle EXCEPT !.pc = "ask", !.column = c, !.dir = d, !.first = e.first,
                            !.limit = l, !.all = There, !.even = Even(key)]
    /\ UNCHANGED <<key, inserted>>

Before(x, y) ==
    CASE walk.column = "none" -> FALSE
      [] walk.dir = "asc" -> key[x] < key[y]
      [] walk.dir = "desc" -> key[x] > key[y]

\* Pages count from 0.
Skip_Page(page, limit) == page * limit

Skip(page, limit) == (page - 1) * limit

Least(m, n) == IF m < n THEN m ELSE n

\* What a query may answer: rows that tie come in any order.
IsPage(items) ==
    LET n == Cardinality(There) IN
    \E before \in SUBSET There :
        LET after == There \ (before \cup items) IN
        /\ Cardinality(before) = Least(Skip(walk.page, walk.limit), n)
        /\ items \cap before = {}
        /\ Cardinality(items) = Least(walk.limit, n - Cardinality(before))
        /\ \A b \in before, x \in items \cup after : ~ Before(x, b)
        /\ \A x \in items, a \in after : ~ Before(a, x)

\* The answer is there: the client goes on to the next page or is done.
Answered(items, number) ==
    walk' = [walk EXCEPT !.pc = IF walk.page * walk.limit >= number THEN "done" ELSE "ask",
                         !.page = IF walk.page * walk.limit >= number THEN @ ELSE @ + 1,
                         !.again = @ \/ items \cap walk.seen # {},
                         !.seen = @ \cup items, !.items = {}, !.number = 0,
                         !.late = IF walk.page * walk.limit >= number THEN @ ELSE FALSE]

FirstStatement ==
    /\ walk.pc = "ask"
    /\ \/ /\ walk.first = "rows"
          /\ \E items \in SUBSET There :
                 IsPage(items) /\ walk' = [walk EXCEPT !.pc = "rest", !.items = items]
       \/ /\ walk.first = "number"
          /\ walk' = [walk EXCEPT !.pc = "rest", !.number = Cardinality(There)]
       \/ /\ walk.first = "both"
          /\ \E items \in SUBSET There : IsPage(items) /\ Answered(items, Cardinality(There))
    /\ UNCHANGED <<key, inserted>>

SecondStatement ==
    /\ walk.pc = "rest"
    /\ \/ walk.first = "rows" /\ Answered(walk.items, Cardinality(There))
       \/ /\ walk.first = "number"
          /\ \E items \in SUBSET There : IsPage(items) /\ Answered(items, walk.number)
    /\ UNCHANGED <<key, inserted>>

ListNext ==
    \/ \E v \in Rows : Insert(v)
    \/ \E x \in Rows : Delete(x)
    \/ \E x, v \in Rows : Edit(x, v)
    \/ \E e \in Endpoints, c \in {"kept", "free", "none"}, d \in BothDirs, l \in Limits :
           WalkBegins(e, c, d, l)
    \/ FirstStatement \/ SecondStatement

ListSpec == ListInit /\ [][ListNext]_listVars

-----------------------------------------------------------------------------

\* A client who reads page after page misses no row that is there all the time, if the
\* column sorts the rows without ties and no row goes or is edited meanwhile: rows that
\* come only push others to later pages.  Where the number is read before the rows
\* (vehicle.service.ts:93-99, station-like.service.ts:42-64), a row that comes between
\* the two statements of the last page may push one off it.
NothingMissed ==
    walk.pc = "done" /\ walk.even /\ ~ walk.left /\ walk.column # "none"
    /\ (walk.first = "number" => ~ walk.late)
        => walk.all \subseteq walk.seen

\* He gets no row twice if, with such a column, no row comes meanwhile: rows that go
\* pull others to pages he has read.
NothingTwice ==
    walk.even /\ ~ walk.came /\ walk.column # "none" => ~ walk.again

ListInv == ListTypeOK /\ NothingMissed /\ NothingTwice
=============================================================================
