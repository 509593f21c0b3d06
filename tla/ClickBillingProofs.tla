------------------------- MODULE ClickBillingProofs -------------------------
(***************************************************************************)
(* Theorems about ClickBilling, for any number of users, transactions,     *)
(* Click payments, request slots and restarts.                             *)
(***************************************************************************)
EXTENDS ClickBilling, TLAPS

-----------------------------------------------------------------------------
(* Types.                                                                  *)

\* The values rows and slots start from are of their types.
LEMMA Constructors ==
    /\ NoRow \in Snapshots
    /\ Idle \in Requests
    /\ NoTx \in TxRows
    /\ NoClickTx \in ClickTxRows
    /\ NoPayment \in Payments
BY DEF NoRow, NoSum, Sums, Snapshots, Idle, Request, Requests, Steps, NoTx, TxRows, Statuses, Kinds,
       NoClickTx, ClickTxRows, NoPayment, Payments, Phases

\* A handler that ends frees its slot.
LEMMA EndsSlot ==
    ASSUME req \in [Reqs -> Requests], NEW r \in Reqs, Ends(r)
    PROVE  /\ req' \in [Reqs -> Requests]
           /\ req'[r] = Idle
           /\ \A q \in Reqs \ {r} : req'[q] = req[q]
BY Constructors DEF Ends

\* A handler that goes on keeps its variables.
LEMMA ContinuesSlot ==
    ASSUME req \in [Reqs -> Requests], NEW r \in Reqs, NEW pc \in Steps, Continues(r, pc)
    PROVE  /\ req' \in [Reqs -> Requests]
           /\ req'[r].pc = pc
           /\ req'[r].user = req[r].user
           /\ req'[r].tx = req[r].tx
           /\ req'[r].click = req[r].click
           /\ req'[r].paid = req[r].paid
           /\ req'[r].seen = req[r].seen
           /\ \A q \in Reqs \ {r} : req'[q] = req[q]
BY DEF Continues, Requests

\* A handler that starts in slot r has what it was called with.
LEMMA RequestFields ==
    ASSUME NEW pc \in Steps, NEW u \in Users \cup {None}, NEW t \in Tx \cup {None},
           NEW c \in Clicks \cup {None}, NEW paid \in BOOLEAN, NEW seen \in Snapshots
    PROVE  /\ Request(pc, u, t, c, paid, seen) \in Requests
           /\ Request(pc, u, t, c, paid, seen).pc = pc
           /\ Request(pc, u, t, c, paid, seen).user = u
           /\ Request(pc, u, t, c, paid, seen).tx = t
           /\ Request(pc, u, t, c, paid, seen).click = c
           /\ Request(pc, u, t, c, paid, seen).paid = paid
           /\ Request(pc, u, t, c, paid, seen).seen = seen
BY DEF Request, Requests

\* An answer changes nothing but the phase of the payment it is about.
LEMMA AnswerPhase ==
    ASSUME click \in [Clicks -> Payments], NEW c, NEW from, NEW to \in Phases,
           Answer(c, from, to)
    PROVE  /\ click' \in [Clicks -> Payments]
           /\ \A d \in Clicks :
                 /\ click'[d].tx = click[d].tx
                 /\ click'[d].valid = click[d].valid
                 /\ \/ click'[d].phase = click[d].phase
                    \/ d = c /\ click[d].phase \in from /\ click'[d].phase = to
<1>1. CASE UNCHANGED click
  BY <1>1
<1>2. CASE click[c].phase \in from /\ click' = [click EXCEPT ![c].phase = to]
  <2>1. click' = [d \in Clicks |-> IF d = c THEN [click[d] EXCEPT !.phase = to] ELSE click[d]]
    BY <1>2
  <2>2. QED BY <1>2, <2>1 DEF Payments
<1>3. QED BY <1>1, <1>2 DEF Answer

\* A status update keeps the owner and the kind of every transaction.
LEMMA StatusUpdate ==
    ASSUME tx \in [Tx -> TxRows], NEW t \in Tx, NEW status \in Statuses,
           SetTxStatus(t, status)
    PROVE  /\ tx' \in [Tx -> TxRows]
           /\ tx'[t].status = status
           /\ \A s \in Tx : tx'[s].kind = tx[s].kind /\ tx'[s].user = tx[s].user
           /\ \A s \in Tx \ {t} : tx'[s] = tx[s]
BY DEF SetTxStatus, TxRows

\* An insert takes a free id.
LEMMA RowInsert ==
    ASSUME tx \in [Tx -> TxRows], NEW t \in Tx, NEW u \in Users, NEW kind \in Kinds,
           NEW status \in Statuses, InsertTx(t, u, kind, status)
    PROVE  /\ tx' \in [Tx -> TxRows]
           /\ tx[t].status = "NONE"
           /\ tx'[t].status = status
           /\ tx'[t].kind = kind
           /\ tx'[t].user = u
           /\ \A s \in Tx \ {t} : tx'[s] = tx[s]
BY DEF InsertTx, TxRows

\* An increment adds one credit and leaves all others alone.
LEMMA OneCredit ==
    ASSUME balance \in [Users -> Sums], NEW u \in Users, NEW t \in Tx, Increment(u, t)
    PROVE  /\ balance' \in [Users -> Sums]
           /\ balance'[u][t] = balance[u][t] + 1
           /\ \A v \in Users, s \in Tx :
                 v # u \/ s # t => balance'[v][s] = balance[v][s]
BY DEF Increment, Sums

-----------------------------------------------------------------------------
(* Types are preserved.                                                    *)

LEMMA InitTypeOK == Init => TypeOK
BY Constructors, MaxCrashesAssumption DEF Init, TypeOK, NoSum, Sums

LEMMA WebhookTypes ==
    ASSUME TypeOK, RequestsInv, NEW r \in Reqs, req[r].pc \in PrepareSteps \cup CompleteSteps,
           PaymentsInv
    PROVE  req[r].click \in Clicks /\ req[r].tx \in Tx
BY DEF TypeOK, RequestsInv, RequestOK, WebhookOK, PaymentsInv, PaymentOK

\* Every step keeps TypeOK where the requests in flight hold what they should.
LEMMA NextTypeOK ==
    ASSUME TypeOK, RowsInv, PaymentsInv, RequestsInv, [Next]_vars
    PROVE  TypeOK'
<1> USE DEF TypeOK
<1>1. ASSUME NEW r \in Reqs, HandlerStep(r) PROVE TypeOK'
  <2>1. CASE PrepareAccepts(r)
    BY <2>1, ContinuesSlot, "prepare.store" \in Steps DEF PrepareAccepts, Steps, PrepareSteps
  <2>2. CASE PrepareRefuses(r)
    BY <2>2, EndsSlot, AnswerPhase DEF PrepareRefuses, Phases
  <2>3. CASE PrepareStores(r)
    <3>1. req[r].click \in Clicks /\ req[r].tx \in Tx
      BY <2>3, WebhookTypes DEF PrepareStores, PrepareSteps
    <3>2. clickTx' \in [Clicks -> ClickTxRows]
      BY <2>3, <3>1 DEF PrepareStores, NewClickTx, ClickTxRows
    <3>3. QED BY <2>3, <3>2, EndsSlot, AnswerPhase DEF PrepareStores, Phases
  <2>4. CASE PrepareConflicts(r)
    BY <2>4, ContinuesSlot DEF PrepareConflicts, Steps, PrepareSteps
  <2>5. CASE CompleteProceeds(r)
    BY <2>5, ContinuesSlot DEF CompleteProceeds, NextOfComplete, Steps, CompleteSteps
  <2>6. CASE CompleteRefuses(r)
    BY <2>6, EndsSlot, AnswerPhase DEF CompleteRefuses, AnswerComplete, Phases
  <2>7. CASE CancelsTx(r)
    <3>1. req[r].tx \in Tx
      BY <2>7, WebhookTypes DEF CancelsTx, CompleteSteps
    <3>2. QED BY <2>7, <3>1, StatusUpdate, ContinuesSlot DEF CancelsTx, Statuses, Steps, CompleteSteps
  <2>8. CASE CancelsClickTx(r)
    <3>1. clickTx' \in [Clicks -> ClickTxRows]
      BY <2>8 DEF CancelsClickTx, ClickTxRows
    <3>2. QED BY <2>8, <3>1, EndsSlot, AnswerPhase DEF CancelsClickTx, AnswerComplete, Phases
  <2>9. CASE AppliesPayment(r)
    <3>1. req[r].click \in Clicks /\ req[r].tx \in Tx
      BY <2>9, WebhookTypes DEF AppliesPayment, CompleteSteps
    <3>2. tx[req[r].tx].user \in Users
      BY <2>9, <3>1 DEF AppliesPayment, CompleteSteps, RequestsInv, RequestOK, WebhookOK,
         PaymentsInv, PaymentOK, RowsInv, NoTx
    <3>3. clickTx' \in [Clicks -> ClickTxRows]
      BY <2>9, <3>1 DEF AppliesPayment, CompletedClickTx, ClickTxRows
    <3>4. QED BY <2>9, <3>1, <3>2, <3>3, StatusUpdate, OneCredit, EndsSlot, AnswerPhase
         DEF AppliesPayment, AnswerComplete, Statuses, Phases
  <2>10. CASE CardCharged(r)
    BY <2>10, ContinuesSlot DEF CardCharged, Steps, TokenSteps, RequestsInv, RequestOK, TokenPaymentOK
  <2>11. CASE CardDeclined(r)
    BY <2>11, ContinuesSlot DEF CardDeclined, Steps, TokenSteps
  <2>12. CASE FetchThrows(r)
    BY <2>12, EndsSlot DEF FetchThrows, RequestsInv, RequestOK, TokenPaymentOK, TokenSteps
  <2>13. CASE FailsTokenPayment(r)
    <3>1. req[r].tx \in Tx
      BY <2>13 DEF FailsTokenPayment, RequestsInv, RequestOK, TokenPaymentOK, TokenSteps
    <3>2. QED BY <2>13, <3>1, StatusUpdate, EndsSlot DEF FailsTokenPayment, Statuses
  <2>14. CASE SettlesTokenPayment(r)
    <3>1. req[r].tx \in Tx /\ req[r].user \in Users
      BY <2>14 DEF SettlesTokenPayment, RequestsInv, RequestOK, TokenPaymentOK, TokenSteps
    <3>2. QED BY <2>14, <3>1, StatusUpdate, OneCredit, EndsSlot DEF SettlesTokenPayment, Statuses
  <2>15. CASE AbortEntry(r)
    BY <2>15, EndsSlot DEF AbortEntry
  <2>16. CASE WalletCreate(r)
    BY <2>16, EndsSlot DEF WalletCreate, RequestsInv, RequestOK, WalletSteps
  <2>17. ASSUME NEW t \in Tx, CommitEntry(r, t) PROVE TypeOK'
    <3>1. req[r].user \in Users /\ req[r].pc \in Kinds
      BY <2>17 DEF CommitEntry, RequestsInv, RequestOK, WalletSteps, Kinds
    <3>2. tx' \in [Tx -> TxRows]
      BY <2>17, <3>1, RowInsert DEF CommitEntry, Statuses
    <3>3. balance' \in [Users -> Sums]
      BY <2>17, <3>1 DEF CommitEntry, NoConflict, WalletRow, Sums
    <3>4. QED BY <2>17, <3>1, <3>2, <3>3, EndsSlot DEF CommitEntry
  <2>18. QED
    BY <1>1, <2>1, <2>2, <2>3, <2>4, <2>5, <2>6, <2>7, <2>8, <2>9, <2>10, <2>11, <2>12,
       <2>13, <2>14, <2>15, <2>16, <2>17 DEF HandlerStep
<1>2. ASSUME NEW r \in Reqs, Called(r) PROVE TypeOK'
  <2>1. ASSUME NEW u \in Users, NEW t \in Tx, PayWithToken(r, u, t) PROVE TypeOK'
    <3>1. tx' \in [Tx -> TxRows]
      BY <2>1, RowInsert DEF PayWithToken, Statuses, Kinds
    <3>2. Request("token.fetch", u, t, None, FALSE, NoRow) \in Requests
      BY Constructors, RequestFields DEF Steps, TokenSteps
    <3>3. QED BY <2>1, <3>1, <3>2 DEF PayWithToken
  <2>2. ASSUME NEW u \in Users, NEW kind \in {"deposit", "refund"}, BeginEntry(r, u, kind)
        PROVE TypeOK'
    <3>1. Request(kind, u, None, None, FALSE, WalletRow(u)) \in Requests
      <4>1. WalletRow(u) \in Snapshots
        BY DEF WalletRow, Snapshots
      <4>2. kind \in Steps
        BY DEF Steps, WalletSteps
      <4>3. QED BY <4>1, <4>2, RequestFields
    <3>2. QED BY <2>2, <3>1 DEF BeginEntry
  <2>3. ASSUME NEW u \in Users, WalletMissing(r, u) PROVE TypeOK'
    <3>1. Request("wallet.create", u, None, None, FALSE, NoRow) \in Requests
      BY Constructors, RequestFields DEF Steps, WalletSteps
    <3>2. QED BY <2>3, <3>1 DEF WalletMissing
  <2>4. QED BY <1>2, <2>1, <2>2, <2>3 DEF Called
<1>3. ASSUME NEW c \in Clicks, ClickStep(c) PROVE TypeOK'
  <2>1. ASSUME NEW t \in Tx, NEW valid \in BOOLEAN, OpenPayment(c, t, valid) PROVE TypeOK'
    BY <2>1 DEF OpenPayment, Payments, Phases
  <2>2. ASSUME NEW r \in Reqs, SendPrepare(r, c) \/ SendComplete(r, c) PROVE TypeOK'
    <3>1. PICK pc \in {"prepare", "complete"}, paid \in BOOLEAN : Deliver(r, c, pc, paid)
      BY <2>2 DEF SendPrepare, SendComplete
    <3>2. Request(pc, None, click[c].tx, c, paid, NoRow) \in Requests
      BY Constructors, RequestFields DEF Steps, PrepareSteps, CompleteSteps, Payments
    <3>3. QED BY <3>1, <3>2 DEF Deliver
  <2>3. CASE TakeMoney(c)
    BY <2>3 DEF TakeMoney, Payments, Phases, PaymentsInv, PaymentOK
  <2>4. CASE CancelPayment(c)
    BY <2>4 DEF CancelPayment, Payments, Phases
  <2>5. QED BY <1>3, <2>1, <2>2, <2>3, <2>4 DEF ClickStep
<1>4. ASSUME NEW r \in Reqs, DropConnection(r) PROVE TypeOK'
  BY <1>4, EndsSlot DEF DropConnection
<1>5. ASSUME NEW u \in Users, NEW t \in Tx, GenerateInvoice(u, t) PROVE TypeOK'
  BY <1>5, RowInsert DEF GenerateInvoice, Kinds, Statuses
<1>6. CASE Crash
  <2>1. charged' \subseteq Tx
    BY <1>6 DEF Crash, RequestsInv, RequestOK, TokenPaymentOK, TokenSteps
  <2>2. QED BY <1>6, <2>1, Constructors, MaxCrashesAssumption DEF Crash
<1>7. CASE UNCHANGED vars
  BY <1>7 DEF vars
<1>8. QED BY <1>1, <1>2, <1>3, <1>4, <1>5, <1>6, <1>7 DEF Next

-----------------------------------------------------------------------------
(* What no step takes back: the owner and kind of a row, the invoice of a  *)
(* payment, the ClickTransaction row of a payment, the money taken.        *)

Stable ==
    /\ \A t \in Tx : tx[t].status # "NONE" =>
          tx'[t].status # "NONE" /\ tx'[t].kind = tx[t].kind /\ tx'[t].user = tx[t].user
    /\ \A c \in Clicks : click[c].phase # "new" =>
          click'[c].phase # "new" /\ click'[c].tx = click[c].tx
    /\ \A c \in Clicks : clickTx[c].tx # None => clickTx'[c].tx = clickTx[c].tx
    /\ charged \subseteq charged'

\* A completed payment has had its row since Prepare approved it.
LEMMA CompletedRow ==
    ASSUME RequestsInv, NEW r \in Reqs, AppliesPayment(r)
    PROVE  WebhookOK(req[r]) /\ clickTx[req[r].click].tx = req[r].tx /\ req[r].tx \in charged
BY DEF RequestsInv, RequestOK, WebhookOK, AppliesPayment, CompleteSteps

\* Every step is stable.
LEMMA NextStable ==
    ASSUME TypeOK, RowsInv, PaymentsInv, RequestsInv, [Next]_vars
    PROVE  Stable
<1> USE DEF Stable, TypeOK
<1>1. ASSUME NEW r \in Reqs, HandlerStep(r) PROVE Stable
  <2>1. CASE PrepareAccepts(r) \/ PrepareConflicts(r) \/ CompleteProceeds(r)
    BY <2>1 DEF PrepareAccepts, PrepareConflicts, CompleteProceeds
  <2>2. CASE PrepareRefuses(r)
    BY <2>2, AnswerPhase DEF PrepareRefuses, Phases
  <2>3. CASE PrepareStores(r)
    <3>1. \A c \in Clicks : clickTx[c].tx # None => clickTx'[c].tx = clickTx[c].tx
      BY <2>3 DEF PrepareStores, NoClickTx
    <3>2. QED BY <2>3, <3>1, AnswerPhase DEF PrepareStores, Phases
  <2>4. CASE CompleteRefuses(r)
    BY <2>4, AnswerPhase DEF CompleteRefuses, AnswerComplete, Phases
  <2>5. CASE CancelsTx(r)
    <3>1. req[r].tx \in Tx /\ tx[req[r].tx].status # "NONE"
      BY <2>5 DEF CancelsTx, CompleteSteps, RequestsInv, RequestOK, WebhookOK,
         PaymentsInv, PaymentOK, RowsInv, NoTx
    <3>2. QED BY <2>5, <3>1, StatusUpdate DEF CancelsTx, Statuses
  <2>6. CASE CancelsClickTx(r)
    <3>1. \A c \in Clicks : clickTx[c].tx # None => clickTx'[c].tx = clickTx[c].tx
      BY <2>6 DEF CancelsClickTx, ClickTxRows
    <3>2. QED BY <2>6, <3>1, AnswerPhase DEF CancelsClickTx, AnswerComplete, Phases
  <2>7. CASE AppliesPayment(r)
    <3>1. req[r].tx \in Tx /\ clickTx[req[r].click].tx = req[r].tx
      BY <2>7, CompletedRow, WebhookTypes DEF AppliesPayment, CompleteSteps
    <3>2. \A c \in Clicks : clickTx[c].tx # None => clickTx'[c].tx = clickTx[c].tx
      BY <2>7, <3>1 DEF AppliesPayment, CompletedClickTx
    <3>3. QED BY <2>7, <3>1, <3>2, StatusUpdate, AnswerPhase
         DEF AppliesPayment, AnswerComplete, Phases, Statuses
  <2>8. CASE CardCharged(r) \/ CardDeclined(r) \/ FetchThrows(r)
    BY <2>8 DEF CardCharged, CardDeclined, FetchThrows
  <2>9. CASE FailsTokenPayment(r) \/ SettlesTokenPayment(r)
    <3>1. req[r].tx \in Tx
      BY <2>9 DEF FailsTokenPayment, SettlesTokenPayment, RequestsInv, RequestOK,
         TokenPaymentOK, TokenSteps
    <3>2. QED BY <2>9, <3>1, StatusUpdate DEF FailsTokenPayment, SettlesTokenPayment, Statuses
  <2>10. CASE AbortEntry(r) \/ WalletCreate(r)
    BY <2>10 DEF AbortEntry, WalletCreate
  <2>11. ASSUME NEW t \in Tx, CommitEntry(r, t) PROVE Stable
    <3>1. req[r].user \in Users /\ req[r].pc \in Kinds
      BY <2>11 DEF CommitEntry, RequestsInv, RequestOK, WalletSteps, Kinds
    <3>2. QED BY <2>11, <3>1, RowInsert DEF CommitEntry, Statuses
  <2>12. QED
    BY <1>1, <2>1, <2>2, <2>3, <2>4, <2>5, <2>6, <2>7, <2>8, <2>9, <2>10, <2>11 DEF HandlerStep
<1>2. ASSUME NEW r \in Reqs, Called(r) PROVE Stable
  <2>1. ASSUME NEW u \in Users, NEW t \in Tx, PayWithToken(r, u, t) PROVE Stable
    BY <2>1, RowInsert DEF PayWithToken, Statuses, Kinds
  <2>2. QED BY <1>2, <2>1 DEF Called, BeginEntry, WalletMissing
<1>3. ASSUME NEW c \in Clicks, ClickStep(c) PROVE Stable
  <2>1. ASSUME NEW t \in Tx, NEW valid \in BOOLEAN, OpenPayment(c, t, valid) PROVE Stable
    BY <2>1 DEF OpenPayment, Payments
  <2>2. CASE TakeMoney(c) \/ CancelPayment(c)
    BY <2>2 DEF TakeMoney, CancelPayment, Payments
  <2>3. QED BY <1>3, <2>1, <2>2 DEF ClickStep, SendPrepare, SendComplete, Deliver
<1>4. ASSUME NEW u \in Users, NEW t \in Tx, GenerateInvoice(u, t) PROVE Stable
  BY <1>4, RowInsert DEF GenerateInvoice, Statuses, Kinds
<1>5. CASE Crash \/ (\E r \in Reqs : DropConnection(r)) \/ UNCHANGED vars
  BY <1>5 DEF Crash, DropConnection, vars
<1>6. QED BY <1>1, <1>2, <1>3, <1>4, <1>5 DEF Next

-----------------------------------------------------------------------------
(* The ledger: rows, balances and the money taken.                         *)

LedgerInv == RowsInv /\ NoLostCredit /\ NoUnpaidCredit

\* A transaction with a webhook in flight is an invoice with an owner.
LEMMA WebhookTx ==
    ASSUME TypeOK, RowsInv, PaymentsInv, RequestsInv, NEW r \in Reqs,
           req[r].pc \in PrepareSteps \cup CompleteSteps
    PROVE  /\ req[r].tx \in Tx
           /\ tx[req[r].tx].kind = "invoice"
           /\ tx[req[r].tx].status # "NONE"
           /\ tx[req[r].tx].user \in Users
BY WebhookTypes DEF RequestsInv, RequestOK, WebhookOK, PaymentsInv, PaymentOK, RowsInv, NoTx

\* So is one with a card payment in flight, of the user who pays.
LEMMA TokenTx ==
    ASSUME TypeOK, RowsInv, RequestsInv, NEW r \in Reqs, req[r].pc \in TokenSteps
    PROVE  /\ req[r].tx \in Tx
           /\ tx[req[r].tx].kind = "token"
           /\ tx[req[r].tx].status # "NONE"
           /\ tx[req[r].tx].user = req[r].user
           /\ req[r].user \in Users
           /\ req[r].pc = "token.settle" => req[r].tx \in charged
BY DEF RequestsInv, RequestOK, TokenPaymentOK, RowsInv, NoTx

\* A status other than SUCCESS takes nothing from the ledger.
LEMMA LedgerUnpaid ==
    ASSUME TypeOK, LedgerInv, NEW t \in Tx, tx[t].status # "NONE", charged \subseteq charged',
           NEW status \in {"PENDING", "FAILED"}, SetTxStatus(t, status), UNCHANGED balance
    PROVE  LedgerInv'
<1>1. /\ tx'[t].status = status
      /\ \A s \in Tx : tx'[s].kind = tx[s].kind /\ tx'[s].user = tx[s].user
      /\ \A s \in Tx \ {t} : tx'[s] = tx[s]
  BY StatusUpdate DEF TypeOK, Statuses
<1>2. RowsInv'
  BY <1>1 DEF LedgerInv, RowsInv
<1>3. NoLostCredit'
  BY <1>1 DEF LedgerInv, NoLostCredit
<1>4. NoUnpaidCredit'
  BY <1>1 DEF LedgerInv, NoUnpaidCredit, Credited
<1>5. QED BY <1>2, <1>3, <1>4 DEF LedgerInv

\* A transaction that becomes SUCCESS with an increment of its owner's balance.
LEMMA LedgerSettles ==
    ASSUME TypeOK, LedgerInv, NEW t \in Tx, tx[t].status # "NONE", tx[t].user \in Users,
           tx[t].kind \in ClickKinds => t \in charged, charged \subseteq charged',
           SetTxStatus(t, "SUCCESS"), Increment(tx[t].user, t)
    PROVE  LedgerInv'
<1> DEFINE u == tx[t].user
<1>1. /\ tx'[t].status = "SUCCESS"
      /\ \A s \in Tx : tx'[s].kind = tx[s].kind /\ tx'[s].user = tx[s].user
      /\ \A s \in Tx \ {t} : tx'[s] = tx[s]
  BY StatusUpdate DEF TypeOK, Statuses
<1>2. /\ balance'[u][t] = balance[u][t] + 1
      /\ \A v \in Users, s \in Tx : v # u \/ s # t => balance'[v][s] = balance[v][s]
      /\ \A v \in Users, s \in Tx : balance[v][s] \in Nat
  BY OneCredit DEF TypeOK, Sums
<1>3. RowsInv'
  BY <1>1, <1>2 DEF LedgerInv, RowsInv
<1>4. NoLostCredit'
  BY <1>1, <1>2 DEF LedgerInv, NoLostCredit, RowsInv
<1>5. NoUnpaidCredit'
  BY <1>1, <1>2 DEF LedgerInv, NoUnpaidCredit, Credited
<1>6. QED BY <1>3, <1>4, <1>5 DEF LedgerInv

\* A row inserted as PENDING is in no balance.
LEMMA LedgerOpens ==
    ASSUME TypeOK, LedgerInv, NEW t \in Tx, NEW u \in Users, NEW kind \in Kinds \ {"none"},
           InsertTx(t, u, kind, "PENDING"), UNCHANGED balance, charged \subseteq charged'
    PROVE  LedgerInv'
<1>1. \A v \in Users : balance[v][t] = 0
  BY DEF LedgerInv, RowsInv, TypeOK, Sums, InsertTx
<1>2. /\ tx'[t].status = "PENDING"
      /\ tx'[t].kind = kind
      /\ tx'[t].user = u
      /\ \A s \in Tx \ {t} : tx'[s] = tx[s]
  BY RowInsert DEF TypeOK, Statuses
<1>3. RowsInv'
  BY <1>1, <1>2 DEF LedgerInv, RowsInv
<1>4. NoLostCredit'
  BY <1>1, <1>2 DEF LedgerInv, NoLostCredit
<1>5. NoUnpaidCredit'
  BY <1>1, <1>2 DEF LedgerInv, NoUnpaidCredit, Credited
<1>6. QED BY <1>3, <1>4, <1>5 DEF LedgerInv

\* A deposit or refund that commits enters its row and its credit together.
LEMMA LedgerEnters ==
    ASSUME TypeOK, LedgerInv, RequestsInv, NEW r \in Reqs, NEW t \in Tx, CommitEntry(r, t)
    PROVE  LedgerInv'
<1> DEFINE u == req[r].user
<1>1. u \in Users /\ req[r].pc \in {"deposit", "refund"}
  BY DEF CommitEntry, RequestsInv, RequestOK, WalletSteps
<1>2. /\ tx' \in [Tx -> TxRows]
      /\ tx[t].status = "NONE"
      /\ tx'[t].status = "SUCCESS"
      /\ tx'[t].kind = req[r].pc
      /\ tx'[t].user = u
      /\ \A s \in Tx \ {t} : tx'[s] = tx[s]
  BY <1>1, RowInsert DEF CommitEntry, Kinds, Statuses, TypeOK
<1>3. /\ balance'[u][t] = balance[u][t] + 1
      /\ \A v \in Users, s \in Tx : v # u \/ s # t => balance'[v][s] = balance[v][s]
  BY <1>1 DEF CommitEntry, NoConflict, WalletRow, TypeOK, Sums
<1>4. \A v \in Users : balance[v][t] = 0
  BY <1>2 DEF LedgerInv, RowsInv, TypeOK, Sums
<1>5. RowsInv'
  BY <1>1, <1>2, <1>3, <1>4 DEF LedgerInv, RowsInv, TypeOK, Sums
<1>6. NoLostCredit'
  BY <1>1, <1>2, <1>3, <1>4 DEF LedgerInv, RowsInv, NoLostCredit, TypeOK, Sums
<1>7. NoUnpaidCredit'
  BY <1>1, <1>2, <1>3, <1>4 DEF LedgerInv, NoUnpaidCredit, Credited, ClickKinds, CommitEntry
<1>8. QED BY <1>5, <1>6, <1>7 DEF LedgerInv

\* A step that writes neither rows nor balances.
LEMMA LedgerFrame ==
    ASSUME LedgerInv, UNCHANGED <<tx, balance>>, charged \subseteq charged'
    PROVE  LedgerInv'
BY DEF LedgerInv, RowsInv, NoLostCredit, NoUnpaidCredit, Credited

\* Every step keeps the ledger.
LEMMA NextLedger ==
    ASSUME TypeOK, LedgerInv, PaymentsInv, RequestsInv, [Next]_vars
    PROVE  LedgerInv'
<1>0. RowsInv /\ charged \subseteq charged'
  BY NextStable DEF LedgerInv, Stable
<1>1. ASSUME NEW r \in Reqs, HandlerStep(r) PROVE LedgerInv'
  <2>1. CASE PrepareAccepts(r) \/ PrepareRefuses(r) \/ PrepareStores(r) \/ PrepareConflicts(r)
    BY <1>0, <2>1, LedgerFrame DEF PrepareAccepts, PrepareRefuses, PrepareStores, PrepareConflicts
  <2>2. CASE CompleteProceeds(r) \/ CompleteRefuses(r) \/ CancelsClickTx(r)
    BY <1>0, <2>2, LedgerFrame DEF CompleteProceeds, CompleteRefuses, CancelsClickTx
  <2>3. CASE CancelsTx(r)
    BY <1>0, <2>3, LedgerUnpaid, WebhookTx DEF CancelsTx, CompleteSteps
  <2>4. CASE AppliesPayment(r)
    BY <1>0, <2>4, LedgerSettles, WebhookTx, CompletedRow DEF AppliesPayment, CompleteSteps
  <2>5. CASE CardCharged(r) \/ CardDeclined(r) \/ FetchThrows(r)
    BY <1>0, <2>5, LedgerFrame DEF CardCharged, CardDeclined, FetchThrows
  <2>6. CASE FailsTokenPayment(r)
    BY <1>0, <2>6, LedgerUnpaid, TokenTx DEF FailsTokenPayment, TokenSteps
  <2>7. CASE SettlesTokenPayment(r)
    BY <1>0, <2>7, LedgerSettles, TokenTx DEF SettlesTokenPayment, TokenSteps
  <2>8. CASE AbortEntry(r) \/ WalletCreate(r)
    BY <1>0, <2>8, LedgerFrame DEF AbortEntry, WalletCreate
  <2>9. ASSUME NEW t \in Tx, CommitEntry(r, t) PROVE LedgerInv'
    BY <2>9, LedgerEnters
  <2>10. QED BY <1>1, <2>1, <2>2, <2>3, <2>4, <2>5, <2>6, <2>7, <2>8, <2>9 DEF HandlerStep
<1>2. ASSUME NEW r \in Reqs, Called(r) PROVE LedgerInv'
  <2>1. ASSUME NEW u \in Users, NEW t \in Tx, PayWithToken(r, u, t) PROVE LedgerInv'
    BY <1>0, <2>1, LedgerOpens DEF PayWithToken, Kinds
  <2>2. CASE UNCHANGED <<tx, balance>>
    BY <1>0, <2>2, LedgerFrame
  <2>3. QED BY <1>2, <2>1, <2>2 DEF Called, BeginEntry, WalletMissing
<1>3. ASSUME NEW c \in Clicks, ClickStep(c) PROVE LedgerInv'
  BY <1>0, <1>3, LedgerFrame
     DEF ClickStep, OpenPayment, SendPrepare, SendComplete, Deliver, TakeMoney, CancelPayment
<1>4. ASSUME NEW u \in Users, NEW t \in Tx, GenerateInvoice(u, t) PROVE LedgerInv'
  BY <1>0, <1>4, LedgerOpens DEF GenerateInvoice, Kinds
<1>5. CASE Crash \/ (\E r \in Reqs : DropConnection(r)) \/ UNCHANGED vars
  BY <1>0, <1>5, LedgerFrame DEF Crash, DropConnection, vars
<1>6. QED BY <1>1, <1>2, <1>3, <1>4, <1>5 DEF Next

-----------------------------------------------------------------------------
(* Click's payments and the rows that stand for them.                      *)

\* A step that writes neither payments nor ClickTransaction rows.
LEMMA PaymentsFrame ==
    ASSUME RowsInv, PaymentsInv, Stable, UNCHANGED <<click, clickTx>>
    PROVE  PaymentsInv'
BY DEF RowsInv, NoTx, PaymentsInv, OneRowPerTx, PaymentOK, Stable

\* An answer that refuses or closes a payment.
LEMMA PaymentsEnd ==
    ASSUME TypeOK, RowsInv, PaymentsInv, Stable, NEW c, NEW from \in SUBSET (Phases \ {"new"}),
           NEW to \in {"refused", "closed"}, Answer(c, from, to),
           \A d \in Clicks :
               /\ clickTx'[d].tx = clickTx[d].tx
               /\ clickTx'[d].status = "absent" <=> clickTx[d].status = "absent"
    PROVE  PaymentsInv'
<1>1. \A d \in Clicks :
         /\ click'[d].tx = click[d].tx
         /\ click'[d].phase = "new" => click[d].phase = "new"
         /\ click[d].phase = "new" => click'[d].phase = "new"
         /\ click'[d].phase \in {"approved", "paid"} => click'[d].phase = click[d].phase
  BY AnswerPhase DEF TypeOK, Phases
<1>2. QED BY <1>1 DEF RowsInv, NoTx, PaymentsInv, OneRowPerTx, PaymentOK, Stable

\* Prepare approves a payment whose row it stores or finds.
LEMMA PaymentsStore ==
    ASSUME TypeOK, RowsInv, PaymentsInv, RequestsInv, Stable, NEW r \in Reqs, PrepareStores(r)
    PROVE  PaymentsInv'
<1> DEFINE c == req[r].click
<1> DEFINE t == req[r].tx
<1>1. c \in Clicks /\ t \in Tx /\ t = click[c].tx /\ click[c].phase # "new" /\ t # None
  BY WebhookTypes, NoneAssumption DEF PrepareStores, PrepareSteps, RequestsInv, RequestOK, WebhookOK
<1>2. \A d \in Clicks :
         /\ click'[d].tx = click[d].tx
         /\ click'[d].phase = "new" <=> click[d].phase = "new"
         /\ click'[d].phase = "paid" => click[d].phase = "paid"
         /\ click'[d].phase = "approved" => click[d].phase = "approved" \/ d = c
  BY AnswerPhase DEF PrepareStores, TypeOK, Phases
<1>3. clickTx[c].tx \in {None, t}
  BY <1>1 DEF PaymentsInv, PaymentOK
<1>4. clickTx[c].tx = None <=> clickTx[c] = NoClickTx
  BY <1>1 DEF PaymentsInv, PaymentOK, NoClickTx, TypeOK, ClickTxRows
<1>5. /\ clickTx'[c].tx = t
      /\ clickTx'[c].status # "absent"
      /\ \A d \in Clicks \ {c} : clickTx'[d] = clickTx[d] /\ clickTx[d].tx # t
  <2>1. \A d \in Clicks \ {c} : clickTx[d].tx # t
    BY DEF PrepareStores, MayStore
  <2>2. CASE clickTx[c] = NoClickTx
    BY <1>1, <2>1, <2>2 DEF PrepareStores, NewClickTx, TypeOK
  <2>3. CASE clickTx[c] # NoClickTx
    <3>1. clickTx' = clickTx
      BY <2>3 DEF PrepareStores
    <3>2. clickTx[c].tx = t /\ clickTx[c].status # "absent"
      BY <1>1, <1>3, <1>4, <2>3 DEF PaymentsInv, PaymentOK
    <3>3. QED BY <2>1, <3>1, <3>2
  <2>4. QED BY <2>2, <2>3
<1>6. OneRowPerTx'
  BY <1>5 DEF PaymentsInv, OneRowPerTx
<1>7. ASSUME NEW d \in Clicks PROVE PaymentOK(d)'
  BY <1>1, <1>2, <1>5, <1>7 DEF RowsInv, NoTx, PaymentsInv, PaymentOK, Stable
<1>8. QED BY <1>6, <1>7 DEF PaymentsInv

\* Every step keeps the payments and their rows together.
LEMMA NextPayments ==
    ASSUME TypeOK, RowsInv, PaymentsInv, RequestsInv, [Next]_vars
    PROVE  PaymentsInv'
<1>0. Stable
  BY NextStable
<1>1. ASSUME NEW r \in Reqs, HandlerStep(r) PROVE PaymentsInv'
  <2>1. CASE UNCHANGED <<click, clickTx>>
    BY <1>0, <2>1, PaymentsFrame
  <2>2. CASE PrepareRefuses(r)
    BY <1>0, <2>2, PaymentsEnd DEF PrepareRefuses, Phases
  <2>3. CASE PrepareStores(r)
    BY <1>0, <2>3, PaymentsStore
  <2>4. CASE CompleteRefuses(r)
    BY <1>0, <2>4, PaymentsEnd DEF CompleteRefuses, AnswerComplete, Phases
  <2>5. CASE CancelsClickTx(r)
    <3>1. \A d \in Clicks :
             /\ clickTx'[d].tx = clickTx[d].tx
             /\ clickTx'[d].status = "absent" <=> clickTx[d].status = "absent"
      <4>1. ASSUME NEW d \in Clicks, clickTx[d].status = "absent" PROVE clickTx[d] = NoClickTx
        BY <4>1 DEF PaymentsInv, PaymentOK, NoClickTx, TypeOK, ClickTxRows
      <4>2. QED BY <2>5, <4>1 DEF CancelsClickTx, TypeOK, ClickTxRows, NoClickTx
    <3>2. QED BY <1>0, <2>5, <3>1, PaymentsEnd DEF CancelsClickTx, AnswerComplete, Phases
  <2>6. CASE AppliesPayment(r)
    <3>1. req[r].click \in Clicks /\ req[r].tx \in Tx /\ clickTx[req[r].click].tx = req[r].tx
      BY <2>6, CompletedRow, WebhookTypes DEF AppliesPayment, CompleteSteps
    <3>2. \A d \in Clicks :
             /\ clickTx'[d].tx = clickTx[d].tx
             /\ clickTx'[d].status = "absent" <=> clickTx[d].status = "absent"
      BY <2>6, <3>1, NoneAssumption DEF AppliesPayment, CompletedClickTx, PaymentsInv, PaymentOK, TypeOK
    <3>3. QED BY <1>0, <2>6, <3>2, PaymentsEnd DEF AppliesPayment, AnswerComplete, Phases
  <2>7. QED
    BY <1>1, <2>1, <2>2, <2>3, <2>4, <2>5, <2>6
       DEF HandlerStep, PrepareAccepts, PrepareConflicts, CompleteProceeds, CancelsTx, CardCharged,
           CardDeclined, FetchThrows, FailsTokenPayment, SettlesTokenPayment, AbortEntry,
           WalletCreate, CommitEntry
<1>2. ASSUME NEW r \in Reqs, Called(r) PROVE PaymentsInv'
  BY <1>0, <1>2, PaymentsFrame DEF Called, PayWithToken, BeginEntry, WalletMissing
<1>3. ASSUME NEW c \in Clicks, ClickStep(c) PROVE PaymentsInv'
  <2>1. ASSUME NEW t \in Tx, NEW valid \in BOOLEAN, OpenPayment(c, t, valid)
        PROVE PaymentsInv'
    <3>1. /\ click'[c].phase = "preparing" /\ click'[c].tx = t
          /\ \A d \in Clicks \ {c} : click'[d] = click[d]
          /\ click[c].phase = "new"
          /\ tx[t].kind = "invoice"
      BY <2>1 DEF OpenPayment, TypeOK
    <3>2. UNCHANGED <<tx, clickTx, charged>>
      BY <2>1 DEF OpenPayment
    <3>3. QED BY <3>1, <3>2 DEF PaymentsInv, OneRowPerTx, PaymentOK
  <2>2. CASE TakeMoney(c) \/ CancelPayment(c)
    <3>1. /\ \A d \in Clicks \ {c} : click'[d] = click[d]
          /\ click'[c].tx = click[c].tx
          /\ click[c].phase # "new"
          /\ \/ click'[c].phase = "cancelled"
             \/ /\ click'[c].phase = "paid"
                /\ click[c].phase = "approved"
                /\ click[c].tx \in charged'
          /\ charged \subseteq charged'
      BY <2>2 DEF TakeMoney, CancelPayment, TypeOK, Payments
    <3>2. UNCHANGED <<tx, clickTx>>
      BY <2>2 DEF TakeMoney, CancelPayment
    <3>3. QED BY <3>1, <3>2 DEF PaymentsInv, OneRowPerTx, PaymentOK
  <2>3. CASE UNCHANGED <<click, clickTx>>
    BY <1>0, <2>3, PaymentsFrame
  <2>4. QED BY <1>3, <2>1, <2>2, <2>3 DEF ClickStep, SendPrepare, SendComplete, Deliver
<1>4. CASE \/ Crash \/ UNCHANGED vars
           \/ \E r \in Reqs : DropConnection(r)
           \/ \E u \in Users, t \in Tx : GenerateInvoice(u, t)
  BY <1>0, <1>4, PaymentsFrame DEF Crash, DropConnection, GenerateInvoice, vars
<1>5. QED BY <1>1, <1>2, <1>3, <1>4 DEF Next

-----------------------------------------------------------------------------
(* The requests in flight.                                                 *)

BaseInv == TypeOK /\ RowsInv /\ PaymentsInv /\ RequestsInv

\* A request that does not move still holds what it should.
LEMMA RequestKept ==
    ASSUME BaseInv, Stable, NEW r \in Reqs, req'[r] = req[r]
    PROVE  RequestOK(req[r])'
<1>1. RequestOK(req[r])
  BY DEF BaseInv, RequestsInv
<1>2. CASE req[r].pc \in PrepareSteps \cup CompleteSteps
  <2>1. WebhookOK(req[r])
    BY <1>1, <1>2 DEF RequestOK
  <2>2. req[r].paid => req[r].tx # None
    BY <2>1, NoneAssumption DEF WebhookOK, BaseInv, TypeOK
  <2>3. WebhookOK(req[r])'
    BY <2>1, <2>2 DEF WebhookOK, Stable
  <2>4. QED BY <1>2, <2>3 DEF RequestOK, PrepareSteps, CompleteSteps, TokenSteps, WalletSteps
<1>3. CASE req[r].pc \in TokenSteps
  <2>1. TokenPaymentOK(req[r]) /\ tx[req[r].tx].status # "NONE"
    BY <1>1, <1>3 DEF RequestOK, TokenPaymentOK, BaseInv, RowsInv, NoTx
  <2>2. TokenPaymentOK(req[r])'
    BY <2>1 DEF TokenPaymentOK, Stable
  <2>3. QED BY <1>3, <2>2 DEF RequestOK, PrepareSteps, CompleteSteps, TokenSteps, WalletSteps
<1>4. CASE req[r].pc \notin PrepareSteps \cup CompleteSteps \cup TokenSteps
  BY <1>1, <1>4 DEF RequestOK
<1>5. QED BY <1>2, <1>3, <1>4

\* Only one slot moves.
LEMMA OneSlot ==
    ASSUME BaseInv, Stable, NEW r \in Reqs, \A q \in Reqs \ {r} : req'[q] = req[q],
           RequestOK(req[r])'
    PROVE  RequestsInv'
<1>1. ASSUME NEW q \in Reqs \ {r} PROVE RequestOK(req[q])'
  BY <1>1, RequestKept
<1>2. QED BY <1>1 DEF RequestsInv

LEMMA RequestsFrame ==
    ASSUME BaseInv, Stable, UNCHANGED req
    PROVE  RequestsInv'
BY RequestKept DEF RequestsInv

LEMMA RequestsEnd ==
    ASSUME BaseInv, Stable, NEW r \in Reqs, Ends(r)
    PROVE  RequestsInv'
<1>1. req'[r] = Idle /\ \A q \in Reqs \ {r} : req'[q] = req[q]
  BY EndsSlot DEF BaseInv, TypeOK
<1>2. RequestOK(req[r])'
  BY <1>1 DEF RequestOK, Idle, Request, PrepareSteps, CompleteSteps, TokenSteps, WalletSteps
<1>3. QED BY <1>1, <1>2, OneSlot

\* A webhook's handler goes on to its next step.
LEMMA WebhookContinues ==
    ASSUME BaseInv, Stable, NEW r \in Reqs, req[r].pc \in PrepareSteps \cup CompleteSteps,
           NEW pc \in PrepareSteps \cup CompleteSteps, pc = "complete.apply" => req[r].paid,
           Continues(r, pc)
    PROVE  RequestsInv'
<1>1. /\ req'[r].pc = pc
      /\ req'[r].tx = req[r].tx
      /\ req'[r].click = req[r].click
      /\ req'[r].paid = req[r].paid
      /\ \A q \in Reqs \ {r} : req'[q] = req[q]
  BY ContinuesSlot DEF BaseInv, TypeOK, Steps
<1>2. WebhookOK(req[r]) /\ (req[r].paid => req[r].tx # None)
  BY NoneAssumption DEF BaseInv, TypeOK, RequestsInv, RequestOK, WebhookOK
<1>3. WebhookOK(req[r])'
  BY <1>1, <1>2 DEF WebhookOK, Stable
<1>4. RequestOK(req[r])'
  BY <1>1, <1>3 DEF RequestOK, PrepareSteps, CompleteSteps, TokenSteps, WalletSteps
<1>5. QED BY <1>1, <1>4, OneSlot

\* So does that of a card payment.
LEMMA TokenContinues ==
    ASSUME BaseInv, Stable, NEW r \in Reqs, req[r].pc \in TokenSteps, NEW pc \in TokenSteps,
           pc = "token.settle" => req[r].tx \in charged', Continues(r, pc)
    PROVE  RequestsInv'
<1>1. /\ req'[r].pc = pc
      /\ req'[r].tx = req[r].tx
      /\ req'[r].user = req[r].user
      /\ \A q \in Reqs \ {r} : req'[q] = req[q]
  BY ContinuesSlot DEF BaseInv, TypeOK, Steps
<1>2. TokenPaymentOK(req[r]) /\ tx[req[r].tx].status # "NONE"
  BY DEF BaseInv, RequestsInv, RequestOK, TokenPaymentOK, RowsInv, NoTx
<1>3. TokenPaymentOK(req[r])'
  BY <1>1, <1>2 DEF TokenPaymentOK, Stable
<1>4. RequestOK(req[r])'
  BY <1>1, <1>3 DEF RequestOK, PrepareSteps, CompleteSteps, TokenSteps, WalletSteps
<1>5. QED BY <1>1, <1>4, OneSlot

\* A call of the application that holds no transaction yet.
LEMMA WalletStarts ==
    ASSUME BaseInv, Stable, NEW r \in Reqs, NEW u \in Users, NEW pc \in WalletSteps,
           NEW seen \in Snapshots,
           req' = [req EXCEPT ![r] = Request(pc, u, None, None, FALSE, seen)]
    PROVE  RequestsInv'
<1>1. /\ req'[r].pc = pc
      /\ req'[r].user = u
      /\ \A q \in Reqs \ {r} : req'[q] = req[q]
  <2>1. req'[r] = Request(pc, u, None, None, FALSE, seen)
    BY DEF BaseInv, TypeOK
  <2>2. req'[r].pc = pc /\ req'[r].user = u
    BY <2>1 DEF Request
  <2>3. \A q \in Reqs \ {r} : req'[q] = req[q]
    BY DEF BaseInv, TypeOK
  <2>4. QED BY <2>2, <2>3
<1>2. RequestOK(req[r])'
  BY <1>1 DEF RequestOK, PrepareSteps, CompleteSteps, TokenSteps, WalletSteps
<1>3. QED BY <1>1, <1>2, OneSlot

\* Click sends a webhook that is true to its payment.
LEMMA WebhookStarts ==
    ASSUME BaseInv, Stable, NEW r \in Reqs, NEW c \in Clicks, click[c].phase # "new",
           NEW pc \in {"prepare", "complete"}, NEW paid \in BOOLEAN,
           paid => click[c].phase = "paid", Deliver(r, c, pc, paid)
    PROVE  RequestsInv'
<1>1. /\ req'[r].pc = pc
      /\ req'[r].tx = click[c].tx
      /\ req'[r].click = c
      /\ req'[r].paid = paid
      /\ \A q \in Reqs \ {r} : req'[q] = req[q]
  <2>1. /\ req'[r] = Request(pc, None, click[c].tx, c, paid, NoRow)
        /\ \A q \in Reqs \ {r} : req'[q] = req[q]
    BY DEF Deliver, BaseInv, TypeOK
  <2>2. pc \in Steps
    BY DEF Steps, PrepareSteps, CompleteSteps
  <2>3. click[c].tx \in Tx \cup {None}
    BY DEF BaseInv, TypeOK, Payments
  <2>4. QED BY <2>1, <2>2, <2>3, Constructors, RequestFields
<1>2. UNCHANGED <<click, clickTx, charged>>
  BY DEF Deliver
<1>3. paid => click[c].tx \in charged /\ clickTx[c].tx = click[c].tx
  BY DEF BaseInv, PaymentsInv, PaymentOK
<1>4. WebhookOK(req[r])'
  BY <1>1, <1>2, <1>3 DEF WebhookOK
<1>5. RequestOK(req[r])'
  BY <1>1, <1>4 DEF RequestOK, PrepareSteps, CompleteSteps, TokenSteps, WalletSteps
<1>6. QED BY <1>1, <1>5, OneSlot

\* A card payment starts with its own transaction.
LEMMA TokenStarts ==
    ASSUME BaseInv, Stable, NEW r \in Reqs, NEW u \in Users, NEW t \in Tx, PayWithToken(r, u, t)
    PROVE  RequestsInv'
<1>1. /\ req'[r] = Request("token.fetch", u, t, None, FALSE, NoRow)
      /\ \A q \in Reqs \ {r} : req'[q] = req[q]
  BY DEF PayWithToken, BaseInv, TypeOK
<1>2. tx'[t].kind = "token" /\ tx'[t].user = u
  BY RowInsert DEF PayWithToken, BaseInv, TypeOK, Statuses, Kinds
<1>3. RequestOK(req[r])'
  BY <1>1, <1>2 DEF RequestOK, TokenPaymentOK, Request, PrepareSteps, CompleteSteps, TokenSteps,
     WalletSteps
<1>4. QED BY <1>1, <1>3, OneSlot

\* Every step leaves the requests in flight with what they should hold.
LEMMA NextRequests ==
    ASSUME BaseInv, [Next]_vars
    PROVE  RequestsInv'
<1>0. Stable
  BY NextStable DEF BaseInv
<1>1. ASSUME NEW r \in Reqs, HandlerStep(r) PROVE RequestsInv'
  <2>1. CASE Ends(r)
    BY <1>0, <2>1, RequestsEnd
  <2>2. CASE PrepareAccepts(r) \/ PrepareConflicts(r) \/ CompleteProceeds(r) \/ CancelsTx(r)
    BY <1>0, <2>2, WebhookContinues
       DEF PrepareAccepts, PrepareConflicts, CompleteProceeds, NextOfComplete, CancelsTx,
           PrepareSteps, CompleteSteps
  <2>3. CASE CardCharged(r) \/ CardDeclined(r)
    <3>1. req[r].tx \in charged' \/ CardDeclined(r)
      BY <2>3 DEF CardCharged
    <3>2. QED BY <1>0, <2>3, <3>1, TokenContinues DEF CardCharged, CardDeclined, TokenSteps
  <2>4. QED
    BY <1>1, <2>1, <2>2, <2>3
       DEF HandlerStep, PrepareRefuses, PrepareStores, CompleteRefuses, CancelsClickTx,
           AppliesPayment, FetchThrows, FailsTokenPayment, SettlesTokenPayment, AbortEntry,
           WalletCreate, CommitEntry
<1>2. ASSUME NEW r \in Reqs, Called(r) PROVE RequestsInv'
  <2>1. ASSUME NEW u \in Users, NEW t \in Tx, PayWithToken(r, u, t) PROVE RequestsInv'
    BY <1>0, <2>1, TokenStarts
  <2>2. ASSUME NEW u \in Users, NEW kind \in {"deposit", "refund"}, BeginEntry(r, u, kind)
        PROVE RequestsInv'
    <3>1. WalletRow(u) \in Snapshots
      BY DEF WalletRow, Snapshots, BaseInv, TypeOK
    <3>2. QED BY <1>0, <2>2, <3>1, WalletStarts DEF BeginEntry, WalletSteps
  <2>3. ASSUME NEW u \in Users, WalletMissing(r, u) PROVE RequestsInv'
    BY <1>0, <2>3, WalletStarts, Constructors DEF WalletMissing, WalletSteps
  <2>4. QED BY <1>2, <2>1, <2>2, <2>3 DEF Called
<1>3. ASSUME NEW c \in Clicks, ClickStep(c) PROVE RequestsInv'
  <2>1. ASSUME NEW r \in Reqs, SendPrepare(r, c) PROVE RequestsInv'
    BY <1>0, <2>1, WebhookStarts DEF SendPrepare
  <2>2. ASSUME NEW r \in Reqs, SendComplete(r, c) PROVE RequestsInv'
    BY <1>0, <2>2, WebhookStarts DEF SendComplete
  <2>3. CASE UNCHANGED req
    BY <1>0, <2>3, RequestsFrame
  <2>4. QED BY <1>3, <2>1, <2>2, <2>3 DEF ClickStep, OpenPayment, TakeMoney, CancelPayment
<1>4. ASSUME NEW r \in Reqs, DropConnection(r) PROVE RequestsInv'
  BY <1>0, <1>4, RequestsEnd DEF DropConnection
<1>5. CASE UNCHANGED vars \/ \E u \in Users, t \in Tx : GenerateInvoice(u, t)
  BY <1>0, <1>5, RequestsFrame DEF GenerateInvoice, vars
<1>6. CASE Crash
  <2>1. ASSUME NEW r \in Reqs PROVE RequestOK(req[r])'
    BY <1>6 DEF Crash, RequestOK, Idle, Request, PrepareSteps, CompleteSteps, TokenSteps,
       WalletSteps
  <2>2. QED BY <2>1 DEF RequestsInv
<1>7. QED BY <1>1, <1>2, <1>3, <1>4, <1>5, <1>6 DEF Next

-----------------------------------------------------------------------------
(* The theorems.                                                           *)

LEMMA InitBilling == Init => BillingInv
<1> SUFFICES ASSUME Init PROVE BillingInv
  OBVIOUS
<1>1. TypeOK
  BY InitTypeOK
<1>2. RowsInv /\ NoLostCredit /\ NoUnpaidCredit
  BY DEF Init, RowsInv, NoLostCredit, NoUnpaidCredit, Credited, NoTx, NoSum, ClickKinds
<1>3. PaymentsInv
  BY DEF Init, PaymentsInv, OneRowPerTx, PaymentOK, NoPayment, NoClickTx
<1>4. RequestsInv
  BY DEF Init, RequestsInv, RequestOK, Idle, Request, PrepareSteps, CompleteSteps, TokenSteps,
     WalletSteps
<1>5. QED BY <1>1, <1>2, <1>3, <1>4 DEF BillingInv

LEMMA NextBilling == BillingInv /\ [Next]_vars => BillingInv'
BY NextTypeOK, NextLedger, NextPayments, NextRequests DEF BillingInv, LedgerInv, BaseInv

\* The inductive invariant of billing holds whatever overlaps, gets lost,
\* repeats or restarts.
THEOREM BillingInvariant == Spec => []BillingInv
BY InitBilling, NextBilling, PTL DEF Spec

\* Every row, payment and request in flight has its type.
THEOREM TypeCorrect == Spec => []TypeOK
BY BillingInvariant, PTL DEF BillingInv

\* No credit is lost: a transaction recorded as SUCCESS is in its owner's
\* balance, though deposits and refunds write balances they read earlier.
THEOREM NothingIsLost == Spec => []NoLostCredit
BY BillingInvariant, PTL DEF BillingInv

\* A Click top-up in a balance has been paid to Click.
THEOREM NothingIsUnpaid == Spec => []NoUnpaidCredit
BY BillingInvariant, PTL DEF BillingInv

\* However prepare handlers race, one invoice has one payment that may take
\* money.
THEOREM OneCharge == Spec => []OnePaymentPerInvoice
<1>1. BillingInv => OnePaymentPerInvoice
  BY NoneAssumption DEF BillingInv, PaymentsInv, OneRowPerTx, PaymentOK, OnePaymentPerInvoice
<1>2. QED BY <1>1, BillingInvariant, PTL
=============================================================================
