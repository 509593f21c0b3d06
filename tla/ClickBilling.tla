---------------------------- MODULE ClickBilling ----------------------------
(***************************************************************************)
(* The money path of the backend: wallet top-ups through Click (invoice    *)
(* link with its Prepare and Complete webhooks, payment with a saved       *)
(* card), direct deposits and administrator's refunds, and the first read  *)
(* of a wallet.  Source: modules/click and modules/wallet, with the tables *)
(* Wallet, WalletTransaction and ClickTransaction of prisma/schema.prisma. *)
(*                                                                         *)
(* A request in flight occupies a slot of Reqs; between two of its awaits  *)
(* every other request may run.  What a handler read before an await is in *)
(* its slot, not looked up again.  A balance is a formal sum (see          *)
(* WalletLedger).                                                          *)
(*                                                                         *)
(* Click is outside the repository and modelled from how the webhooks use  *)
(* it: it asks Prepare, repeats it when no answer arrives, takes the       *)
(* money only after answer 0, and tells the outcome with Complete until it *)
(* is answered.  Answers may be lost.  Overlap says whether it may send a  *)
(* webhook for a transaction while another one for it is being handled.    *)
(*                                                                         *)
(* Left out: webhooks about the payment of a card, which carry no          *)
(* transaction and are answered 0 without a look at the tables, and        *)
(* statements that fail for no reason of the handlers'.                    *)
(***************************************************************************)
EXTENDS Naturals

CONSTANTS Users, Tx, Clicks, Reqs, \* users, WalletTransaction ids, click_trans_ids, slots
          None,                    \* no user, no transaction, no click
          Overlap,                 \* webhooks of one transaction may overlap
          MaxCrashes               \* bound on the restarts of the server

ASSUME NoneAssumption == None \notin Users \cup Tx \cup Clicks
ASSUME OverlapAssumption == Overlap \in BOOLEAN
ASSUME MaxCrashesAssumption == MaxCrashes \in Nat

VARIABLES wallets,   \* users who have a Wallet row
          balance,   \* balance[u][t]: how often t is in the balance of u
          tx,        \* WalletTransaction rows
          clickTx,   \* ClickTransaction rows: status 0, 1, -1 or absent
          req,       \* the requests in flight
          click,     \* Click's side of every payment
          charged,   \* transactions Click has taken the money for
          crashes

vars == <<wallets, balance, tx, clickTx, req, click, charged, crashes>>

NoSum == [t \in Tx |-> 0]

\* Rows, requests and payments that do not exist yet.
NoTx == [status |-> "NONE", kind |-> "none", user |-> None]
NoClickTx == [status |-> "absent", tx |-> None]
NoPayment == [phase |-> "new", tx |-> None, valid |-> FALSE]

\* A request at step pc, with the variables its handler holds there.
Request(pc, u, t, c, paid, seen) ==
    [pc |-> pc, user |-> u, tx |-> t, click |-> c, paid |-> paid, seen |-> seen]

NoRow == <<0, NoSum>>
Idle == Request("idle", None, None, None, FALSE, NoRow)

\* The Wallet rows of u as a statement sees them: how many (userId is unique),
\* and the balance.
WalletRow(u) == <<IF u \in wallets THEN 1 ELSE 0, balance[u]>>

Statuses == {"NONE", "PENDING", "SUCCESS", "FAILED"}
Kinds == {"none", "invoice", "token", "deposit", "refund"}
Phases == {"new", "preparing", "approved", "refused", "paid", "cancelled", "closed"}
PrepareSteps == {"prepare", "prepare.store", "prepare.hung"}
CompleteSteps == {"complete", "complete.cancel", "complete.cancelClick", "complete.apply"}
TokenSteps == {"token.fetch", "token.fail", "token.settle"}
WalletSteps == {"deposit", "refund", "wallet.create"}
Steps == {"idle"} \cup PrepareSteps \cup CompleteSteps \cup TokenSteps \cup WalletSteps

Sums == [Tx -> Nat]
Snapshots == {0, 1} \X Sums

TxRows == [status : Statuses, kind : Kinds, user : Users \cup {None}]
ClickTxRows == [status : {"absent", "0", "1", "-1"}, tx : Tx \cup {None}]
Payments == [phase : Phases, tx : Tx \cup {None}, valid : BOOLEAN]
Requests == [pc : Steps, user : Users \cup {None}, tx : Tx \cup {None},
             click : Clicks \cup {None}, paid : BOOLEAN, seen : Snapshots]

TypeOK ==
    /\ wallets \subseteq Users
    /\ balance \in [Users -> Sums]
    /\ tx \in [Tx -> TxRows]
    /\ clickTx \in [Clicks -> ClickTxRows]
    /\ req \in [Reqs -> Requests]
    /\ click \in [Clicks -> Payments]
    /\ charged \subseteq Tx
    /\ crashes \in 0 .. MaxCrashes

Init ==
    /\ wallets = {}
    /\ balance = [u \in Users |-> NoSum]
    /\ tx = [t \in Tx |-> NoTx]
    /\ clickTx = [c \in Clicks |-> NoClickTx]
    /\ req = [r \in Reqs |-> Idle]
    /\ click = [c \in Clicks |-> NoPayment]
    /\ charged = {}
    /\ crashes = 0

-----------------------------------------------------------------------------
(* Steps shared by the handlers.                                           *)

Ends(r) == req' = [req EXCEPT ![r] = Idle]

Continues(r, pc) == req' = [req EXCEPT ![r].pc = pc]

InsertTx(t, u, kind, status) ==
    /\ tx[t].status = "NONE"
    /\ tx' = [tx EXCEPT ![t] = [status |-> status, kind |-> kind, user |-> u]]

SetTxStatus(t, status) == tx' = [tx EXCEPT ![t].status = status]

\* UPDATE "Wallet" SET balance = balance + amount: never loses an update.
Increment(u, t) == balance' = [balance EXCEPT ![u][t] = @ + 1]

\* An answer reaches Click and moves its payment on, or is lost on the way.
Answer(c, from, to) ==
    \/ UNCHANGED click
    \/ click[c].phase \in from /\ click' = [click EXCEPT ![c].phase = to]

AnswerComplete(c) == Answer(c, {"paid", "cancelled"}, "closed")

-----------------------------------------------------------------------------
(* Click, outside the repository.                                          *)

\* A user opens the invoice link of t; the signature, the id and the amount
\* Click sends are those of the invoice (valid) or not.
OpenPayment(c, t, valid) ==
    /\ click[c].phase = "new"
    /\ tx[t].kind = "invoice"
    /\ click' = [click EXCEPT ![c] = [phase |-> "preparing", tx |-> t, valid |-> valid]]
    /\ UNCHANGED <<wallets, balance, tx, clickTx, req, charged, crashes>>

\* Webhooks of transaction t being handled.
InHand(t) == {r \in Reqs : req[r].tx = t /\ req[r].pc \in PrepareSteps \cup CompleteSteps}

Deliver(r, c, pc, paid) ==
    /\ req[r] = Idle
    /\ Overlap \/ InHand(click[c].tx) = {}
    /\ req' = [req EXCEPT ![r] = Request(pc, None, click[c].tx, c, paid, NoRow)]
    /\ UNCHANGED <<wallets, balance, tx, clickTx, click, charged, crashes>>

SendPrepare(r, c) ==
    /\ click[c].phase = "preparing"
    /\ Deliver(r, c, "prepare", FALSE)

\* error >= 0 in the webhook means paid, error < 0 cancelled.
SendComplete(r, c) ==
    /\ click[c].phase \in {"paid", "cancelled"}
    /\ Deliver(r, c, "complete", click[c].phase = "paid")

\* The user pays a payment that Prepare has answered 0.
TakeMoney(c) ==
    /\ click[c].phase = "approved"
    /\ click' = [click EXCEPT ![c].phase = "paid"]
    /\ charged' = charged \cup {click[c].tx}
    /\ UNCHANGED <<wallets, balance, tx, clickTx, req, crashes>>

\* The user gives up, or Prepare was not answered in time.
CancelPayment(c) ==
    /\ click[c].phase \in {"preparing", "approved"}
    /\ click' = [click EXCEPT ![c].phase = "cancelled"]
    /\ UNCHANGED <<wallets, balance, tx, clickTx, req, charged, crashes>>

\* Click gives up a connection on which no answer will ever be sent.
DropConnection(r) ==
    /\ req[r].pc = "prepare.hung"
    /\ Ends(r)
    /\ UNCHANGED <<wallets, balance, tx, clickTx, click, charged, crashes>>

-----------------------------------------------------------------------------
(* The handlers of ClickService and WalletService.  An operator whose name *)
(* has an underscore is a defective variant of the one that follows it;    *)
(* no behaviour of Spec uses it (see the mutants in the README).           *)

\* The insert without its status: the column defaults to SUCCESS.
GenerateInvoice_DefaultStatus(u, t) ==
    /\ wallets' = wallets \cup {u}
    /\ InsertTx(t, u, "invoice", "SUCCESS")
    /\ UNCHANGED <<balance, clickTx, req, click, charged, crashes>>

\* generateInvoiceUrl: the upsert of the wallet and the insert of the
\* transaction write what no other handler reads in between, so they are one
\* step; the wallet alone is a state WalletCreate reaches as well.
GenerateInvoice(u, t) ==
    /\ wallets' = wallets \cup {u}
    /\ InsertTx(t, u, "invoice", "PENDING")
    /\ UNCHANGED <<balance, clickTx, req, click, charged, crashes>>

\* prepare, up to its read of the transaction and the checks on it.
PrepareAccepts(r) ==
    /\ req[r].pc = "prepare"
    /\ click[req[r].click].valid
    /\ tx[req[r].tx].status = "PENDING"
    /\ Continues(r, "prepare.store")
    /\ UNCHANGED <<wallets, balance, tx, clickTx, click, charged, crashes>>

\* It answers -1, -2, -4 or -5 and writes nothing.
PrepareRefuses(r) ==
    /\ req[r].pc = "prepare"
    /\ ~ (click[req[r].click].valid /\ tx[req[r].tx].status = "PENDING")
    /\ Ends(r)
    /\ Answer(req[r].click, {"preparing"}, "refused")
    /\ UNCHANGED <<wallets, balance, tx, clickTx, charged, crashes>>

\* merchantTransId is not unique.
MayStore_NotUnique(c, t) == TRUE

\* The unique merchantTransId leaves room for a row of click c on t.
MayStore(c, t) == \A d \in Clicks \ {c} : clickTx[d].tx # t

NewClickTx(c, t) == [status |-> "0", tx |-> t]

\* The upsert of the ClickTransaction: an existing row is left as it is.
PrepareStores(r) ==
    LET c == req[r].click  t == req[r].tx IN
    /\ req[r].pc = "prepare.store"
    /\ MayStore(c, t)
    /\ clickTx' = IF clickTx[c] = NoClickTx
                  THEN [clickTx EXCEPT ![c] = NewClickTx(c, t)]
                  ELSE clickTx
    /\ Ends(r)
    /\ Answer(c, {"preparing"}, "approved")
    /\ UNCHANGED <<wallets, balance, tx, charged, crashes>>

\* The insert breaks the unique merchantTransId: the controller catches the
\* error and returns an object, which @Res() never sends.
PrepareConflicts(r) ==
    /\ req[r].pc = "prepare.store"
    /\ ~ MayStore(req[r].click, req[r].tx)
    /\ Continues(r, "prepare.hung")
    /\ UNCHANGED <<wallets, balance, tx, clickTx, click, charged, crashes>>

\* No check for ALREADY PAID; a check for PENDING, as in prepare.
MayComplete_Always(t) == TRUE
MayComplete_Pending(t) == tx[t].status = "PENDING"

MayComplete(t) == tx[t].status # "SUCCESS"

\* The sign of error is not looked at.
NextOfComplete_Apply(paid) == "complete.apply"

NextOfComplete(paid) == IF paid THEN "complete.apply" ELSE "complete.cancel"

\* complete, up to its read of the transaction and the checks on it; the
\* status read here decides, whatever the row says when it is written.
CompleteProceeds(r) ==
    /\ req[r].pc = "complete"
    /\ click[req[r].click].valid
    /\ MayComplete(req[r].tx)
    /\ Continues(r, NextOfComplete(req[r].paid))
    /\ UNCHANGED <<wallets, balance, tx, clickTx, click, charged, crashes>>

\* It answers -1, -2, -4 or -5 and writes nothing.
CompleteRefuses(r) ==
    /\ req[r].pc = "complete"
    /\ ~ (click[req[r].click].valid /\ MayComplete(req[r].tx))
    /\ Ends(r)
    /\ AnswerComplete(req[r].click)
    /\ UNCHANGED <<wallets, balance, tx, clickTx, charged, crashes>>

\* error < 0: two updates outside any transaction.
CancelsTx(r) ==
    /\ req[r].pc = "complete.cancel"
    /\ SetTxStatus(req[r].tx, "FAILED")
    /\ Continues(r, "complete.cancelClick")
    /\ UNCHANGED <<wallets, balance, clickTx, click, charged, crashes>>

\* The update of a row that is not there throws, and the controller answers
\* -8 instead of -9.
CancelsClickTx(r) ==
    LET c == req[r].click IN
    /\ req[r].pc = "complete.cancelClick"
    /\ clickTx' = IF clickTx[c] = NoClickTx
                  THEN clickTx
                  ELSE [clickTx EXCEPT ![c].status = "-1"]
    /\ Ends(r)
    /\ AnswerComplete(c)
    /\ UNCHANGED <<wallets, balance, tx, charged, crashes>>

\* The upsert is left out of the $transaction.
CompletedClickTx_Missing(c, t) == clickTx

CompletedClickTx(c, t) == [clickTx EXCEPT ![c] = [status |-> "1", tx |-> t]]

\* The $transaction of complete: no look at the status, an increment of the
\* owner's balance, and an upsert that sets status 1 whether it updates the
\* row or inserts it.
AppliesPayment(r) ==
    LET c == req[r].click  t == req[r].tx IN
    /\ req[r].pc = "complete.apply"
    /\ SetTxStatus(t, "SUCCESS")
    /\ Increment(tx[t].user, t)
    /\ clickTx' = CompletedClickTx(c, t)
    /\ Ends(r)
    /\ AnswerComplete(c)
    /\ UNCHANGED <<wallets, charged, crashes>>

\* payWithToken, up to the request to Click, for a user whose card is
\* verified: wallet upsert and transaction insert, one step as above.
PayWithToken(r, u, t) ==
    /\ req[r] = Idle
    /\ wallets' = wallets \cup {u}
    /\ InsertTx(t, u, "token", "PENDING")
    /\ req' = [req EXCEPT ![r] = Request("token.fetch", u, t, None, FALSE, NoRow)]
    /\ UNCHANGED <<balance, clickTx, click, charged, crashes>>

\* Click charges the card and answers error_code 0.
CardCharged(r) ==
    /\ req[r].pc = "token.fetch"
    /\ charged' = charged \cup {req[r].tx}
    /\ Continues(r, "token.settle")
    /\ UNCHANGED <<wallets, balance, tx, clickTx, click, crashes>>

CardDeclined(r) ==
    /\ req[r].pc = "token.fetch"
    /\ Continues(r, "token.fail")
    /\ UNCHANGED <<wallets, balance, tx, clickTx, click, charged, crashes>>

\* fetch or res.json() throws, before or after Click has taken the money: the
\* catch block answers the user and leaves the transaction PENDING.
FetchThrows(r) ==
    /\ req[r].pc = "token.fetch"
    /\ charged' \in {charged, charged \cup {req[r].tx}}
    /\ Ends(r)
    /\ UNCHANGED <<wallets, balance, tx, clickTx, click, crashes>>

FailsTokenPayment(r) ==
    /\ req[r].pc = "token.fail"
    /\ SetTxStatus(req[r].tx, "FAILED")
    /\ Ends(r)
    /\ UNCHANGED <<wallets, balance, clickTx, click, charged, crashes>>

SettlesTokenPayment(r) ==
    LET t == req[r].tx IN
    /\ req[r].pc = "token.settle"
    /\ SetTxStatus(t, "SUCCESS")
    /\ Increment(req[r].user, t)
    /\ Ends(r)
    /\ UNCHANGED <<wallets, clickTx, click, charged, crashes>>

\* deposit and refundAdmin: the Serializable transaction takes its snapshot
\* of the Wallet row.
BeginEntry(r, u, kind) ==
    /\ req[r] = Idle
    /\ req' = [req EXCEPT ![r] = Request(kind, u, None, None, FALSE, WalletRow(u))]
    /\ UNCHANGED <<wallets, balance, tx, clickTx, click, charged, crashes>>

\* The default isolation level: the last writer wins.
NoConflict_ReadCommitted(r) == TRUE

\* Serializable: the database lets the transaction commit only if no other one
\* wrote the Wallet row since its snapshot.
NoConflict(r) == req[r].seen = WalletRow(req[r].user)

\* It writes the balance it read plus the amount.
CommitEntry(r, t) ==
    LET u == req[r].user  kind == req[r].pc IN
    /\ kind \in {"deposit", "refund"}
    /\ NoConflict(r)
    /\ wallets' = wallets \cup {u}
    /\ InsertTx(t, u, kind, "SUCCESS")
    /\ balance' = [balance EXCEPT ![u] = [req[r].seen[2] EXCEPT ![t] = @ + 1]]
    /\ Ends(r)
    /\ UNCHANGED <<clickTx, click, charged, crashes>>

\* A serialization failure: rolled back, not retried, 500 to the caller.
AbortEntry(r) ==
    /\ req[r].pc \in {"deposit", "refund"}
    /\ Ends(r)
    /\ UNCHANGED <<wallets, balance, tx, clickTx, click, charged, crashes>>

\* getOrCreateWallet finds no wallet ...
WalletMissing(r, u) ==
    /\ req[r] = Idle
    /\ u \notin wallets
    /\ req' = [req EXCEPT ![r] = Request("wallet.create", u, None, None, FALSE, NoRow)]
    /\ UNCHANGED <<wallets, balance, tx, clickTx, click, charged, crashes>>

\* ... and inserts one, or fails on the unique userId if one appeared.
WalletCreate(r) ==
    /\ req[r].pc = "wallet.create"
    /\ wallets' = wallets \cup {req[r].user}
    /\ Ends(r)
    /\ UNCHANGED <<balance, tx, clickTx, click, charged, crashes>>

\* The process stops and starts again: handlers are gone, open database
\* transactions rolled back, requests Click received may still take effect.
Crash ==
    /\ crashes < MaxCrashes
    /\ crashes' = crashes + 1
    /\ req' = [r \in Reqs |-> Idle]
    /\ \E taken \in SUBSET {req[r].tx : r \in {q \in Reqs : req[q].pc = "token.fetch"}} :
           charged' = charged \cup taken
    /\ UNCHANGED <<wallets, balance, tx, clickTx, click>>

-----------------------------------------------------------------------------

\* One step of the handler in slot r.
HandlerStep(r) ==
    \/ PrepareAccepts(r) \/ PrepareRefuses(r) \/ PrepareStores(r) \/ PrepareConflicts(r)
    \/ CompleteProceeds(r) \/ CompleteRefuses(r)
    \/ CancelsTx(r) \/ CancelsClickTx(r) \/ AppliesPayment(r)
    \/ CardCharged(r) \/ CardDeclined(r) \/ FetchThrows(r)
    \/ FailsTokenPayment(r) \/ SettlesTokenPayment(r)
    \/ AbortEntry(r) \/ WalletCreate(r)
    \/ \E t \in Tx : CommitEntry(r, t)

\* A call of the application reaches the server.
Called(r) ==
    \E u \in Users :
        \/ \E t \in Tx : PayWithToken(r, u, t)
        \/ \E kind \in {"deposit", "refund"} : BeginEntry(r, u, kind)
        \/ WalletMissing(r, u)

ClickStep(c) ==
    \/ \E t \in Tx, valid \in BOOLEAN : OpenPayment(c, t, valid)
    \/ \E r \in Reqs : SendPrepare(r, c) \/ SendComplete(r, c)
    \/ TakeMoney(c) \/ CancelPayment(c)

Next ==
    \/ \E r \in Reqs : HandlerStep(r) \/ Called(r) \/ DropConnection(r)
    \/ \E c \in Clicks : ClickStep(c)
    \/ \E u \in Users, t \in Tx : GenerateInvoice(u, t)
    \/ Crash

Spec == Init /\ [][Next]_vars

\* The event loop and the database serve every request in flight, Click
\* drops dead connections and repeats an outcome until it is answered
\* (strongly fair: slots are shared, a free one may be taken again and again).
Fairness ==
    /\ \A r \in Reqs : WF_vars(HandlerStep(r)) /\ WF_vars(DropConnection(r))
    /\ \A c \in Clicks : SF_vars(\E r \in Reqs : SendComplete(r, c))

FairSpec == Spec /\ Fairness

-----------------------------------------------------------------------------
(* What must hold.                                                         *)

ClickKinds == {"invoice", "token"}

Credited(t) == \E u \in Users : balance[u][t] > 0

\* A transaction recorded as SUCCESS is in its owner's balance: no handler
\* overwrites a balance with one it read before another credit
\* (wallet.service.ts deposit and refundAdmin against click.service.ts).
NoLostCredit ==
    \A t \in Tx : tx[t].status = "SUCCESS" => balance[tx[t].user][t] > 0

\* A Click top-up is in a balance only if Click has taken the money for it:
\* a cancelled, refused or unanswered payment never becomes credit.
NoUnpaidCredit ==
    \A t \in Tx : tx[t].kind \in ClickKinds /\ Credited(t) => t \in charged

\* Two payments opened for one invoice are never both allowed to take money,
\* however their prepare handlers race (the unique merchantTransId).
OnePaymentPerInvoice ==
    \A c, d \in Clicks :
        /\ click[c].phase \in {"approved", "paid"}
        /\ click[d].phase \in {"approved", "paid"}
        /\ click[c].tx = click[d].tx
        => c = d

\* A wallet holds exactly the successful transactions of its owner, each one
\* once.
ExactBalance ==
    \A u \in Users, t \in Tx :
        balance[u][t] = IF tx[t].status = "SUCCESS" /\ tx[t].user = u THEN 1 ELSE 0

\* No transaction is in a balance twice: a Complete for a transaction that is
\* paid is answered ALREADY PAID (click.service.ts:191).
CreditedOnce == \A u \in Users, t \in Tx : balance[u][t] <= 1

\* An invoice is SUCCESS exactly when one of the Click payments recorded for
\* it is completed: the two tables tell the same story.
TablesAgree ==
    \A t \in Tx :
        tx[t].kind = "invoice" =>
            (tx[t].status = "SUCCESS" <=>
                \E c \in Clicks : clickTx[c] = [status |-> "1", tx |-> t])

\* A settled transaction is never reopened, failed or taken out again.
SettledForever ==
    [][\A t \in Tx : tx[t].status = "SUCCESS" => tx'[t].status = "SUCCESS"]_vars

\* Money Click took for an invoice ends up in the wallet, in spite of lost
\* answers, repeated webhooks and restarts.
PaidInvoiceIsCredited ==
    \A t \in Tx :
        (\E c \in Clicks : click[c].phase = "paid" /\ click[c].tx = t) ~> Credited(t)

-----------------------------------------------------------------------------
(* Inductive invariants, from which ClickBillingProofs derives the above.  *)

\* Rows and balances: a row exists with its owner or not at all, and money is
\* only where its transaction belongs.
RowsInv ==
    \A t \in Tx :
        /\ tx[t].status = "NONE" => tx[t] = NoTx
        /\ tx[t].status # "NONE" => tx[t].user \in Users /\ tx[t].kind # "none"
        /\ \A u \in Users : balance[u][t] > 0 => tx[t].status # "NONE" /\ tx[t].user = u

\* Click's payments are for invoices, and one that may take money holds the
\* ClickTransaction row of its invoice, of which there is only one.
PaymentOK(c) ==
    /\ click[c].phase # "new" => click[c].tx \in Tx /\ tx[click[c].tx].kind = "invoice"
    /\ click[c].phase \in {"approved", "paid"} => clickTx[c].tx = click[c].tx
    /\ click[c].phase = "paid" => click[c].tx \in charged
    /\ clickTx[c].status = "absent" <=> clickTx[c].tx = None
    /\ clickTx[c].tx # None => click[c].phase # "new" /\ clickTx[c].tx = click[c].tx

OneRowPerTx ==
    \A c, d \in Clicks : clickTx[c].tx = clickTx[d].tx /\ clickTx[c].tx # None => c = d

PaymentsInv == OneRowPerTx /\ \A c \in Clicks : PaymentOK(c)

\* What the handlers of a webhook, a card payment and an entry hold.
WebhookOK(q) ==
    /\ q.click \in Clicks
    /\ click[q.click].phase # "new"
    /\ q.tx = click[q.click].tx
    /\ q.pc = "complete.apply" => q.paid
    /\ q.paid => q.tx \in charged /\ clickTx[q.click].tx = q.tx

TokenPaymentOK(q) ==
    /\ q.user \in Users
    /\ q.tx \in Tx
    /\ tx[q.tx].kind = "token"
    /\ tx[q.tx].user = q.user
    /\ q.pc = "token.settle" => q.tx \in charged

RequestOK(q) ==
    /\ q.pc \in PrepareSteps \cup CompleteSteps => WebhookOK(q)
    /\ q.pc \in TokenSteps => TokenPaymentOK(q)
    /\ q.pc \in WalletSteps => q.user \in Users

RequestsInv == \A r \in Reqs : RequestOK(req[r])

BillingInv ==
    TypeOK /\ RowsInv /\ PaymentsInv /\ RequestsInv /\ NoLostCredit /\ NoUnpaidCredit

\* Without overlap: one webhook at a time per transaction, one card payment
\* per transaction, and what a handler read of its transaction is still so.
OneHandlerPerTx ==
    \A r, q \in Reqs :
        /\ req[r].tx = req[q].tx
        /\ \/ req[r].pc \in TokenSteps /\ req[q].pc \in TokenSteps
           \/ r \in InHand(req[r].tx) /\ q \in InHand(req[q].tx)
        => r = q

ReadIsCurrent(q) ==
    /\ q.pc \in TokenSteps => tx[q.tx].status = "PENDING"
    /\ q.pc \in CompleteSteps \ {"complete"} => tx[q.tx].status # "SUCCESS"

SerialInv == OneHandlerPerTx /\ \A r \in Reqs : ReadIsCurrent(req[r])

SerialBillingInv == BillingInv /\ ExactBalance /\ SerialInv

\* What the wallet promises, with the tables of the database for its state.
Ledger == INSTANCE WalletLedger WITH
              status <- [t \in Tx |-> tx[t].status],
              owner <- [t \in Tx |-> tx[t].user],
              balance <- balance

LedgerSpec == Ledger!LedgerSpec
=============================================================================
