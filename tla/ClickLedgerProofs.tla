------------------------- MODULE ClickLedgerProofs --------------------------
(***************************************************************************)
(* Without overlapping webhooks ClickBilling implements WalletLedger.      *)
(* Built on the inductive invariant of ClickBillingProofs.                 *)
(***************************************************************************)
EXTENDS ClickBillingProofs

Webhook == PrepareSteps \cup CompleteSteps

\* No webhook of a transaction overlaps another: req[r] and req[q] in OneHandlerPerTx.
LEMMA OneHandler ==
    ASSUME BaseInv
    PROVE  OneHandlerPerTx <=>
             \A r, q \in Reqs :
                 /\ req[r].tx = req[q].tx
                 /\ \/ req[r].pc \in TokenSteps /\ req[q].pc \in TokenSteps
                    \/ req[r].pc \in Webhook /\ req[q].pc \in Webhook
                 => r = q
BY DEF OneHandlerPerTx, InHand, Webhook

\* A step in one slot that does not take up a transaction another slot holds.
LEMMA HandlersKept ==
    ASSUME BaseInv, BaseInv', OneHandlerPerTx,
           NEW r \in Reqs, \A q \in Reqs \ {r} : req'[q] = req[q],
           \/ req'[r].pc \notin Webhook \cup TokenSteps
           \/ /\ req'[r].tx = req[r].tx
              /\ \/ req[r].pc \in Webhook /\ req'[r].pc \in Webhook
                 \/ req[r].pc \in TokenSteps /\ req'[r].pc \in TokenSteps
           \/ /\ req'[r].pc \in Webhook
              /\ \A q \in Reqs : req[q].pc \in Webhook => req[q].tx # req'[r].tx
           \/ /\ req'[r].pc \in TokenSteps
              /\ \A q \in Reqs : req[q].pc \in TokenSteps => req[q].tx # req'[r].tx
    PROVE  OneHandlerPerTx'
<1>1. Webhook \cap TokenSteps = {}
  BY DEF Webhook, PrepareSteps, CompleteSteps, TokenSteps
<1>2. OneHandlerPerTx' <=>
        \A p, q \in Reqs :
            /\ req'[p].tx = req'[q].tx
            /\ \/ req'[p].pc \in TokenSteps /\ req'[q].pc \in TokenSteps
               \/ req'[p].pc \in Webhook /\ req'[q].pc \in Webhook
            => p = q
  BY DEF OneHandlerPerTx, InHand, Webhook
<1>3. \A p, q \in Reqs :
            /\ req[p].tx = req[q].tx
            /\ \/ req[p].pc \in TokenSteps /\ req[q].pc \in TokenSteps
               \/ req[p].pc \in Webhook /\ req[q].pc \in Webhook
            => p = q
  BY OneHandler
<1>4. SUFFICES ASSUME NEW p \in Reqs, NEW q \in Reqs,
                      req'[p].tx = req'[q].tx,
                      \/ req'[p].pc \in TokenSteps /\ req'[q].pc \in TokenSteps
                      \/ req'[p].pc \in Webhook /\ req'[q].pc \in Webhook
               PROVE  p = q
  BY <1>2
<1>5. CASE p # r /\ q # r
  BY <1>3, <1>4, <1>5
<1>6. CASE p = r /\ q # r
  BY <1>1, <1>3, <1>4, <1>6
<1>7. CASE p # r /\ q = r
  BY <1>1, <1>3, <1>4, <1>7
<1>8. QED BY <1>5, <1>6, <1>7

\* A step that leaves every transaction alone.
LEMMA ReadsKept ==
    ASSUME SerialInv, NEW r \in Reqs, \A q \in Reqs \ {r} : req'[q] = req[q], UNCHANGED tx,
           ReadIsCurrent(req[r])'
    PROVE  \A q \in Reqs : ReadIsCurrent(req[q])'
BY DEF SerialInv, ReadIsCurrent

\* A step that changes the status of the one transaction its slot holds.
LEMMA ReadsOwned ==
    ASSUME BaseInv, SerialInv, NEW r \in Reqs, \A q \in Reqs \ {r} : req'[q] = req[q],
           req[r].pc \in Webhook \cup TokenSteps,
           \A t \in Tx \ {req[r].tx} : tx'[t] = tx[t],
           ReadIsCurrent(req[r])'
    PROVE  \A q \in Reqs : ReadIsCurrent(req[q])'
<1>1. ASSUME NEW q \in Reqs \ {r}, req[q].pc \in Webhook \cup TokenSteps
      PROVE req[q].tx \in Tx \ {req[r].tx}
  <2>1. /\ req[q].pc \in Webhook => tx[req[q].tx].kind = "invoice" /\ req[q].tx \in Tx
        /\ req[r].pc \in Webhook => tx[req[r].tx].kind = "invoice"
        /\ req[q].pc \in TokenSteps => tx[req[q].tx].kind = "token" /\ req[q].tx \in Tx
        /\ req[r].pc \in TokenSteps => tx[req[r].tx].kind = "token"
    BY WebhookTx, TokenTx DEF BaseInv, Webhook
  <2>2. CASE req[q].pc \in Webhook /\ req[r].pc \in TokenSteps
    BY <2>1, <2>2
  <2>3. CASE req[q].pc \in TokenSteps /\ req[r].pc \in Webhook
    BY <2>1, <2>3
  <2>4. CASE \/ req[q].pc \in Webhook /\ req[r].pc \in Webhook
             \/ req[q].pc \in TokenSteps /\ req[r].pc \in TokenSteps
    BY <2>1, <2>4, OneHandler DEF SerialInv
  <2>5. QED BY <1>1, <2>2, <2>3, <2>4
<1>2. ASSUME NEW q \in Reqs \ {r} PROVE ReadIsCurrent(req[q])'
  BY <1>1 DEF SerialInv, ReadIsCurrent, Webhook
<1>3. QED BY <1>2

\* A step that inserts a row.
LEMMA ReadsInsert ==
    ASSUME BaseInv, SerialInv, NEW r \in Reqs, \A q \in Reqs \ {r} : req'[q] = req[q],
           NEW t \in Tx, tx[t].status = "NONE", \A s \in Tx \ {t} : tx'[s] = tx[s],
           ReadIsCurrent(req[r])'
    PROVE  \A q \in Reqs : ReadIsCurrent(req[q])'
<1>1. ASSUME NEW q \in Reqs, req[q].pc \in Webhook \cup TokenSteps
      PROVE req[q].tx \in Tx \ {t}
  BY <1>1, WebhookTx, TokenTx DEF BaseInv, Webhook
<1>2. ASSUME NEW q \in Reqs \ {r} PROVE ReadIsCurrent(req[q])'
  BY <1>1 DEF SerialInv, ReadIsCurrent, Webhook
<1>3. QED BY <1>2

\* A handler that ends has nothing left to read.
LEMMA SerialEnds ==
    ASSUME BaseInv, BaseInv', SerialInv, NEW r \in Reqs, Ends(r),
           \/ UNCHANGED tx
           \/ /\ req[r].pc \in Webhook \cup TokenSteps
              /\ \A t \in Tx \ {req[r].tx} : tx'[t] = tx[t]
           \/ \E t \in Tx : tx[t].status = "NONE" /\ \A s \in Tx \ {t} : tx'[s] = tx[s]
    PROVE  SerialInv'
<1>1. req'[r] = Idle /\ \A q \in Reqs \ {r} : req'[q] = req[q]
  BY EndsSlot DEF BaseInv, TypeOK
<1>2. req'[r].pc \notin Webhook \cup TokenSteps
  BY <1>1 DEF Idle, Request, Webhook, PrepareSteps, CompleteSteps, TokenSteps
<1>3. ReadIsCurrent(req[r])'
  BY <1>2 DEF ReadIsCurrent, Webhook
<1>4. OneHandlerPerTx'
  BY <1>1, <1>2, HandlersKept DEF SerialInv
<1>5. QED BY <1>1, <1>3, <1>4, ReadsKept, ReadsOwned, ReadsInsert DEF SerialInv

\* A handler that goes on within its transaction.
LEMMA SerialContinues ==
    ASSUME BaseInv, BaseInv', SerialInv, NEW r \in Reqs, NEW pc \in Steps, Continues(r, pc),
           \/ req[r].pc \in Webhook /\ pc \in Webhook
           \/ req[r].pc \in TokenSteps /\ pc \in TokenSteps,
           \A t \in Tx \ {req[r].tx} : tx'[t] = tx[t],
           pc \in TokenSteps => tx'[req[r].tx].status = "PENDING",
           pc \in CompleteSteps \ {"complete"} => tx'[req[r].tx].status # "SUCCESS"
    PROVE  SerialInv'
<1>1. /\ req'[r].pc = pc
      /\ req'[r].tx = req[r].tx
      /\ \A q \in Reqs \ {r} : req'[q] = req[q]
  BY ContinuesSlot DEF BaseInv, TypeOK
<1>2. ReadIsCurrent(req[r])'
  BY <1>1 DEF ReadIsCurrent
<1>3. OneHandlerPerTx'
  BY <1>1, HandlersKept DEF SerialInv
<1>4. QED BY <1>1, <1>2, <1>3, ReadsOwned DEF SerialInv

\* A slot that is taken by a handler of no transaction, or by a webhook Click
\* sends while no other one for its transaction is in hand.
LEMMA SerialStarts ==
    ASSUME BaseInv, BaseInv', SerialInv, NEW r \in Reqs, UNCHANGED tx,
           NEW pc \in WalletSteps \cup {"prepare", "complete"}, NEW t,
           req'[r].pc = pc, req'[r].tx = t, \A q \in Reqs \ {r} : req'[q] = req[q],
           pc \in {"prepare", "complete"} => InHand(t) = {}
    PROVE  SerialInv'
<1>1. pc \notin TokenSteps /\ (pc \in CompleteSteps => pc = "complete")
  BY DEF WalletSteps, TokenSteps, CompleteSteps
<1>2. ReadIsCurrent(req[r])'
  BY <1>1 DEF ReadIsCurrent
<1>3. pc \in Webhook => \A q \in Reqs : req[q].pc \in Webhook => req[q].tx # t
  BY DEF InHand, Webhook, WalletSteps, PrepareSteps, CompleteSteps
<1>4. OneHandlerPerTx'
  BY <1>1, <1>3, HandlersKept DEF SerialInv
<1>5. QED BY <1>2, <1>4, ReadsKept DEF SerialInv

\* Without overlap every step keeps the transactions of handlers apart.
LEMMA NextSerial ==
    ASSUME Overlap = FALSE, BaseInv, BaseInv', SerialInv, [Next]_vars
    PROVE  SerialInv'
<1>1. ASSUME NEW r \in Reqs, HandlerStep(r) PROVE SerialInv'
  <2>1. CASE Ends(r) /\ UNCHANGED tx
    BY <2>1, SerialEnds
  <2>2. CASE PrepareAccepts(r) \/ PrepareConflicts(r)
    BY <2>2, SerialContinues
       DEF PrepareAccepts, PrepareConflicts, Webhook, Steps, PrepareSteps, CompleteSteps, TokenSteps
  <2>3. CASE CompleteProceeds(r)
    BY <2>3, SerialContinues
       DEF CompleteProceeds, MayComplete, NextOfComplete, Webhook, Steps, CompleteSteps, TokenSteps
  <2>4. CASE CancelsTx(r)
    <3>1. req[r].tx \in Tx
      BY <2>4, WebhookTx DEF CancelsTx, CompleteSteps, BaseInv
    <3>2. QED BY <2>4, <3>1, StatusUpdate, SerialContinues
         DEF CancelsTx, BaseInv, TypeOK, Webhook, Steps, Statuses, CompleteSteps, TokenSteps
  <2>5. CASE AppliesPayment(r)
    <3>1. req[r].tx \in Tx
      BY <2>5, WebhookTx DEF AppliesPayment, CompleteSteps, BaseInv
    <3>2. QED BY <2>5, <3>1, StatusUpdate, SerialEnds
         DEF AppliesPayment, BaseInv, TypeOK, Webhook, Statuses, CompleteSteps
  <2>6. CASE CardCharged(r) \/ CardDeclined(r)
    BY <2>6, SerialContinues
       DEF CardCharged, CardDeclined, SerialInv, ReadIsCurrent, Steps, TokenSteps, CompleteSteps
  <2>7. CASE FailsTokenPayment(r) \/ SettlesTokenPayment(r)
    <3>1. req[r].tx \in Tx
      BY <2>7, TokenTx DEF FailsTokenPayment, SettlesTokenPayment, TokenSteps, BaseInv
    <3>2. QED BY <2>7, <3>1, StatusUpdate, SerialEnds
         DEF FailsTokenPayment, SettlesTokenPayment, BaseInv, TypeOK, Statuses, TokenSteps
  <2>8. ASSUME NEW t \in Tx, CommitEntry(r, t) PROVE SerialInv'
    <3>1. tx[t].status = "NONE" /\ \A s \in Tx \ {t} : tx'[s] = tx[s]
      BY <2>8 DEF CommitEntry, InsertTx, BaseInv, TypeOK
    <3>2. QED BY <2>8, <3>1, SerialEnds DEF CommitEntry
  <2>9. QED
    BY <1>1, <2>1, <2>2, <2>3, <2>4, <2>5, <2>6, <2>7, <2>8
       DEF HandlerStep, PrepareRefuses, PrepareStores, CompleteRefuses, CancelsClickTx,
           FetchThrows, AbortEntry, WalletCreate
<1>2. ASSUME NEW r \in Reqs, Called(r) PROVE SerialInv'
  <2>1. ASSUME NEW u \in Users, NEW t \in Tx, PayWithToken(r, u, t) PROVE SerialInv'
    <3>1. /\ req'[r] = Request("token.fetch", u, t, None, FALSE, NoRow)
          /\ \A q \in Reqs \ {r} : req'[q] = req[q]
      BY <2>1 DEF PayWithToken, BaseInv, TypeOK
    <3>2. /\ tx[t].status = "NONE"
          /\ tx'[t].status = "PENDING"
          /\ \A s \in Tx \ {t} : tx'[s] = tx[s]
      BY <2>1, RowInsert DEF PayWithToken, BaseInv, TypeOK, Statuses, Kinds
    <3>3. req'[r].pc = "token.fetch" /\ req'[r].tx = t
      BY <3>1 DEF Request
    <3>4. ReadIsCurrent(req[r])'
      BY <3>2, <3>3 DEF ReadIsCurrent, CompleteSteps
    <3>5. \A q \in Reqs : req[q].pc \in TokenSteps => req[q].tx # t
      BY <3>2, TokenTx DEF BaseInv
    <3>6. OneHandlerPerTx'
      BY <3>1, <3>3, <3>5, HandlersKept DEF SerialInv, TokenSteps
    <3>7. QED BY <3>1, <3>2, <3>4, <3>6, ReadsInsert DEF SerialInv
  <2>2. ASSUME NEW u \in Users, NEW pc \in WalletSteps, NEW seen,
               req' = [req EXCEPT ![r] = Request(pc, u, None, None, FALSE, seen)], UNCHANGED tx
        PROVE SerialInv'
    <3>1. /\ req'[r].pc = pc
          /\ req'[r].tx = None
          /\ \A q \in Reqs \ {r} : req'[q] = req[q]
      BY <2>2 DEF Request, BaseInv, TypeOK
    <3>2. QED BY <2>2, <3>1, SerialStarts DEF WalletSteps
  <2>3. QED BY <1>2, <2>1, <2>2 DEF Called, BeginEntry, WalletMissing, WalletSteps
<1>3. ASSUME NEW c \in Clicks, ClickStep(c) PROVE SerialInv'
  <2>1. ASSUME NEW r \in Reqs, NEW pc \in {"prepare", "complete"}, NEW paid,
               Deliver(r, c, pc, paid)
        PROVE SerialInv'
    <3>1. /\ req'[r].pc = pc
          /\ req'[r].tx = click[c].tx
          /\ \A q \in Reqs \ {r} : req'[q] = req[q]
      BY <2>1 DEF Deliver, Request, BaseInv, TypeOK
    <3>2. InHand(click[c].tx) = {} /\ UNCHANGED tx
      BY <2>1 DEF Deliver
    <3>3. QED BY <3>1, <3>2, SerialStarts
  <2>2. CASE UNCHANGED <<req, tx>>
    BY <2>2 DEF SerialInv, OneHandlerPerTx, InHand, ReadIsCurrent
  <2>3. QED
    BY <1>3, <2>1, <2>2
       DEF ClickStep, OpenPayment, SendPrepare, SendComplete, TakeMoney, CancelPayment
<1>4. ASSUME NEW r \in Reqs, DropConnection(r) PROVE SerialInv'
  BY <1>4, SerialEnds DEF DropConnection
<1>5. ASSUME NEW u \in Users, NEW t \in Tx, GenerateInvoice(u, t) PROVE SerialInv'
  <2>1. /\ tx[t].status = "NONE"
        /\ \A s \in Tx \ {t} : tx'[s] = tx[s]
        /\ UNCHANGED req
    BY <1>5 DEF GenerateInvoice, InsertTx, BaseInv, TypeOK
  <2>2. \A q \in Reqs : req[q].pc \in Webhook \cup TokenSteps => req[q].tx \in Tx \ {t}
    BY <2>1, WebhookTx, TokenTx DEF BaseInv, Webhook
  <2>3. \A q \in Reqs : ReadIsCurrent(req[q])'
    BY <2>1, <2>2 DEF SerialInv, ReadIsCurrent, Webhook
  <2>4. QED BY <2>1, <2>3 DEF SerialInv, OneHandlerPerTx, InHand
<1>6. CASE Crash
  BY <1>6 DEF Crash, SerialInv, OneHandlerPerTx, InHand, ReadIsCurrent, Idle, Request,
     PrepareSteps, CompleteSteps, TokenSteps
<1>7. CASE UNCHANGED vars
  BY <1>7 DEF vars, SerialInv, OneHandlerPerTx, InHand, ReadIsCurrent
<1>8. QED BY <1>1, <1>2, <1>3, <1>4, <1>5, <1>6, <1>7 DEF Next

-----------------------------------------------------------------------------
(* Every step is a step of the ledger, or none of its business.            *)

LedgerStep == Ledger!LedgerNext \/ UNCHANGED Ledger!ledgerVars

\* The ledger sees the rows and the balances only.
LEMMA LedgerStutters ==
    ASSUME UNCHANGED <<tx, balance>>
    PROVE  LedgerStep
BY DEF LedgerStep, Ledger!ledgerVars

\* A row is opened.
LEMMA LedgerOpen ==
    ASSUME TypeOK, NEW u \in Users, NEW t \in Tx, NEW kind \in Kinds,
           InsertTx(t, u, kind, "PENDING"), UNCHANGED balance
    PROVE  LedgerStep
<1>1. /\ tx[t].status = "NONE"
      /\ tx'[t].status = "PENDING"
      /\ tx'[t].user = u
      /\ \A s \in Tx \ {t} : tx'[s] = tx[s]
  BY RowInsert DEF TypeOK, Statuses
<1>2. Ledger!Open(u, t)
  BY <1>1 DEF Ledger!Open
<1>3. QED BY <1>2 DEF LedgerStep, Ledger!LedgerNext

\* A pending or failed transaction fails.
LEMMA LedgerFail ==
    ASSUME TypeOK, NEW t \in Tx, tx[t].status \in {"PENDING", "FAILED"},
           SetTxStatus(t, "FAILED"), UNCHANGED balance
    PROVE  LedgerStep
<1>1. Ledger!Fail(t)
  BY StatusUpdate DEF Ledger!Fail, TypeOK, Statuses
<1>2. QED BY <1>1 DEF LedgerStep, Ledger!LedgerNext

\* A pending or failed transaction that is in no balance is settled.
LEMMA LedgerSettle ==
    ASSUME TypeOK, ExactBalance, NEW t \in Tx, tx[t].status \in {"PENDING", "FAILED"},
           tx[t].user \in Users, SetTxStatus(t, "SUCCESS"), Increment(tx[t].user, t)
    PROVE  LedgerStep /\ ExactBalance'
<1> DEFINE u == tx[t].user
<1>1. /\ tx'[t].status = "SUCCESS"
      /\ \A s \in Tx : tx'[s].user = tx[s].user
      /\ \A s \in Tx \ {t} : tx'[s] = tx[s]
  BY StatusUpdate DEF TypeOK, Statuses
<1>2. balance[u][t] = 0
  BY DEF ExactBalance
<1>3. balance' = [balance EXCEPT ![u][t] = 1]
  BY <1>2 DEF Increment, TypeOK, Sums
<1>4. Ledger!Settle(t)
  BY <1>1, <1>2, <1>3 DEF Ledger!Settle, Ledger!Credit
<1>5. ExactBalance'
  BY <1>1, <1>3 DEF ExactBalance, TypeOK, Sums
<1>6. QED BY <1>4, <1>5 DEF LedgerStep, Ledger!LedgerNext

\* A deposit or refund enters the ledger in one step.
LEMMA LedgerEnter ==
    ASSUME BillingInv, ExactBalance, NEW r \in Reqs, NEW t \in Tx, CommitEntry(r, t)
    PROVE  LedgerStep /\ ExactBalance'
<1>0. req[r].user \in Users /\ req[r].pc \in Kinds
  BY DEF CommitEntry, BillingInv, RequestsInv, RequestOK, WalletSteps, Kinds
<1>1. PICK u \in Users : u = req[r].user
  BY <1>0
<1>2. /\ tx[t].status = "NONE"
      /\ tx'[t].status = "SUCCESS"
      /\ tx'[t].user = u
      /\ \A s \in Tx \ {t} : tx'[s] = tx[s]
  BY <1>0, <1>1, RowInsert DEF CommitEntry, BillingInv, TypeOK, Statuses
<1>3. \A v \in Users : balance[v][t] = 0
  BY <1>2 DEF ExactBalance
<1>4. balance' = [balance EXCEPT ![u][t] = 1]
  <2>1. req[r].seen[2] = balance[u]
    BY <1>1 DEF CommitEntry, NoConflict, WalletRow
  <2>2. balance' = [balance EXCEPT ![u] = [balance[u] EXCEPT ![t] = balance[u][t] + 1]]
    BY <1>1, <2>1 DEF CommitEntry
  <2>3. balance[u][t] + 1 = 1
    BY <1>3
  <2>4. balance' = [balance EXCEPT ![u] = [balance[u] EXCEPT ![t] = 1]]
    BY <2>2, <2>3
  <2>5. QED BY <2>4
<1>5. Ledger!Enter(u, t)
  BY <1>1, <1>2, <1>3, <1>4 DEF Ledger!Enter, Ledger!Credit
<1>6. ExactBalance'
  BY <1>1, <1>2, <1>3, <1>4 DEF ExactBalance, BillingInv, TypeOK, Sums
<1>7. QED BY <1>1, <1>5, <1>6 DEF LedgerStep, Ledger!LedgerNext

\* Balances stay exact when no transaction is settled.
LEMMA ExactKept ==
    ASSUME TypeOK, ExactBalance, UNCHANGED balance,
           \/ UNCHANGED tx
           \/ \E t \in Tx : /\ tx[t].status # "SUCCESS" /\ tx'[t].status # "SUCCESS"
                            /\ \A s \in Tx \ {t} : tx'[s] = tx[s]
    PROVE  ExactBalance'
BY DEF ExactBalance

\* The step of SerialBillingInv, and of the refinement.
LEMMA NextExact ==
    ASSUME BillingInv, SerialInv, ExactBalance, [Next]_vars
    PROVE  LedgerStep /\ ExactBalance'
<1> USE DEF BillingInv
<1>0. CASE UNCHANGED <<tx, balance>>
  BY <1>0, LedgerStutters, ExactKept
<1>1. ASSUME NEW r \in Reqs, HandlerStep(r) PROVE LedgerStep /\ ExactBalance'
  <2>1. CASE CancelsTx(r)
    <3>1. req[r].tx \in Tx /\ tx[req[r].tx].status \in {"PENDING", "FAILED"}
      BY <2>1, WebhookTx DEF CancelsTx, CompleteSteps, SerialInv, ReadIsCurrent, TypeOK, TxRows,
         Statuses
    <3>2. QED BY <2>1, <3>1, LedgerFail, ExactKept, StatusUpdate DEF CancelsTx, TypeOK, Statuses
  <2>2. CASE AppliesPayment(r)
    <3>1. /\ req[r].tx \in Tx
          /\ tx[req[r].tx].status \in {"PENDING", "FAILED"}
          /\ tx[req[r].tx].user \in Users
      BY <2>2, WebhookTx DEF AppliesPayment, CompleteSteps, SerialInv, ReadIsCurrent, TypeOK,
         TxRows, Statuses
    <3>2. QED BY <2>2, <3>1, LedgerSettle DEF AppliesPayment
  <2>3. CASE FailsTokenPayment(r) \/ SettlesTokenPayment(r)
    <3>1. /\ req[r].tx \in Tx
          /\ tx[req[r].tx].status = "PENDING"
          /\ tx[req[r].tx].user = req[r].user
          /\ req[r].user \in Users
      BY <2>3, TokenTx DEF FailsTokenPayment, SettlesTokenPayment, TokenSteps, SerialInv,
         ReadIsCurrent
    <3>2. CASE FailsTokenPayment(r)
      BY <3>1, <3>2, LedgerFail, ExactKept, StatusUpdate DEF FailsTokenPayment, TypeOK, Statuses
    <3>3. CASE SettlesTokenPayment(r)
      BY <3>1, <3>3, LedgerSettle DEF SettlesTokenPayment
    <3>4. QED BY <2>3, <3>2, <3>3
  <2>4. ASSUME NEW t \in Tx, CommitEntry(r, t) PROVE LedgerStep /\ ExactBalance'
    BY <2>4, LedgerEnter
  <2>5. QED
    BY <1>0, <1>1, <2>1, <2>2, <2>3, <2>4
       DEF HandlerStep, PrepareAccepts, PrepareRefuses, PrepareStores, PrepareConflicts,
           CompleteProceeds, CompleteRefuses, CancelsClickTx, CardCharged, CardDeclined,
           FetchThrows, AbortEntry, WalletCreate
<1>2. ASSUME NEW u \in Users, NEW t \in Tx, NEW kind \in {"invoice", "token"},
             InsertTx(t, u, kind, "PENDING"), UNCHANGED balance
      PROVE LedgerStep /\ ExactBalance'
  <2>1. /\ tx[t].status # "SUCCESS" /\ tx'[t].status # "SUCCESS"
        /\ \A s \in Tx \ {t} : tx'[s] = tx[s]
    BY <1>2, RowInsert DEF TypeOK, Statuses, Kinds
  <2>2. QED BY <1>2, <2>1, LedgerOpen, ExactKept DEF Kinds
<1>3. ASSUME NEW r \in Reqs, Called(r) PROVE LedgerStep /\ ExactBalance'
  BY <1>0, <1>2, <1>3 DEF Called, PayWithToken, BeginEntry, WalletMissing
<1>4. ASSUME NEW c \in Clicks, ClickStep(c) PROVE LedgerStep /\ ExactBalance'
  BY <1>0, <1>4
     DEF ClickStep, OpenPayment, SendPrepare, SendComplete, Deliver, TakeMoney, CancelPayment
<1>5. ASSUME NEW u \in Users, NEW t \in Tx, GenerateInvoice(u, t)
      PROVE LedgerStep /\ ExactBalance'
  BY <1>2, <1>5 DEF GenerateInvoice
<1>6. CASE Crash \/ (\E r \in Reqs : DropConnection(r)) \/ UNCHANGED vars
  BY <1>0, <1>6 DEF Crash, DropConnection, vars
<1>7. QED BY <1>1, <1>3, <1>4, <1>5, <1>6 DEF Next

-----------------------------------------------------------------------------
(* The theorems.                                                           *)

LEMMA InitSerial == Init => SerialInv /\ ExactBalance /\ Ledger!LedgerInit
BY DEF Init, SerialInv, OneHandlerPerTx, InHand, ReadIsCurrent, Idle, Request, PrepareSteps,
   CompleteSteps, TokenSteps, ExactBalance, NoSum, NoTx, Ledger!LedgerInit

LEMMA NextSerialBilling ==
    ASSUME Overlap = FALSE
    PROVE  SerialBillingInv /\ [Next]_vars => SerialBillingInv'
BY NextBilling, NextSerial, NextExact DEF SerialBillingInv, BillingInv, BaseInv

\* The inductive invariant of billing without overlapping webhooks.
THEOREM SerialInvariant ==
    ASSUME Overlap = FALSE
    PROVE  Spec => []SerialBillingInv
<1>1. Init => SerialBillingInv
  BY InitBilling, InitSerial DEF SerialBillingInv
<1>2. SerialBillingInv /\ [Next]_vars => SerialBillingInv'
  BY NextSerialBilling
<1>3. QED BY <1>1, <1>2, PTL DEF Spec

\* If Click never sends a webhook for a transaction while another one for it is
\* being handled, every wallet holds exactly its owner's successful
\* transactions, each one once.
THEOREM BalancesAreExact ==
    ASSUME Overlap = FALSE
    PROVE  Spec => []ExactBalance
<1>1. SerialBillingInv => ExactBalance
  BY DEF SerialBillingInv
<1>2. QED BY <1>1, SerialInvariant, PTL

\* Under the same assumption billing implements the ledger: every transaction
\* is credited at most once, when it is settled, to its owner.
THEOREM BillingImplementsLedger ==
    ASSUME Overlap = FALSE
    PROVE  Spec => LedgerSpec
<1>1. Init => Ledger!LedgerInit
  BY InitSerial
<1>2. SerialBillingInv /\ [Next]_vars => [Ledger!LedgerNext]_(Ledger!ledgerVars)
  BY NextExact DEF SerialBillingInv, LedgerStep
<1>3. QED BY <1>1, <1>2, SerialInvariant, PTL DEF Spec, LedgerSpec, Ledger!LedgerSpec

\* Under the same assumption a settled transaction is never reopened, failed or
\* taken out again.
THEOREM SettledIsFinal ==
    ASSUME Overlap = FALSE
    PROVE  Spec => SettledForever
<1> DEFINE Final == \A t \in Tx : tx[t].status = "SUCCESS" => tx'[t].status = "SUCCESS"
<1>1. ASSUME LedgerStep PROVE Final
  <2>1. CASE UNCHANGED Ledger!ledgerVars
    BY <2>1 DEF Ledger!ledgerVars
  <2>2. ASSUME NEW t \in Tx,
               \/ \E u \in Users : Ledger!Open(u, t) \/ Ledger!Enter(u, t)
               \/ Ledger!Fail(t)
               \/ Ledger!Settle(t)
        PROVE Final
    BY <2>2 DEF Ledger!Open, Ledger!Enter, Ledger!Fail, Ledger!Settle, Ledger!Credit
  <2>3. QED BY <1>1, <2>1, <2>2 DEF LedgerStep, Ledger!LedgerNext
<1>2. SerialBillingInv /\ [Next]_vars => [Final]_vars
  BY <1>1, NextExact DEF SerialBillingInv
<1>3. QED BY <1>2, SerialInvariant, PTL DEF Spec, SettledForever
-----------------------------------------------------------------------------
(* Invoices and Click's rows.                                              *)

Completed(t) == [status |-> "1", tx |-> t]

\* A step that settles no invoice and completes no row.
LEMMA TablesKept ==
    ASSUME TablesAgree,
           \A t \in Tx : tx'[t].kind = "invoice" =>
               /\ tx[t].kind = "invoice"
               /\ tx'[t].status = "SUCCESS" <=> tx[t].status = "SUCCESS",
           \A c \in Clicks, t \in Tx : tx[t].kind = "invoice" =>
               (clickTx'[c] = Completed(t) <=> clickTx[c] = Completed(t))
    PROVE  TablesAgree'
BY DEF TablesAgree, Completed

\* The row of a payment is about its invoice.
LEMMA RowOfPayment ==
    ASSUME BaseInv, NEW c \in Clicks, NEW t \in Tx, clickTx[c].tx = t
    PROVE  click[c].tx = t /\ tx[t].kind = "invoice"
<1>1. t # None
  BY NoneAssumption
<1>2. QED  BY <1>1 DEF BaseInv, PaymentsInv, PaymentOK

\* What a webhook that cancels or settles found is still so.
LEMMA WebhookHolds ==
    ASSUME BaseInv, SerialInv, NEW r \in Reqs, req[r].pc \in CompleteSteps \ {"complete"}
    PROVE  /\ req[r].click \in Clicks /\ req[r].tx \in Tx /\ req[r].tx = click[req[r].click].tx
           /\ tx[req[r].tx].status # "SUCCESS" /\ tx[req[r].tx].kind = "invoice"
           /\ req[r].pc = "complete.apply" => clickTx[req[r].click].tx = req[r].tx
           /\ clickTx[req[r].click].tx # None => clickTx[req[r].click].tx = req[r].tx
<1>1. RequestOK(req[r]) /\ ReadIsCurrent(req[r])
  BY DEF BaseInv, RequestsInv, SerialInv
<1>2. WebhookOK(req[r]) /\ PaymentOK(req[r].click)
  BY <1>1 DEF RequestOK, WebhookOK, BaseInv, PaymentsInv
<1>3. QED
  BY <1>1, <1>2, WebhookTx DEF WebhookOK, PaymentOK, ReadIsCurrent, BaseInv

\* The two tables tell the same story of every invoice, step by step.
LEMMA NextTables ==
    ASSUME BaseInv, SerialInv, TablesAgree, [Next]_vars
    PROVE  TablesAgree'
<1>0. /\ TypeOK /\ tx \in [Tx -> TxRows] /\ clickTx \in [Clicks -> ClickTxRows]
      /\ \A t \in Tx : tx[t].status = "NONE" => tx[t] = NoTx
  BY DEF BaseInv, TypeOK, RowsInv
<1>1. CASE UNCHANGED <<tx, clickTx>>
  BY <1>1 DEF TablesAgree
<1>2. ASSUME NEW t \in Tx, NEW u \in Users, NEW kind \in Kinds, NEW status \in {"PENDING", "SUCCESS"},
             InsertTx(t, u, kind, status), UNCHANGED clickTx,
             kind = "invoice" => status = "PENDING"
      PROVE  TablesAgree'
  <2>1. /\ tx'[t].status = status /\ tx'[t].kind = kind /\ tx[t].status = "NONE"
        /\ \A s \in Tx \ {t} : tx'[s] = tx[s]
    BY <1>0, <1>2 DEF InsertTx
  <2>2. \A c \in Clicks : clickTx[c].tx # t
    BY <1>0, <2>1, RowOfPayment DEF NoTx
  <2>3. \A c \in Clicks : clickTx[c] # Completed(t)
    BY <2>2 DEF Completed
  <2>4. ASSUME NEW s \in Tx, tx'[s].kind = "invoice"
        PROVE  tx'[s].status = "SUCCESS" <=> \E c \in Clicks : clickTx'[c] = Completed(s)
    <3>1. CASE s = t
      BY <1>2, <2>1, <2>3, <2>4, <3>1
    <3>2. CASE s # t
      BY <1>2, <2>1, <2>4, <3>2 DEF TablesAgree, Completed
    <3>3. QED  BY <3>1, <3>2
  <2>5. QED  BY <2>4 DEF TablesAgree, Completed
<1>3. ASSUME NEW r \in Reqs, HandlerStep(r) PROVE TablesAgree'
  <2>1. CASE PrepareStores(r)
    <3>1. PICK d : d = req[r].click
      OBVIOUS
    <3>2. /\ tx' = tx
          /\ \/ clickTx' = clickTx
             \/ /\ clickTx[d] = NoClickTx
                /\ clickTx' = [clickTx EXCEPT ![d] = NewClickTx(d, req[r].tx)]
      BY <2>1, <3>1 DEF PrepareStores
    <3>3. \A c \in Clicks : \/ clickTx'[c] = clickTx[c]
                            \/ (clickTx'[c].status = "0" /\ clickTx[c].status = "absent")
      BY <1>0, <3>2 DEF NewClickTx, NoClickTx
    <3>4. QED  BY <3>2, <3>3, TablesKept DEF Completed
  <2>2. CASE CancelsTx(r)
    <3>1. req[r].tx \in Tx /\ tx[req[r].tx].status # "SUCCESS"
      BY <2>2, WebhookHolds DEF CancelsTx, CompleteSteps
    <3>2. /\ tx'[req[r].tx].status = "FAILED" /\ clickTx' = clickTx
          /\ \A s \in Tx : tx'[s].kind = tx[s].kind
          /\ \A s \in Tx \ {req[r].tx} : tx'[s] = tx[s]
      BY <1>0, <2>2, <3>1, StatusUpdate DEF CancelsTx, Statuses
    <3>3. QED  BY <3>1, <3>2, TablesKept
  <2>3. CASE CancelsClickTx(r)
    <3>1. PICK c \in Clicks : c = req[r].click
      BY <2>3, WebhookHolds DEF CancelsClickTx, CompleteSteps
    <3>2. /\ tx' = tx /\ \A d \in Clicks \ {c} : clickTx'[d] = clickTx[d]
          /\ clickTx'[c] = clickTx[c] \/ clickTx'[c].status = "-1"
      BY <1>0, <2>3, <3>1 DEF CancelsClickTx, ClickTxRows
    <3>3. \A t \in Tx : tx[t].kind = "invoice" => clickTx[c] # Completed(t)
      <4>1. SUFFICES ASSUME NEW t \in Tx, tx[t].kind = "invoice", clickTx[c] = Completed(t)
                     PROVE  FALSE
        OBVIOUS
      <4>2. clickTx[c].tx = t /\ t # None
        BY <4>1, NoneAssumption DEF Completed
      <4>3. t = req[r].tx /\ tx[t].status # "SUCCESS"
        BY <2>3, <3>1, <4>2, WebhookHolds DEF CancelsClickTx, CompleteSteps
      <4>4. QED  BY <4>1, <4>3 DEF TablesAgree, Completed
    <3>4. QED  BY <3>2, <3>3, TablesKept DEF Completed
  <2>4. CASE AppliesPayment(r)
    <3>1. PICK c \in Clicks, t \in Tx : c = req[r].click /\ t = req[r].tx /\ clickTx[c].tx = t
      BY <2>4, WebhookHolds DEF AppliesPayment, CompleteSteps
    <3>2. /\ tx'[t].status = "SUCCESS" /\ \A s \in Tx : tx'[s].kind = tx[s].kind
          /\ \A s \in Tx \ {t} : tx'[s] = tx[s]
      BY <1>0, <2>4, <3>1, StatusUpdate DEF AppliesPayment, Statuses
    <3>3. clickTx'[c] = Completed(t) /\ \A d \in Clicks \ {c} : clickTx'[d] = clickTx[d]
      BY <1>0, <2>4, <3>1 DEF AppliesPayment, CompletedClickTx, Completed
    <3>4. ASSUME NEW s \in Tx, tx'[s].kind = "invoice"
          PROVE  tx'[s].status = "SUCCESS" <=> \E d \in Clicks : clickTx'[d] = Completed(s)
      <4>1. CASE s = t
        BY <3>2, <3>3, <4>1
      <4>2. CASE s # t
        <5>1. clickTx[c] # Completed(s) /\ clickTx'[c] # Completed(s)
          BY <3>1, <3>3, <4>2 DEF Completed
        <5>2. \A d \in Clicks : clickTx'[d] = Completed(s) <=> clickTx[d] = Completed(s)
          BY <3>3, <5>1
        <5>3. tx'[s] = tx[s]
          BY <3>2, <4>2
        <5>4. QED  BY <3>4, <5>2, <5>3 DEF TablesAgree, Completed
      <4>3. QED  BY <4>1, <4>2
    <3>5. QED  BY <3>4 DEF TablesAgree, Completed
  <2>5. CASE FailsTokenPayment(r) \/ SettlesTokenPayment(r)
    <3>1. req[r].tx \in Tx /\ tx[req[r].tx].kind = "token"
      BY <2>5, TokenTx DEF FailsTokenPayment, SettlesTokenPayment, TokenSteps, BaseInv
    <3>2. /\ clickTx' = clickTx /\ \A s \in Tx : tx'[s].kind = tx[s].kind
          /\ \A s \in Tx \ {req[r].tx} : tx'[s] = tx[s]
      BY <1>0, <2>5, <3>1, StatusUpdate DEF FailsTokenPayment, SettlesTokenPayment, Statuses
    <3>3. QED  BY <3>1, <3>2, TablesKept
  <2>6. ASSUME NEW t \in Tx, CommitEntry(r, t) PROVE TablesAgree'
    <3>1. req[r].user \in Users /\ req[r].pc \in Kinds /\ req[r].pc # "invoice"
      BY <2>6 DEF CommitEntry, BaseInv, RequestsInv, RequestOK, WalletSteps, Kinds
    <3>2. QED  BY <1>2, <2>6, <3>1 DEF CommitEntry
  <2>7. QED
    BY <1>1, <1>3, <2>1, <2>2, <2>3, <2>4, <2>5, <2>6
       DEF HandlerStep, PrepareAccepts, PrepareRefuses, PrepareConflicts, CompleteProceeds,
           CompleteRefuses, CardCharged, CardDeclined, FetchThrows, AbortEntry, WalletCreate
<1>4. ASSUME NEW r \in Reqs, Called(r) PROVE TablesAgree'
  BY <1>1, <1>2, <1>4 DEF Called, PayWithToken, BeginEntry, WalletMissing, Kinds
<1>5. ASSUME NEW c \in Clicks, ClickStep(c) PROVE TablesAgree'
  BY <1>1, <1>5
     DEF ClickStep, OpenPayment, SendPrepare, SendComplete, Deliver, TakeMoney, CancelPayment
<1>6. ASSUME NEW u \in Users, NEW t \in Tx, GenerateInvoice(u, t) PROVE TablesAgree'
  BY <1>2, <1>6 DEF GenerateInvoice, Kinds
<1>7. CASE Crash \/ (\E r \in Reqs : DropConnection(r)) \/ UNCHANGED vars
  BY <1>1, <1>7 DEF Crash, DropConnection, vars
<1>8. QED  BY <1>3, <1>4, <1>5, <1>6, <1>7 DEF Next

\* Under the same assumption an invoice is SUCCESS exactly when one of the payments
\* Click has made for it is recorded as completed.
THEOREM TablesAlwaysAgree ==
    ASSUME Overlap = FALSE
    PROVE  Spec => []TablesAgree
<1>1. Init => TablesAgree
  BY DEF Init, TablesAgree, NoTx
<1>2. SerialBillingInv => BaseInv /\ SerialInv
  BY DEF SerialBillingInv, BillingInv, BaseInv
<1>3. SerialBillingInv /\ TablesAgree /\ [Next]_vars => TablesAgree'
  BY <1>2, NextTables
<1>4. QED BY <1>1, <1>3, SerialInvariant, PTL DEF Spec
=============================================================================
