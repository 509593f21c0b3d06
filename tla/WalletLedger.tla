---------------------------- MODULE WalletLedger ----------------------------
(***************************************************************************)
(* What the wallet promises, free of handlers, webhooks and databases:     *)
(* a wallet transaction is opened once for one user, may fail, and is      *)
(* settled at most once, at which moment its amount is put in its owner's  *)
(* wallet exactly once.  ClickBilling is shown to implement it.            *)
(*                                                                         *)
(* A balance is kept as a formal sum: balance[u][t] is how many times the  *)
(* amount of transaction t has been added to the wallet of user u, so that *)
(* no amounts are added up and nothing that happens to them is hidden.     *)
(***************************************************************************)
EXTENDS Naturals

CONSTANTS Users, Tx, None

VARIABLES status,    \* status[t]: the state of transaction t
          owner,     \* owner[t]: the user whose wallet it belongs to, or None
          balance    \* balance[u][t]: how often t is in the wallet of u

ledgerVars == <<status, owner, balance>>

LedgerInit ==
    /\ status = [t \in Tx |-> "NONE"]
    /\ owner = [t \in Tx |-> None]
    /\ balance = [u \in Users |-> [t \in Tx |-> 0]]

\* A transaction is opened for a user and waits for its payment.
Open(u, t) ==
    /\ status[t] = "NONE"
    /\ status' = [status EXCEPT ![t] = "PENDING"]
    /\ owner' = [owner EXCEPT ![t] = u]
    /\ UNCHANGED balance

\* A transaction that is not settled fails; it leaves the wallet alone.
Fail(t) ==
    /\ status[t] \in {"PENDING", "FAILED"}
    /\ status' = [status EXCEPT ![t] = "FAILED"]
    /\ UNCHANGED <<owner, balance>>

\* The one way money enters a wallet: a transaction that was never in it
\* becomes SUCCESS and its amount is added to its owner's wallet.
Credit(u, t) ==
    /\ status' = [status EXCEPT ![t] = "SUCCESS"]
    /\ balance[u][t] = 0
    /\ balance' = [balance EXCEPT ![u][t] = 1]

\* An opened transaction is paid.
Settle(t) ==
    /\ status[t] \in {"PENDING", "FAILED"}
    /\ Credit(owner[t], t)
    /\ UNCHANGED owner

\* A transaction is entered and credited at once (a deposit, a refund).
Enter(u, t) ==
    /\ status[t] = "NONE"
    /\ owner' = [owner EXCEPT ![t] = u]
    /\ Credit(u, t)

LedgerNext ==
    \E t \in Tx :
        \/ \E u \in Users : Open(u, t) \/ Enter(u, t)
        \/ Fail(t)
        \/ Settle(t)

LedgerSpec == LedgerInit /\ [][LedgerNext]_ledgerVars
=============================================================================
