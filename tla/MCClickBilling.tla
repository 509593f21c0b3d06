--------------------------- MODULE MCClickBilling ---------------------------
(* ClickBilling on a small instance.                                       *)
EXTENDS ClickBilling, TLC

CONSTANT MaxCredit    \* bound on how often one transaction is counted

\* Model values that are interchangeable.
Symmetry == Permutations(Users) \cup Permutations(Tx) \cup Permutations(Clicks) \cup Permutations(Reqs)

\* Stops runs with overlapping webhooks from crediting without end.
CreditBound == \A u \in Users, t \in Tx : balance[u][t] <= MaxCredit
=============================================================================
