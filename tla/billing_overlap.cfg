SPECIFICATION Spec
CONSTANTS
    Users = {u1, u2}
    Tx = {t1, t2}
    Clicks = {c1, c2}
    Reqs = {r1, r2}
    None = None
    Overlap = TRUE
    MaxCrashes = 1
    MaxCredit = 2
SYMMETRY Symmetry
CONSTRAINT CreditBound
INVARIANTS
    BillingInv
    NoLostCredit
    NoUnpaidCredit
    OnePaymentPerInvoice
CHECK_DEADLOCK FALSE
