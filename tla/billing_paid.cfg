SPECIFICATION FairSpec
CONSTANTS
    Users = {u1}
    Tx = {t1}
    Clicks = {c1, c2}
    Reqs = {r1, r2}
    None = None
    Overlap = FALSE
    MaxCrashes = 1
    MaxCredit = 2
PROPERTIES
    PaidInvoiceIsCredited
CHECK_DEADLOCK FALSE
