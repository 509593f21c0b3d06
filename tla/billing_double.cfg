SPECIFICATION Spec
CONSTANTS
    Users = {u1}
    Tx = {t1}
    Clicks = {c1, c2}
    Reqs = {r1, r2}
    None = None
    Overlap = TRUE
    MaxCrashes = 0
    MaxCredit = 2
INVARIANTS
    CreditedOnce
CHECK_DEADLOCK FALSE
