SPECIFICATION Spec
CONSTANTS
    Users = {u1, u2}
    Tx = {t1, t2}
    Clicks = {c1, c2}
    Reqs = {r1, r2}
    None = None
    Overlap = FALSE
    MaxCrashes = 1
    MaxCredit = 2
SYMMETRY Symmetry
INVARIANTS
    SerialBillingInv
    ExactBalance
    TablesAgree
PROPERTIES
    SettledForever
    LedgerSpec
CHECK_DEADLOCK FALSE
