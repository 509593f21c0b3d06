CONSTANTS
    Users = {u1, u2}
    Conns = {c1, c2}
    Sessions = {s1, s2}
    Reqs = {r1, r2}
    None = None
    RandomIds = {s1, s2}
    MaxMeter = 1
    MaxCharges = 2
    MaxFailures = 1
    MaxEdits = 1
    MaxCrashes = 1
CHECK_DEADLOCK FALSE
SYMMETRY Symmetry
CONSTRAINT FewEvents
SPECIFICATION Spec
INVARIANTS
    SessionInv
    
    NoPhantomEnergy
    ChargeHasSession
PROPERTIES
    StopIsReal
    ReusesSession
    FinishedIsFinal
