CONSTANTS
    Users = {u1}
    Conns = {c1}
    Sessions = {s1, s2}
    Reqs = {r1, r2}
    None = None
    RandomIds = {s1, s2}
    MaxMeter = 1
    MaxCharges = 2
    MaxFailures = 0
    MaxEdits = 1
    MaxCrashes = 1
CHECK_DEADLOCK FALSE
SPECIFICATION FairSpec
PROPERTIES
    DeletedForGood
    ToldOfTheEnd
    StoppedIsCompleted
