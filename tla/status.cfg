CONSTANTS
    Conns = {c1}
    Reqs = {r1, r2}
    None = None
    RawStatuses = {"Available", "Charging", "Finishing", "Faulted"}
    MaxChanges = 3
    MaxFailures = 1
    MaxEdits = 2
    MaxCrashes = 1
SYMMETRY Symmetry
CHECK_DEADLOCK FALSE
SPECIFICATION Spec
INVARIANTS
    StatusInv
    SettlesRight
