CONSTANTS
    Stations = {CP001, CP002}
    Known = {CP001, CP002}
    Sockets = {k1, k2, k3}
    None = None
    MaxCrashes = 0
SYMMETRY Symmetry
SPECIFICATION Spec
CHECK_DEADLOCK FALSE
INVARIANTS
    ConnectedIsReachable
