CONSTANTS
    Stations = {CP001, CP002}
    Known = {CP001}
    Sockets = {k1, k2, k3}
    None = None
    MaxCrashes = 1
SYMMETRY Symmetry
SPECIFICATION Spec
CHECK_DEADLOCK FALSE
INVARIANTS
    RegistryInv
    NoStaleSocket
    SteadyIsReachable
    ShownAsItIs
