------------------------- MODULE MCStationRegistry -------------------------
EXTENDS StationRegistry, TLC

Symmetry == Permutations(Sockets)
=============================================================================
