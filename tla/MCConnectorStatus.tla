------------------------- MODULE MCConnectorStatus --------------------------
EXTENDS ConnectorStatus, TLC

Symmetry == Permutations(Conns) \cup Permutations(Reqs)
=============================================================================
