------------------------- MODULE MCChargingSession --------------------------
EXTENDS ChargingSession, FiniteSetsExt, TLC

Symmetry ==
    Permutations(Users) \cup Permutations(Conns) \cup Permutations(Sessions) \cup Permutations(Reqs)

\* Bound: three charges, or fewer with a failure, an edit or a restart among them.
FewEvents ==
    MapThenSumSet(LAMBDA c : charge[c].n, Conns) + failures + edits + crashes + Cardinality(exempt) <= 3
=============================================================================
