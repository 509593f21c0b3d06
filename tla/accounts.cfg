SPECIFICATION Spec
CONSTANTS
  Phones = {p1}
  Values = {v1, v2}
  Sess = {i1, i2}
  AuthReqs = {r1, r2}
  Nobody = Nobody
  MaxCodes = 2
  MaxClock = 1
  MaxAttempts = 1
  Window = 0
  Ttl = 0
  Owners = {u1, u2}
  Rows = {i1, i2}
  Tokens = {k1, k2}
  Numbers = {"n1"}
  CardReqs = {r1, r2}
  NoOne = NoOne
SYMMETRY Symmetry
INVARIANTS  CodeRules CardsInv
PROPERTIES LoginSpec
CHECK_DEADLOCK FALSE
