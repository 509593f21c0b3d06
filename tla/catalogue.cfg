SPECIFICATION Spec
CONSTANTS
  Stations = {i1, i2}
  Conns = {c1}
  Members = {u1}
  QrCodes = {k1, k2, k3}
  CatReqs = {r1, r2}
  Nil = Nil
  MaxLikes = 2
  Models = {m1, m2}
  Listed = {m1}
  Cars = {i1, i2}
  UserCars = {j1, j2}
  Drivers = {u1}
  Plates = {p1}
  CarReqs = {r1, r2}
  Void = Void
  Users = {u1, u2}
  Devices = {j1, j2}
  PushReqs = {r1, r2}
  NoUser = NoUser
  MaxMessages = 1
  BatchLimit = 1
  Prices <- MCPrices
  Standard = 2
  MaxReading = 2
  BillReqs = {r1, r2}
  Depots = {i1, i2}
  Offers = {j1, j2}
  Anywhere = Anywhere
  MaxDay = 2
SYMMETRY Symmetry
INVARIANTS CatalogueInv GarageInv ImportsInv DevicesInv  
CHECK_DEADLOCK FALSE
