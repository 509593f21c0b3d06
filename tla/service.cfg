SPECIFICATION Spec
CONSTANTS
  Topics = {t1, t2}
  Langs = {l1, l2}
  LegalReqs = {r1}
  NoTopic = NoTopic
  MaxDocs = 2
  Names = {"CCS1", "CCS2", "Type 2", "other"}
  TypeOrder <- MCTypeOrder
  TypeIds <- MCTypeIds
  SeedOps = 1
  MaxId = 4
  NoName = NoName
  MaxRows = 3
  MaxLimit = 2
  Words = {"7", "my", "admin", "me"}
INVARIANTS LegalInv  ListInv DispatchInv
CHECK_DEADLOCK FALSE
