\* One connection shared by two callers that run every kind of statement, beside
\* the reaper; no symmetry, one property is temporal.
SPECIFICATION FairSpec
CONSTANTS
  Clients = {k1, k2}
  Conns = {c1, c2}
  MaxSize = 1
  CleanProfile = "targeted"
  Kinds = {"plain", "hidden", "mutating", "opens", "closes", "savepoint"}
  Reaper = Reaper
  NoConn = NoConn
INVARIANTS FlagsCover OnePlace PermitsConserved Capacity
PROPERTIES HandsOutPristine CheckoutEnds
