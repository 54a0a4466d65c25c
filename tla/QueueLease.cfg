\* Jobs reserved, released, expired and acknowledged by competing workers.
SPECIFICATION Spec
CONSTANTS
  Jobs = {j1}
  Workers = {w1, w2}
  None = None
  LeaseS = 1
  Ceiling = 3
  Delays = {0, 1}
  MaxTime = 5
  MaxIds = 3
SYMMETRY Symmetric
INVARIANTS NoJobLostOrDoubled EffectOnce HolderKeepsItsJob
CHECK_DEADLOCK FALSE
