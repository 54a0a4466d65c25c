\* Two waiters of one queue share the jobs of a sweep; either may vanish, leases
\* run out, and unreserves are late.
SPECIFICATION WakerSpec
CONSTANTS
  Waiters = {w1, w2}
  Queues = {qa}
  Jobs = {j1, j2}
  Events = {"teardown"}
  ListLen = 1
  Clamp = 1
  SweepCap = 2
  Lease = 1
  MaxTime = 3
  MaxReservations = 2
  NoQueue = NoQueue
SYMMETRY Symmetry
INVARIANTS DeliverXorUnreserve
