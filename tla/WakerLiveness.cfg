\* One waiter on two queues, and everything that can happen to it.
SPECIFICATION WakerFairSpec
CONSTANTS
  Waiters = {w1}
  Events = {"timer", "teardown", "cancel", "drain", "failure", "elsewhere"}
  Queues = {qa, qb}
  Jobs = {j1}
  ListLen = 2
  Clamp = 1
  SweepCap = 1
  Lease = 1
  MaxTime = 1
  MaxReservations = 1
  NoQueue = NoQueue
PROPERTIES ParkedIsServed HandlerWakes
INVARIANTS HintNotLost
