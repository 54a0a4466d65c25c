\* Three requests, two connections, one dial at a time, a breaker that opens at one failure.
SPECIFICATION Spec
CONSTANTS
  Requests = {r1, r2, r3}
  Conns = {c1, c2}
  MaxConnections = 2
  MaxDials = 1
  MaxRequests = 2
  MaxQueued = 1
  Failures = 1
  Counts = {"timeout"}
  MaxEvents = 1
  NoConn = NoConn
SYMMETRY Symmetric
INVARIANTS FateIsTrue ProbeAccounted ConnectionsConserved NoLostWakeup
PROPERTIES OpensOnFreshEvidence FailureSeenFirst
