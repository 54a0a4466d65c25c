\* Two calls on one connection: one in-flight slot, two attempts, two sessions.
SPECIFICATION ClientSpec
CONSTANTS
  c1 = c1
  c2 = c2
  None = None
  Calls = {c1, c2}
  Kinds <- MCKinds
  MaxAttempts = 2
  MaxInFlight = 1
  MaxSessions = 2
INVARIANT ToldIsTrue
PROPERTY CallsEnd
