\* Two autocommit statements that share one server connection.
SPECIFICATION FairSpec
CONSTANTS
  Requests = {r1, r2}
  Conns = {c1}
  None = None
  MaxCancels = 1
INVARIANT AnswerIsTrue
PROPERTIES StoppedIsAnswered
CHECK_DEADLOCK TRUE
