\* Two sessions, two transactions, their statements, savepoints and ends, meet
\* errors, lost links, deadlines, CANCELs and the end of a session.
SPECIFICATION Spec
CONSTANTS
  Owners = {s1, s2}
  Txs = {t1, t2}
  Requests = {r1, r2, r3}
  Verbs = {"begin", "exec", "stream", "commit", "savepoint", "rollback"}
  QueueCap = 1
  TombstoneCap = 1
  TxAfterError = {"open", "failed"}
  NoOwner = NoOwner
  NoTx = NoTx
  NoRequest = NoRequest
SYMMETRY Symmetry
INVARIANTS RetryIsSafe DeadlineIsTold
PROPERTIES AbortMeansOver
