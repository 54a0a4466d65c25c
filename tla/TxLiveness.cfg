\* Statements and ROLLBACK race the end of transaction and session, under fairness.
SPECIFICATION FairSpec
CONSTANTS
  Owners = {s1}
  Txs = {t1}
  Requests = {r1, r2, r3}
  Verbs = {"begin", "queue", "stream", "rollback"}
  QueueCap = 1
  TombstoneCap = 1
  TxAfterError = {"failed"}
  NoOwner = NoOwner
  NoTx = NoTx
  NoRequest = NoRequest
PROPERTIES EveryRequestEnds SessionTxsEnd
