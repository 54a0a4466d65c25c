-------------------------------- MODULE Fate --------------------------------
(***************************************************************************)
(* services/fate.rs: classify_fate, the one function that turns a          *)
(* PoolError into the code a request ends with.  The branch of that code   *)
(* is what a client's retry policy acts on, so a wrong one makes a client  *)
(* repeat a write that was applied.                                        *)
(***************************************************************************)

(* The variants of PoolError.  "cancel" is a Sql error that is_57014: a    *)
(* cancel or a statement timeout; "sql" any other answer of the server.    *)
Errors == {"cancel", "sql", "lost", "timeout", "unsupported", "closed",
           "backend"}

(* The codes a request can end with, "Ok" included.  A "Sql" code carries  *)
(* the server's own branch.                                                *)
Codes == {"Ok", "Sql", "TxDeadline", "ConnectionLost", "PoolTimeout",
          "WriteUnconfirmed", "Cancelled", "Unsupported", "Protocol",
          "TxNotFound", "LeaseLost"}

(* The codes whose branch lets a client repeat the request.                *)
Retryable == {"TxDeadline", "ConnectionLost", "PoolTimeout"}

(* The 57014 override: in_tx before readonly, readonly before sent.        *)
ClassifyCancel(c) ==
  CASE c.inTx                              -> "TxDeadline"
    [] ~ c.inTx /\ c.readonly              -> "Cancelled"
    [] ~ c.inTx /\ ~ c.readonly /\ c.sent  -> "WriteUnconfirmed"
    [] OTHER                              -> "ConnectionLost"

(* A lost link leaves the fate open only for a dispatched autocommit write *)
(* or a control statement (a COMMIT) that is not marked readonly.          *)
ClassifyLost(c) ==
  IF c.sent /\ ~ c.readonly /\ ~ c.inTx THEN "WriteUnconfirmed"
                                        ELSE "ConnectionLost"

(* An undecodable result ("backend") or a pool that closed has no branch   *)
(* of its own.                                                             *)
ClassifyFate(err, c) ==
  CASE err = "cancel"              -> ClassifyCancel(c)
    [] err = "sql"                 -> "Sql"
    [] err = "lost"                -> ClassifyLost(c)
    [] err = "timeout"             -> "PoolTimeout"
    [] err = "unsupported"         -> "Unsupported"
    [] err \in {"closed", "backend"} -> "Protocol"

=============================================================================
