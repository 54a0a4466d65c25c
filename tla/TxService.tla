------------------------------ MODULE TxService ------------------------------
(***************************************************************************)
(* The transaction service of ferrod: the handlers of services/sql.rs that *)
(* open a transaction and forward requests to it, the actor that owns the  *)
(* pinned connection (tx/actor.rs), the table of transactions (tx/mod.rs)  *)
(* and the abort of a session's transactions.                              *)
(*                                                                         *)
(* Handlers, actors and sessions are tasks of their own.  What can go      *)
(* wrong is a request told something about its transaction that is not     *)
(* true: that it may be repeated although its effect is durable, that the  *)
(* transaction never existed although a deadline ended it, or nothing at   *)
(* all.                                                                    *)
(***************************************************************************)
EXTENDS Naturals, Sequences, FiniteSets, Fate

CONSTANTS
  Owners,        \* sessions (SessionId)
  Txs,           \* transaction ids; each is drawn once
  Requests,      \* requests; each is made once
  Verbs,         \* verbs in play
  QueueCap,      \* TX_CMD_CHANNEL_CAP
  TombstoneCap,  \* TOMBSTONE_CAP
  TxAfterError,  \* where a failed statement may leave a transaction
  NoOwner, NoTx, NoRequest

ASSUME CapAssumption == QueueCap \in Nat \ {0} /\ TombstoneCap \in Nat \ {0}
(* PostgreSQL aborts the block, MySQL keeps it open or, on a deadlock,     *)
(* rolls the whole transaction back.                                       *)
ASSUME ErrorAssumption == TxAfterError \subseteq {"open", "failed", "idle"}
ASSUME NoneAssumption ==
  NoOwner \notin Owners /\ NoTx \notin Txs /\ NoRequest \notin Requests

(* EXEC buffered, EXEC streamed or COPY (the Responder moves into the      *)
(* command), a QUEUE verb in a transaction.                                *)
Statements == {"exec", "stream", "queue"}
(* SAVEPOINT, RELEASE and ROLLBACK_TO are one verb here.                   *)
AllVerbs == {"begin", "savepoint", "commit", "rollback"} \cup Statements

ASSUME VerbAssumption == Verbs \subseteq AllVerbs

VARIABLES
  req,      \* each request: what it asks, where its handler is, its terminal
  reply,    \* the oneshot between actor and handler
  effect,   \* what became of each request's effect on the database
  table,    \* TxTable::map: absent, active or tombstoned
  owner,    \* who opened each transaction
  order,    \* TxTable::tombstone_order
  actor,    \* where each transaction's actor is
  why,      \* TxEnd, once its loop has ended
  cmd,      \* the command it is running
  queue,    \* its command channel
  abort,    \* its abort token
  held,     \* whether it still has the Checkout
  tx,       \* the transaction, as the server knows it
  link,     \* the connection to the server
  txOpen,   \* the transactions whose Checkout says tx_open, while it is held
            \* and in the idle stack
  session,  \* where each session's teardown is
  snapshot  \* abort_session: the handles it waits for

reqVars == <<req, reply, effect>>
tableVars == <<table, owner, order>>
actorVars == <<actor, why, cmd, queue, abort, held>>
serverVars == <<tx, link, txOpen>>
sessionVars == <<session, snapshot>>
vars == <<reqVars, tableVars, actorVars, serverVars, sessionVars>>

NoReq == [verb |-> "exec", by |-> NoOwner, tx |-> NoTx, at |-> "new",
          end |-> "none"]

Init ==
  /\ req = [r \in Requests |-> NoReq]
  /\ reply = [r \in Requests |-> "empty"]
  /\ effect = [r \in Requests |-> "none"]
  /\ table = [t \in Txs |-> "none"]
  /\ owner = [t \in Txs |-> NoOwner]
  /\ order = <<>>
  /\ actor = [t \in Txs |-> "unborn"]
  /\ why = [t \in Txs |-> "none"]
  /\ cmd = [t \in Txs |-> NoRequest]
  /\ queue = [t \in Txs |-> <<>>]
  /\ abort = [t \in Txs |-> FALSE]
  /\ held = [t \in Txs |-> FALSE]
  /\ tx = [t \in Txs |-> "idle"]
  /\ link = [t \in Txs |-> "up"]
  /\ txOpen = {}
  /\ session = [s \in Owners |-> "open"]
  /\ snapshot = [s \in Owners |-> {}]

-----------------------------------------------------------------------------
(* TxRegistry.                                                             *)

(* lookup: owner-scoped, so another session's id looks like an unknown one.*)
Resolve(t, s) ==
  CASE table[t] = "active" /\ owner[t] = s    -> "active"
    [] table[t] = "tombstone" /\ owner[t] = s -> "TxDeadline"
    [] OTHER                                  -> "TxNotFound"

(* actor_gone_terminal: a fresh lookup once the actor is unreachable.      *)
ActorGone(t, s) == IF Resolve(t, s) = "TxDeadline" THEN "TxDeadline"
                                                   ELSE "TxNotFound"

(* Mutant: a deadline leaves no tombstone.                                 *)
RecordedForgets(t) == [table EXCEPT ![t] = "none"]

(* tombstone on a deadline, deregister otherwise; a purged entry stays     *)
(* purged.                                                                 *)
Recorded(t) ==
  [table EXCEPT ![t] = IF why[t] = "Deadline" /\ @ # "none" THEN "tombstone"
                                                            ELSE "none"]

(* The oldest tombstone goes when the order outgrows the cap; an id whose  *)
(* tombstone a session abort already purged is only dropped from the order.*)
Evicted(tab, ord) ==
  IF Len(ord) > TombstoneCap /\ tab[Head(ord)] = "tombstone"
    THEN [tab EXCEPT ![Head(ord)] = "none"]
    ELSE tab

-----------------------------------------------------------------------------
(* The terminal of a request, and the ways an actor answers one.           *)

Ends(r, code) == req' = [req EXCEPT ![r].at = "over", ![r].end = code]

(* declare_ctl: a lost COMMIT is a possible lost write, the others are not.*)
ControlContext(verb) ==
  [readonly |-> verb # "commit", sent |-> TRUE, inTx |-> FALSE]
StatementContext == [readonly |-> FALSE, sent |-> TRUE, inTx |-> TRUE]

(* What the handler declares for a reply; "deadline" is ExecReply::Deadline*)
(* and queue_rolled_back, "unsent" a QUEUE verb cancelled before it was    *)
(* dispatched, "lease" one that found its lease lost, "unknown" a          *)
(* savepoint nobody set.                                                   *)
Declared(verb, rep) ==
  CASE rep = "ok"       -> "Ok"
    [] rep = "deadline" -> "TxDeadline"
    [] rep = "unsent"   -> "Cancelled"
    [] rep = "lease"    -> "LeaseLost"
    [] rep = "unknown"  -> "Protocol"
    [] OTHER            -> ClassifyFate(rep, IF verb \in Statements
                                               THEN StatementContext
                                               ELSE ControlContext(verb))

(* A moved Responder is declared on by the actor; other replies wait for   *)
(* the handler.                                                            *)
Answer(r, rep) ==
  IF req[r].verb = "stream"
    THEN Ends(r, Declared("stream", rep)) /\ UNCHANGED reply
    ELSE reply' = [reply EXCEPT ![r] = rep] /\ UNCHANGED req

-----------------------------------------------------------------------------
(* Handlers.                                                               *)

(* A frame arrives while the session's reader runs.  A client knows only   *)
(* ids that BEGIN has answered, though perhaps another session's.          *)
Request(r, s, verb, t) ==
  /\ req[r].at = "new"
  /\ session[s] = "open"
  /\ verb # "begin" => t \in Txs /\ actor[t] # "unborn"
  /\ verb = "begin" => t = NoTx
  /\ req' = [req EXCEPT ![r] =
               [verb |-> verb, by |-> s, tx |-> t, end |-> "none",
                at |-> IF verb = "begin" THEN "checkout" ELSE "lookup"]]
  /\ UNCHANGED <<reply, effect, tableVars, actorVars, serverVars, sessionVars>>

(* begin_on_pool, once begin_tx_with has answered: register, spawn, reply. *)
(* Nothing here looks at the session's cancel token or at its teardown.    *)
BeginOpens(r, t) ==
  /\ req[r].at = "checkout"
  /\ actor[t] = "unborn"
  /\ req' = [req EXCEPT ![r].at = "over", ![r].end = "Ok", ![r].tx = t]
  /\ table' = [table EXCEPT ![t] = "active"]
  /\ owner' = [owner EXCEPT ![t] = req[r].by]
  /\ actor' = [actor EXCEPT ![t] = "idle"]
  /\ held' = [held EXCEPT ![t] = TRUE]
  /\ tx' = [tx EXCEPT ![t] = "open"]
  /\ txOpen' = txOpen \cup {t}
  /\ UNCHANGED <<reply, effect, order, why, cmd, queue, abort, link, sessionVars>>

(* The checkout or the BEGIN failed: no user statement was sent.           *)
BeginFails(r, err) ==
  /\ req[r].at = "checkout"
  /\ Ends(r, ClassifyFate(err, [readonly |-> FALSE, sent |-> FALSE,
                                inTx |-> FALSE]))
  /\ UNCHANGED <<reply, effect, tableVars, actorVars, serverVars, sessionVars>>

(* resolve_active.                                                         *)
Lookup(r) ==
  LET found == Resolve(req[r].tx, req[r].by) IN
  /\ req[r].at = "lookup"
  /\ IF found = "active" THEN req' = [req EXCEPT ![r].at = "send"]
                         ELSE Ends(r, found)
  /\ UNCHANGED <<reply, effect, tableVars, actorVars, serverVars, sessionVars>>

(* A statement refused before it is sent: a stream or COPY the backend     *)
(* does not have, a bad query id, a queue store of another pool, or one    *)
(* whose first use cannot be verified (on a connection of its own) in the  *)
(* time the request has left.                                              *)
Refuse(r) ==
  /\ req[r].at = "send"
  /\ req[r].verb \in Statements
  /\ \E code \in IF req[r].verb = "queue"
                   THEN {"Unsupported", "PoolTimeout", "ConnectionLost", "Cancelled"}
                   ELSE {"Unsupported", "Protocol"} : Ends(r, code)
  /\ UNCHANGED <<reply, effect, tableVars, actorVars, serverVars, sessionVars>>

(* The channel is closed once the actor drains it.                         *)
Closed(t) == actor[t] \in {"signal", "gone"}

(* cmd_tx.send: waits while the channel is full, fails once it is closed.  *)
Send(r) ==
  LET t == req[r].tx IN
  /\ req[r].at = "send"
  /\ \/ /\ ~ Closed(t)
        /\ Len(queue[t]) < QueueCap
        /\ queue' = [queue EXCEPT ![t] = Append(@, r)]
        /\ req' = [req EXCEPT ![r].at = "wait"]
     \/ /\ Closed(t)
        /\ Ends(r, ActorGone(t, req[r].by))
        /\ UNCHANGED queue
  /\ UNCHANGED <<reply, effect, tableVars, actor, why, cmd, abort, held,
                 serverVars, sessionVars>>

(* The handler's recv resolves: the actor's reply, or a dropped sender.    *)
Declare(r) ==
  /\ req[r].at = "wait"
  /\ reply[r] # "empty"
  /\ Ends(r, IF reply[r] = "dropped" THEN ActorGone(req[r].tx, req[r].by)
                                     ELSE Declared(req[r].verb, reply[r]))
  /\ UNCHANGED <<reply, effect, tableVars, actorVars, serverVars, sessionVars>>

-----------------------------------------------------------------------------
(* What the server makes of statement r of transaction t (external), and   *)
(* what the Checkout then believes of the transaction.                     *)

(* apply_tx_status: the status byte behind an answer that could be read.   *)
Confirmed(t) == IF tx'[t] = "idle" THEN txOpen \ {t} ELSE txOpen \cup {t}

(* Rule A: after an error a transaction may be open, whatever was read.    *)
Suspected(t) == txOpen \cup {t}

(* The effects still inside transaction t become x.                        *)
Settle(t, x) == [q \in Requests |-> IF req[q].tx = t /\ effect[q] = "pending"
                                      THEN x ELSE effect[q]]

(* It runs: inside the transaction, or by itself if that is gone.  A       *)
(* result that the driver cannot decode is an error of the Checkout too.   *)
ServerOk(t, r) ==
  /\ link[t] = "up"
  /\ tx[t] # "failed"
  /\ effect' = [effect EXCEPT ![r] = IF tx[t] = "open" THEN "pending"
                                                       ELSE "durable"]
  /\ UNCHANGED <<tx, link>>
  /\ txOpen' \in {Confirmed(t), Suspected(t)}

(* It is refused or cancelled; a deadlock may undo the whole transaction.  *)
ServerErr(t, r) ==
  /\ link[t] = "up"
  /\ \E after \in IF tx[t] = "open" THEN TxAfterError ELSE {tx[t]} :
       /\ tx' = [tx EXCEPT ![t] = after]
       /\ effect' = IF after = "idle" THEN Settle(t, "undone") ELSE effect
  /\ txOpen' = Suspected(t)
  /\ UNCHANGED link

(* The link dies, or was dead: the server rolls back what is open.         *)
LinkDies(t) ==
  /\ link' = [link EXCEPT ![t] = "lost"]
  /\ tx' = [tx EXCEPT ![t] = "idle"]
  /\ txOpen' = Suspected(t)

ServerLost(t, r) ==
  /\ LinkDies(t)
  /\ \E fate \in IF link[t] = "up" /\ tx[t] = "idle" THEN {"durable", "undone"}
                                                   ELSE {"undone"} :
       effect' = [Settle(t, "undone") EXCEPT ![r] = fate]

-----------------------------------------------------------------------------
(* actor::run.                                                             *)

Running(t, verbs) == actor[t] = "run" /\ req[cmd[t]].verb \in verbs

(* A command was processed: back to the outer select.                      *)
Continue(t) == actor' = [actor EXCEPT ![t] = "idle"] /\ UNCHANGED why

(* The loop breaks with a TxEnd: teardown is next.                         *)
Break(t, end) ==
  /\ actor' = [actor EXCEPT ![t] = "rollback"]
  /\ why' = [why EXCEPT ![t] = end]

(* abort.is_cancelled() decides how a broken stream ends its transaction.  *)
StreamEnd(t) == IF abort[t] THEN "Abort" ELSE "Deadline"
BreakEnd(t) == IF req[cmd[t]].verb = "stream" THEN StreamEnd(t) ELSE "Deadline"

(* The outer select, biased: abort, then the deadlines, then a command.    *)
LoopAbort(t) ==
  /\ actor[t] = "idle"
  /\ abort[t]
  /\ Break(t, "Abort")
  /\ UNCHANGED <<reqVars, tableVars, cmd, queue, abort, held, serverVars,
                 sessionVars>>

(* Mutant: an idle transaction is never timed out.                         *)
LoopDeadlineNever(t) == FALSE

(* The idle or the max_tx timer.                                           *)
LoopDeadline(t) ==
  /\ actor[t] = "idle"
  /\ ~ abort[t]
  /\ Break(t, "Deadline")
  /\ UNCHANGED <<reqVars, tableVars, cmd, queue, abort, held, serverVars,
                 sessionVars>>

(* recv() yields None: the table's handle and every handler's clone of it  *)
(* are gone.                                                               *)
LoopSendersGone(t) ==
  /\ actor[t] = "idle"
  /\ ~ abort[t]
  /\ queue[t] = <<>>
  /\ table[t] = "none"
  /\ \A r \in Requests : ~ (req[r].tx = t /\ req[r].at \in {"send", "wait"})
  /\ Break(t, "Abort")
  /\ UNCHANGED <<reqVars, tableVars, cmd, queue, abort, held, serverVars,
                 sessionVars>>

Take(t) ==
  /\ actor[t] = "idle"
  /\ ~ abort[t]
  /\ queue[t] # <<>>
  /\ cmd' = [cmd EXCEPT ![t] = Head(queue[t])]
  /\ queue' = [queue EXCEPT ![t] = Tail(@)]
  /\ actor' = [actor EXCEPT ![t] = "run"]
  /\ UNCHANGED <<reqVars, tableVars, why, abort, held, serverVars, sessionVars>>

(* COMMIT and ROLLBACK end the actor whatever they answer; a COMMIT of an  *)
(* aborted block, or of one the server undid, answers Ok too.  One that    *)
(* fails may leave the transaction as it was.                              *)
Commit(t) ==
  LET r == cmd[t] IN
  /\ Running(t, {"commit"})
  /\ \/ /\ link[t] = "up"
        /\ effect' = IF tx[t] = "open"
                        THEN [Settle(t, "durable") EXCEPT ![r] = "durable"]
                        ELSE [Settle(t, "undone") EXCEPT ![r] = "undone"]
        /\ tx' = [tx EXCEPT ![t] = "idle"]
        /\ txOpen' = Confirmed(t)
        /\ Answer(r, "ok")
        /\ UNCHANGED link
     \/ /\ link[t] = "up"
        /\ \/ /\ tx' = [tx EXCEPT ![t] = "idle"]
              /\ effect' = [Settle(t, "undone") EXCEPT ![r] = "undone"]
           \/ /\ UNCHANGED tx
              /\ effect' = [effect EXCEPT ![r] = "undone"]
        /\ txOpen' = Suspected(t)
        /\ \E err \in {"sql", "cancel"} : Answer(r, err)
        /\ UNCHANGED link
     \/ /\ LinkDies(t)
        /\ \E fate \in IF link[t] = "up" /\ tx[t] = "open"
                         THEN {"durable", "undone"} ELSE {"undone"} :
             effect' = [Settle(t, fate) EXCEPT ![r] = fate]
        /\ Answer(r, "lost")
  /\ Break(t, "Ended")
  /\ UNCHANGED <<tableVars, cmd, queue, abort, held, sessionVars>>

(* rollback_tx: the server rolls back and says so, ...                     *)
RollbackOk(t) ==
  /\ link[t] = "up"
  /\ tx' = [tx EXCEPT ![t] = "idle"]
  /\ effect' = Settle(t, "undone")
  /\ txOpen' = Confirmed(t)
  /\ UNCHANGED link

(* ... or it fails and the transaction stays as it is.                     *)
RollbackErr(t) ==
  /\ txOpen' = Suspected(t)
  /\ UNCHANGED <<tx, link, effect>>

Rollback(t) ==
  /\ Running(t, {"rollback"})
  /\ \/ RollbackOk(t) /\ Answer(cmd[t], "ok")
     \/ link[t] = "up" /\ RollbackErr(t)
            /\ \E err \in {"sql", "cancel"} : Answer(cmd[t], err)
     \/ LinkDies(t) /\ effect' = Settle(t, "undone") /\ Answer(cmd[t], "lost")
  /\ Break(t, "Ended")
  /\ UNCHANGED <<tableVars, cmd, queue, abort, held, sessionVars>>

(* A savepoint verb.  ROLLBACK TO leaves an aborted block; the effects it  *)
(* undoes are left pending here, the worse case for every property.        *)
Savepoint(t) ==
  LET r == cmd[t] IN
  /\ Running(t, {"savepoint"})
  /\ \/ /\ link[t] = "up"
        /\ tx' = [tx EXCEPT ![t] = IF @ = "failed" THEN "open" ELSE @]
        /\ txOpen' = Confirmed(t)
        /\ Answer(r, "ok")
        /\ UNCHANGED <<effect, link>>
     \/ ServerErr(t, r) /\ \E err \in {"sql", "cancel"} : Answer(r, err)
     \/ LinkDies(t) /\ effect' = Settle(t, "undone") /\ Answer(r, "lost")
     \/ Answer(r, "unknown") /\ UNCHANGED <<effect, serverVars>>
  /\ Continue(t)
  /\ UNCHANGED <<tableVars, cmd, queue, abort, held, sessionVars>>

Unread(verb) == CASE verb = "exec"   -> {"ok", "backend", "unsupported"}
                  [] verb = "stream" -> {"ok", "backend"}
                  [] verb = "queue"  -> {"ok"}

(* A statement reaches its own conclusion and the transaction goes on:     *)
(* whatever the answer, a lost link included.  "backend" is a result the   *)
(* driver could not decode, "unsupported" one that fits no frame: the      *)
(* statement itself ran.                                                   *)
Completes(t) ==
  LET r == cmd[t] IN
  /\ Running(t, Statements)
  /\ \/ ServerOk(t, r) /\ \E rep \in Unread(req[r].verb) : Answer(r, rep)
     \/ ServerErr(t, r) /\ Answer(r, "sql")
     \/ ServerLost(t, r) /\ Answer(r, "lost")
  /\ Continue(t)
  /\ UNCHANGED <<tableVars, cmd, queue, abort, held, sessionVars>>

(* A QUEUE verb that changes nothing: its CANCEL came before the dispatch, *)
(* or the server found its lease lost.                                     *)
QueueNoEffect(t) ==
  /\ Running(t, {"queue"})
  /\ UNCHANGED <<effect, tx, link>>
  /\ \/ Answer(cmd[t], "unsent") /\ UNCHANGED txOpen
     \/ link[t] = "up" /\ tx[t] # "failed" /\ Answer(cmd[t], "lease")
            /\ txOpen' = Confirmed(t)
  /\ Continue(t)
  /\ UNCHANGED <<tableVars, cmd, queue, abort, held, sessionVars>>

(* Mutant: a statement's own 57014 is forwarded and the transaction kept.  *)
CancelledKeepsTx(t) ==
  /\ Running(t, Statements)
  /\ ServerErr(t, cmd[t])
  /\ Answer(cmd[t], "deadline")
  /\ Continue(t)
  /\ UNCHANGED <<tableVars, cmd, queue, abort, held, sessionVars>>

(* 57014 as the statement's own answer: reply first, then the teardown of  *)
(* a deadline.                                                             *)
Cancelled(t) ==
  /\ Running(t, Statements)
  /\ ServerErr(t, cmd[t])
  /\ Answer(cmd[t], "deadline")
  /\ Break(t, BreakEnd(t))
  /\ UNCHANGED <<tableVars, cmd, queue, abort, held, sessionVars>>

(* A QUEUE write whose result cannot be read, a streamed row that fits no  *)
(* frame, a client that is gone: the statement ran, the transaction is     *)
(* rolled back.                                                            *)
Unreadable(t) ==
  LET r == cmd[t] IN
  /\ Running(t, {"queue", "stream"})
  /\ ServerOk(t, r)
  /\ \E rep \in IF req[r].verb = "queue" THEN {"unsupported"}
                                         ELSE {"unsupported", "lost"} :
       Answer(r, rep)
  /\ Break(t, BreakEnd(t))
  /\ UNCHANGED <<tableVars, cmd, queue, abort, held, sessionVars>>

(* run_interruptible, another arm wins: max_tx, timeout_ms or CANCEL, or   *)
(* the session's abort.  The statement is cancelled out of band.           *)
Interrupt(t, end) ==
  /\ Running(t, Statements)
  /\ end = "Abort" => abort[t]
  /\ actor' = [actor EXCEPT ![t] = "stop"]
  /\ why' = [why EXCEPT ![t] = end]
  /\ UNCHANGED <<reqVars, tableVars, cmd, queue, abort, held, serverVars,
                 sessionVars>>

(* ... and drained to its real end, which nobody is told: not even an Ok   *)
(* that won the race.                                                      *)
Drained(t) ==
  LET r == cmd[t] IN
  /\ actor[t] = "stop"
  /\ ServerOk(t, r) \/ ServerErr(t, r) \/ ServerLost(t, r)
  /\ IF req[r].verb # "stream" /\ why[t] = "Abort"
       THEN Answer(r, "dropped")
       ELSE Answer(r, "deadline")
  /\ Break(t, IF req[r].verb = "stream" THEN StreamEnd(t) ELSE why[t])
  /\ UNCHANGED <<tableVars, cmd, queue, abort, held, sessionVars>>

-----------------------------------------------------------------------------
(* The end of an actor: teardown, drain_buffered_on_teardown, done.        *)

(* Mutant: rollback_tx clears tx_open before it knows the answer.          *)
ReleaseForgets(t) ==
  /\ actor[t] = "rollback"
  /\ held' = [held EXCEPT ![t] = FALSE]
  /\ \/ why[t] # "Ended" /\ RollbackOk(t)
     \/ why[t] # "Ended" /\ txOpen' = txOpen \ {t} /\ UNCHANGED <<tx, link, effect>>
     \/ why[t] = "Ended" /\ UNCHANGED <<effect, serverVars>>
  /\ actor' = [actor EXCEPT ![t] = "record"]
  /\ UNCHANGED <<req, reply, tableVars, why, cmd, queue, abort, sessionVars>>

(* teardown: after COMMIT or ROLLBACK the Checkout is dropped as it is.    *)
(* After a deadline or an abort a ROLLBACK comes first: it answers, fails  *)
(* (its link dies, say) or teardown_timeout passes.  Then the transaction  *)
(* is still open on the server, and only tx_open says so.                  *)
Release(t) ==
  /\ actor[t] = "rollback"
  /\ held' = [held EXCEPT ![t] = FALSE]
  /\ \/ why[t] # "Ended" /\ RollbackOk(t)
     \/ why[t] # "Ended" /\ RollbackErr(t)
     \/ UNCHANGED <<effect, serverVars>>
  /\ actor' = [actor EXCEPT ![t] = "record"]
  /\ UNCHANGED <<req, reply, tableVars, why, cmd, queue, abort, sessionVars>>

(* What ends such a transaction, if anything does: the ROLLBACK that the   *)
(* next checkout sends before it hands the connection out, or the server   *)
(* itself, once the connection is evicted or its link dies.                *)
Recycle(t) ==
  /\ actor[t] \in {"record", "drain", "signal", "gone"}
  /\ t \in txOpen /\ tx[t] # "idle"
  /\ tx' = [tx EXCEPT ![t] = "idle"]
  /\ effect' = Settle(t, "undone")
  /\ txOpen' = txOpen \ {t}
  /\ UNCHANGED <<req, reply, tableVars, actorVars, link, sessionVars>>

Record(t) ==
  LET ord == IF Recorded(t)[t] = "tombstone" THEN Append(order, t) ELSE order IN
  /\ actor[t] = "record"
  /\ table' = Evicted(Recorded(t), ord)
  /\ order' = IF Len(ord) > TombstoneCap THEN Tail(ord) ELSE ord
  /\ actor' = [actor EXCEPT ![t] = "drain"]
  /\ UNCHANGED <<reqVars, owner, why, cmd, queue, abort, held, serverVars,
                 sessionVars>>

(* Mutant: a buffered command keeps its reply sender.                      *)
DrainLeavesBuffered(t) ==
  /\ actor[t] = "drain"
  /\ actor' = [actor EXCEPT ![t] = "signal"]
  /\ UNCHANGED <<reqVars, tableVars, why, cmd, queue, abort, held, serverVars,
                 sessionVars>>

(* The channel is closed and emptied: a moved Responder is declared on,    *)
(* other commands drop their reply sender.                                 *)
Drain(t) ==
  LET buffered == {queue[t][i] : i \in 1..Len(queue[t])}
      moved == {r \in buffered : req[r].verb = "stream"}
      code == IF why[t] = "Ended" THEN "Protocol" ELSE "TxDeadline"
  IN
  /\ actor[t] = "drain"
  /\ req' = [r \in Requests |->
               IF r \in moved THEN [req[r] EXCEPT !.at = "over", !.end = code]
                              ELSE req[r]]
  /\ reply' = [r \in Requests |-> IF r \in buffered \ moved THEN "dropped"
                                                            ELSE reply[r]]
  /\ queue' = [queue EXCEPT ![t] = <<>>]
  /\ actor' = [actor EXCEPT ![t] = "signal"]
  /\ UNCHANGED <<effect, tableVars, why, cmd, abort, held, serverVars, sessionVars>>

Signal(t) ==
  /\ actor[t] = "signal"
  /\ actor' = [actor EXCEPT ![t] = "gone"]
  /\ UNCHANGED <<reqVars, tableVars, why, cmd, queue, abort, held, serverVars,
                 sessionVars>>

-----------------------------------------------------------------------------
(* abort_session.                                                          *)

(* The owned live handles, under the lock; then their abort tokens.        *)
AbortSession(s) ==
  LET owned == {t \in Txs : table[t] = "active" /\ owner[t] = s} IN
  /\ session[s] = "open"
  /\ session' = [session EXCEPT ![s] = "aborting"]
  /\ snapshot' = [snapshot EXCEPT ![s] = owned]
  /\ abort' = [t \in Txs |-> abort[t] \/ t \in owned]
  /\ UNCHANGED <<reqVars, tableVars, actor, why, cmd, queue, held, serverVars>>

Purge(s) ==
  /\ session[s] = "aborting"
  /\ session' = [session EXCEPT ![s] = "purged"]
  /\ table' = [t \in Txs |-> IF owner[t] = s THEN "none" ELSE table[t]]
  /\ UNCHANGED <<reqVars, owner, order, actorVars, serverVars, snapshot>>

(* Every actor it waits for has signalled done, or abort_deadline passed.  *)
AbortDone(s) == (\A t \in snapshot[s] : actor[t] = "gone") /\ Purge(s)
AbortTimesOut(s) == (\E t \in snapshot[s] : actor[t] # "gone") /\ Purge(s)

-----------------------------------------------------------------------------
HandlerStep(r) ==
  \/ \E t \in Txs : BeginOpens(r, t)
  \/ \E err \in {"timeout", "lost", "sql"} : BeginFails(r, err)
  \/ Lookup(r) \/ Refuse(r) \/ Send(r) \/ Declare(r)

(* What the actor does by itself once it has a command or must end.        *)
ActorStep(t) ==
  \/ Take(t) \/ LoopAbort(t) \/ LoopSendersGone(t)
  \/ Commit(t) \/ Rollback(t) \/ Savepoint(t)
  \/ Completes(t) \/ QueueNoEffect(t) \/ Cancelled(t) \/ Unreadable(t)
  \/ \E end \in {"Abort", "Deadline"} : Interrupt(t, end)
  \/ Drained(t)
  \/ Release(t) \/ Record(t) \/ Drain(t) \/ Signal(t)

(* Every session is over: the daemon waits for others.  What the ended     *)
(* sessions may leave behind is for EveryRequestEnds and SessionTxsEnd.    *)
Quiet ==
  /\ \A s \in Owners : session[s] = "purged"
  /\ UNCHANGED vars

Next ==
  \/ \E r \in Requests : HandlerStep(r)
  \/ \E r \in Requests, s \in Owners, verb \in Verbs, t \in Txs \cup {NoTx} :
       Request(r, s, verb, t)
  \/ \E t \in Txs : ActorStep(t) \/ LoopDeadline(t) \/ Recycle(t)
  \/ \E s \in Owners : AbortSession(s) \/ AbortDone(s) \/ AbortTimesOut(s)
  \/ Quiet

Spec == Init /\ [][Next]_vars

(* Tasks are scheduled and timers fire.  The server answers, or its link   *)
(* dies; when a session ends is up to its client.                          *)
FairSpec ==
  /\ Spec
  /\ \A r \in Requests : WF_vars(HandlerStep(r))
  /\ \A t \in Txs : WF_vars(ActorStep(t)) /\ WF_vars(LoopDeadline(t))

-----------------------------------------------------------------------------
(* Properties.                                                             *)

Replies == Errors \cup {"empty", "ok", "deadline", "unsent", "lease",
                        "unknown", "dropped"}

(* Every variable has its type, and no channel holds more commands than    *)
(* TX_CMD_CHANNEL_CAP.                                                     *)
TypeOK ==
  /\ req \in [Requests -> [verb : AllVerbs, by : Owners \cup {NoOwner},
                           tx : Txs \cup {NoTx},
                           at : {"new", "checkout", "lookup", "send", "wait", "over"},
                           end : Codes \cup {"none"}]]
  /\ reply \in [Requests -> Replies]
  /\ effect \in [Requests -> {"none", "pending", "durable", "undone"}]
  /\ table \in [Txs -> {"none", "active", "tombstone"}]
  /\ owner \in [Txs -> Owners \cup {NoOwner}]
  /\ order \in Seq(Txs)
  /\ actor \in [Txs -> {"unborn", "idle", "run", "stop", "rollback", "record",
                        "drain", "signal", "gone"}]
  /\ why \in [Txs -> {"none", "Ended", "Abort", "Deadline"}]
  /\ cmd \in [Txs -> Requests \cup {NoRequest}]
  /\ queue \in [Txs -> Seq(Requests)]
  /\ \A t \in Txs : Len(queue[t]) <= QueueCap
  /\ abort \in [Txs -> BOOLEAN]
  /\ held \in [Txs -> BOOLEAN]
  /\ tx \in [Txs -> {"idle", "open", "failed"}]
  /\ link \in [Txs -> {"up", "lost"}]
  /\ txOpen \subseteq Txs
  /\ session \in [Owners -> {"open", "aborting", "purged"}]
  /\ snapshot \in [Owners -> SUBSET Txs]

(* A request that ends with a retryable code was not applied and never     *)
(* will be.  If it is told TxDeadline, or its link died under it, nothing  *)
(* of its whole transaction is durable or becomes so, whatever else is     *)
(* sent to that transaction: a client that runs it again applies it once   *)
(* (fate.rs, declare_ctl, ExecReply::Deadline).                            *)
RetryIsSafe ==
  \A r \in Requests :
    req[r].end \in Retryable /\ req[r].tx \in Txs =>
      /\ effect[r] # "durable"
      /\ req[r].end = "TxDeadline" \/ effect[r] # "none" =>
           \A q \in Requests : req[q].tx = req[r].tx => effect[q] # "durable"

(* The owner of a transaction that a deadline ended is told TxDeadline,    *)
(* however its request raced the teardown, and TxNotFound only once        *)
(* TOMBSTONE_CAP younger tombstones pushed that one out or the session     *)
(* is over (tombstone before drain before done).                           *)
DeadlineIsTold ==
  \A r \in Requests :
    LET t == req[r].tx IN
    req[r].end = "TxNotFound" /\ why[t] = "Deadline" /\ owner[t] = req[r].by
    => \/ session[owner[t]] = "purged"
       \/ Len(order) = TombstoneCap /\ \A i \in 1..TombstoneCap : order[i] # t

(* When abort_session returns before its own deadline, every transaction   *)
(* it found has let go of its connection and left no request in the        *)
(* channel without an answer, and nothing of it is still open on the       *)
(* server, unless its ROLLBACK failed or timed out: then the connection    *)
(* went back saying tx_open, which is what makes the next checkout roll    *)
(* back before it hands the connection to anyone (teardown, rollback_tx,   *)
(* commit_tx).                                                             *)
AbortMeansOver ==
  [][\A s \in Owners : AbortDone(s) =>
       \A t \in snapshot[s] :
         /\ ~ held[t]
         /\ \A r \in Requests : req[r].tx = t /\ req[r].at = "wait"
                                 => reply[r] # "empty"
         /\ \/ t \in txOpen
            \/ /\ tx[t] = "idle"
               /\ \A r \in Requests : req[r].tx = t => effect[r] # "pending"]_vars

(* Every request ends in a terminal, however it races the end of its       *)
(* transaction or of its session.                                          *)
EveryRequestEnds ==
  \A r \in Requests : req[r].at # "new" ~> req[r].at = "over"

(* A session that is gone keeps no connection pinned for ever: an actor    *)
(* its abort missed ends by a deadline.                                    *)
SessionTxsEnd ==
  \A s \in Owners, t \in Txs :
    session[s] = "purged" /\ owner[t] = s ~> actor[t] = "gone"

=============================================================================
