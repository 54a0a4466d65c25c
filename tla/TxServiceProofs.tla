--------------------------- MODULE TxServiceProofs ---------------------------
(***************************************************************************)
(* Proofs about TxService: what a request is told of its transaction is    *)
(* true, and an aborted session leaves nothing behind that the pool does   *)
(* not know of, for any sessions, transactions and requests and any        *)
(* capacities.                                                             *)
(***************************************************************************)
EXTENDS TxService, TLAPS

-----------------------------------------------------------------------------
(* The control invariant: where requests and actors can be.                *)

Early == {"new", "checkout", "lookup", "send"}
Alive == {"idle", "run", "stop"}
Ending == {"rollback", "record", "drain", "signal", "gone"}
Recording == {"drain", "signal", "gone"}

Buffered(t) == {queue[t][i] : i \in 1 .. Len(queue[t])}
Serves(t, r) == actor[t] \in {"run", "stop"} /\ cmd[t] = r
Unanswered(r) == req[r].at = "wait" /\ reply[r] = "empty"

(* A request has no terminal before its end, names a transaction that was  *)
(* opened, and has no effect before the actor has answered it.             *)
ReqOk(r) ==
  /\ req[r].at # "new" => req[r].by \in Owners
  /\ req[r].at \in {"new", "checkout"} => req[r].tx = NoTx
  /\ req[r].at \in {"lookup", "send", "wait"} => req[r].tx \in Txs
  /\ req[r].at # "over" => req[r].end = "none"
  /\ req[r].at \in Early => reply[r] = "empty"
  /\ reply[r] # "empty" => req[r].tx \in Txs
  /\ req[r].at \in Early \/ Unanswered(r) => effect[r] = "none"
  /\ req[r].tx \in Txs => actor[req[r].tx] # "unborn"
  /\ req[r].end = "TxNotFound" => req[r].tx \in Txs
ReqInv == \A r \in Requests : ReqOk(r)

(* A request waits unanswered exactly while its command is in the channel  *)
(* of its transaction, once, or being run by its actor.                    *)
QueueOk(t) ==
  /\ \A i \in 1 .. Len(queue[t]) :
       Unanswered(queue[t][i]) /\ req[queue[t][i]].tx = t
  /\ \A i, j \in 1 .. Len(queue[t]) : queue[t][i] = queue[t][j] => i = j
  /\ actor[t] \in {"run", "stop"} =>
       /\ cmd[t] \in Requests
       /\ Unanswered(cmd[t]) /\ req[cmd[t]].tx = t
       /\ \A i \in 1 .. Len(queue[t]) : queue[t][i] # cmd[t]
  /\ actor[t] \in {"signal", "gone"} => queue[t] = <<>>
QueueInv ==
  /\ \A t \in Txs : QueueOk(t)
  /\ \A r \in Requests :
       Unanswered(r) => r \in Buffered(req[r].tx) \/ Serves(req[r].tx, r)

(* A loop that has ended knows why; what the actor released stays released.*)
ActorOk(t) ==
  /\ actor[t] \in {"unborn", "idle", "run"} => why[t] = "none"
  /\ actor[t] = "stop" =>
       why[t] \in {"Abort", "Deadline"} /\ req[cmd[t]].verb \in Statements
  /\ actor[t] \in Ending => why[t] # "none"
  /\ actor[t] \in Ending \ {"rollback"} => held[t] = FALSE
ActorInv == \A t \in Txs : ActorOk(t)

(* The order of the tombstones: each transaction once, after its record.   *)
OrderInv ==
  /\ Len(order) <= TombstoneCap
  /\ \A i \in 1 .. Len(order) : actor[order[i]] \in Recording
  /\ \A i, j \in 1 .. Len(order) : order[i] = order[j] => i = j

(* The table: an entry is missing only because the session was purged, the *)
(* transaction ended otherwise than by a deadline, or younger tombstones   *)
(* pushed it out.                                                          *)
Purged(t) == session[owner[t]] = "purged"
Evictee(t) ==
  Len(order) = TombstoneCap /\ \A i \in 1 .. TombstoneCap : order[i] # t
TableOk(t) ==
  /\ actor[t] # "unborn" => owner[t] \in Owners
  /\ table[t] = "active" => actor[t] \in Alive \cup {"rollback", "record"}
  /\ table[t] = "tombstone" => why[t] = "Deadline" /\ actor[t] \in Recording
  /\ table[t] = "none" /\ actor[t] \in Alive \cup {"rollback", "record"}
       => Purged(t)
  /\ actor[t] \in Recording /\ why[t] = "Deadline"
       => table[t] = "tombstone" \/ Purged(t) \/ Evictee(t)
TableInv == \A t \in Txs : TableOk(t)

(* A dropped reply means the actor aborted, or has been through its drain; *)
(* an owner told TxNotFound is told so for good.                           *)
Forgotten(t) ==
  \/ Purged(t)
  \/ actor[t] \in Ending /\ why[t] # "Deadline"
  \/ actor[t] \in Recording /\ Evictee(t)
Dropped(t) ==
  \/ actor[t] \in {"signal", "gone"}
  \/ actor[t] \in Ending /\ why[t] = "Abort"
NotFoundOk(r) ==
  /\ reply[r] = "dropped" => Dropped(req[r].tx)
  /\ req[r].end = "TxNotFound" /\ owner[req[r].tx] = req[r].by =>
       Forgotten(req[r].tx)
NotFoundInv == \A r \in Requests : NotFoundOk(r)

CInv == /\ TypeOK /\ ReqInv /\ QueueInv /\ ActorInv
        /\ OrderInv /\ TableInv /\ NotFoundInv

-----------------------------------------------------------------------------
(* The effects, for servers whose errors abort the block or leave it open. *)

(* Nothing of transaction t is durable, and nothing of it will be.         *)
Doomed(t) ==
  /\ \A q \in Requests : req[q].tx = t => effect[q] # "durable"
  /\ link[t] = "lost" \/ (actor[t] \in Ending /\ why[t] \in {"Abort", "Deadline"})

(* A live actor's transaction is there as long as its link is; only COMMIT *)
(* makes anything durable.                                                 *)
LiveInv == \A t \in Txs : actor[t] \in Alive /\ link[t] = "up" => tx[t] # "idle"
DurableOk(r) ==
  /\ req[r].tx \in Txs /\ effect[r] = "durable" =>
       actor[req[r].tx] \in Ending /\ why[req[r].tx] = "Ended"
  /\ req[r].verb \notin Statements \cup {"commit"} => effect[r] = "none"
DurableInv == \A r \in Requests : DurableOk(r)

(* What a reply or a terminal promises about the transaction.              *)
TrueFor(r, code) ==
  code \in Retryable /\ req[r].tx \in Txs =>
    Doomed(req[r].tx) \/ (code # "TxDeadline" /\ effect[r] = "none")
FateOk(r) ==
  /\ reply[r] = "deadline" => Doomed(req[r].tx)
  /\ reply[r] = "lost" /\ req[r].verb \in Statements => Doomed(req[r].tx)
  /\ reply[r] = "cancel" => req[r].verb \notin Statements
  /\ reply[r] # "timeout"
  /\ TrueFor(r, req[r].end)
FateInv == \A r \in Requests : FateOk(r)

DInv == LiveInv /\ DurableInv /\ FateInv

-----------------------------------------------------------------------------
(* The flags.                                                              *)

(* An effect is pending only inside a transaction, and a Checkout, held or *)
(* back in the pool, knows of every transaction that is open.              *)
FlagOk(t) ==
  /\ tx[t] # "idle" => t \in txOpen
  /\ \A r \in Requests :
       req[r].tx = t /\ effect[r] = "pending" => tx[t] # "idle"
FlagInv == \A t \in Txs : FlagOk(t)

-----------------------------------------------------------------------------
(* What the operators of the specification yield.                          *)

ReqType == [verb : AllVerbs, by : Owners \cup {NoOwner}, tx : Txs \cup {NoTx},
            at : {"new", "checkout", "lookup", "send", "wait", "over"},
            end : Codes \cup {"none"}]

(* A declared reply is never TxNotFound; it is retryable only for a        *)
(* deadline, a statement's cancel, a timeout, or a loss that was not of a  *)
(* COMMIT.                                                                 *)
LEMMA DeclaredFacts ==
  ASSUME NEW verb \in AllVerbs, NEW rep \in Replies \ {"empty", "dropped"}
  PROVE  /\ Declared(verb, rep) \in Codes
         /\ Declared(verb, rep) # "TxNotFound"
         /\ Declared(verb, rep) \in Retryable =>
              \/ rep \in {"deadline", "timeout"}
              \/ rep = "cancel" /\ verb \in Statements
              \/ rep = "lost" /\ verb # "commit"
         /\ Declared(verb, rep) = "TxDeadline" =>
              rep = "deadline" \/ (rep = "cancel" /\ verb \in Statements)
<1> DEFINE c == IF verb \in Statements THEN StatementContext
                                       ELSE ControlContext(verb)
<1>c. /\ c.readonly \in BOOLEAN /\ c.inTx \in BOOLEAN
      /\ c.inTx <=> verb \in Statements
      /\ ~ c.inTx => (c.readonly <=> verb # "commit")
      /\ c.sent = TRUE
  <2>1. CASE verb \in Statements
    <3>1. c = [readonly |-> FALSE, sent |-> TRUE, inTx |-> TRUE]
      BY <2>1 DEF StatementContext
    <3> HIDE DEF c
    <3>2. c.readonly = FALSE /\ c.sent = TRUE /\ c.inTx = TRUE
      BY <3>1, SMT
    <3> QED BY <2>1, <3>2
  <2>2. CASE verb \notin Statements
    <3>1. PICK ro \in BOOLEAN : ro <=> verb # "commit"
      OBVIOUS
    <3>2. c = [readonly |-> ro, sent |-> TRUE, inTx |-> FALSE]
      BY <2>2, <3>1, Zenon DEF ControlContext
    <3> HIDE DEF c
    <3>3. c.readonly = ro /\ c.sent = TRUE /\ c.inTx = FALSE
      BY <3>2, SMT
    <3> QED BY <2>2, <3>1, <3>3
  <2> QED BY <2>1, <2>2
<1> HIDE DEF c
<1>1. CASE rep \in {"ok", "deadline", "unsent", "lease", "unknown"}
  BY <1>1, SMT DEF Declared, Codes, Retryable
<1>2. CASE rep \in Errors
  <2>1. Declared(verb, rep) = ClassifyFate(rep, c)
    BY <1>2, SMT DEF Declared, Errors, c
  <2>2. CASE rep = "cancel"
    <3>1. ClassifyFate(rep, c) = ClassifyCancel(c)
      BY <2>2, SMT DEF ClassifyFate
    <3>2. ClassifyCancel(c) \in IF verb \in Statements THEN {"TxDeadline"}
                                  ELSE {"Cancelled", "WriteUnconfirmed"}
      BY <1>c, Zenon DEF ClassifyCancel
    <3> QED BY <2>1, <2>2, <3>1, <3>2, SMT DEF Codes, Retryable
  <2>3. CASE rep = "lost"
    <3>1. ClassifyFate(rep, c) = ClassifyLost(c)
      BY <2>3, SMT DEF ClassifyFate
    <3>2. ClassifyLost(c) \in IF verb = "commit" THEN {"WriteUnconfirmed"}
                                ELSE {"ConnectionLost", "WriteUnconfirmed"}
      BY <1>c, SMT DEF ClassifyLost, Statements
    <3> QED BY <2>1, <2>3, <3>1, <3>2, SMT DEF Codes, Retryable
  <2>4. CASE rep \in {"sql", "timeout", "unsupported", "closed", "backend"}
    <3>1. ClassifyFate(rep, c) \in
            IF rep = "timeout" THEN {"PoolTimeout"}
                               ELSE {"Sql", "Unsupported", "Protocol"}
      BY <2>4, SMT DEF ClassifyFate
    <3> QED BY <2>1, <2>4, <3>1, SMT DEF Codes, Retryable
  <2> QED BY <1>2, <2>2, <2>3, <2>4 DEF Errors
<1> QED BY <1>1, <1>2 DEF Replies

LEMMA EndsFacts ==
  ASSUME TypeOK, NEW r \in Requests, NEW code \in Codes, Ends(r, code)
  PROVE  /\ req' \in [Requests -> ReqType]
         /\ \A q \in Requests : q # r => req'[q] = req[q]
         /\ req'[r].verb = req[r].verb
         /\ req'[r].by = req[r].by
         /\ req'[r].tx = req[r].tx
         /\ req'[r].at = "over"
         /\ req'[r].end = code
<1>0. req \in [Requests -> ReqType]
  BY DEF TypeOK, ReqType
<1>1. PICK mid : mid = [req[r] EXCEPT !.at = "over"]
  OBVIOUS
<1>2. PICK v : v = [mid EXCEPT !.end = code]
  OBVIOUS
<1>3. /\ mid \in ReqType /\ mid.at = "over"
      /\ mid.verb = req[r].verb /\ mid.by = req[r].by /\ mid.tx = req[r].tx
  BY <1>0, <1>1, SMT DEF ReqType
<1>4. /\ v \in ReqType /\ v.at = "over" /\ v.end = code
      /\ v.verb = req[r].verb /\ v.by = req[r].by /\ v.tx = req[r].tx
  BY <1>2, <1>3, SMT DEF ReqType
<1>5. req' = [req EXCEPT ![r] = v]
  BY <1>1, <1>2, Zenon DEF Ends
<1> QED BY <1>0, <1>4, <1>5, SMT

(* An answer reaches the request by its reply or, for a moved Responder,   *)
(* by its terminal.                                                        *)
LEMMA AnswerFacts ==
  ASSUME TypeOK, NEW r \in Requests, Unanswered(r),
         NEW rep \in Replies \ {"empty"}, Answer(r, rep),
         rep = "dropped" => req[r].verb # "stream"
  PROVE  /\ req' \in [Requests -> ReqType]
         /\ reply' \in [Requests -> Replies]
         /\ \A q \in Requests :
              q # r => req'[q] = req[q] /\ reply'[q] = reply[q]
         /\ req'[r].verb = req[r].verb
         /\ req'[r].by = req[r].by
         /\ req'[r].tx = req[r].tx
         /\ \/ /\ req'[r] = req[r]
               /\ reply'[r] = rep
            \/ /\ req[r].verb = "stream"
               /\ req'[r].at = "over"
               /\ req'[r].end = Declared("stream", rep)
               /\ reply'[r] = "empty"
<1>1. CASE req[r].verb = "stream"
  <2>1. rep \in Replies \ {"empty", "dropped"} /\ "stream" \in AllVerbs
    BY <1>1 DEF AllVerbs, Statements
  <2>2. Declared("stream", rep) \in Codes
    BY <2>1, DeclaredFacts
  <2>3. Ends(r, Declared("stream", rep)) /\ reply' = reply
    BY <1>1 DEF Answer
  <2> QED BY <2>2, <2>3, <1>1, EndsFacts DEF TypeOK, Unanswered
<1>2. CASE req[r].verb # "stream"
  <2>1. req' = req /\ reply' = [reply EXCEPT ![r] = rep]
    BY <1>2 DEF Answer
  <2> QED BY <2>1, SMT DEF TypeOK, ReqType
<1> QED BY <1>1, <1>2

LEMMA ResolveFacts ==
  ASSUME NEW t \in Txs, NEW s
  PROVE  /\ Resolve(t, s) \in {"active", "TxDeadline", "TxNotFound"}
         /\ Resolve(t, s) = "active" <=> table[t] = "active" /\ owner[t] = s
         /\ Resolve(t, s) = "TxDeadline" <=>
              table[t] = "tombstone" /\ owner[t] = s
BY SMT DEF Resolve

LEMMA ActorGoneFacts ==
  ASSUME NEW t \in Txs, NEW s
  PROVE  /\ ActorGone(t, s) \in {"TxDeadline", "TxNotFound"}
         /\ ActorGone(t, s) = "TxDeadline" <=>
              table[t] = "tombstone" /\ owner[t] = s
BY ResolveFacts, SMT DEF ActorGone

-----------------------------------------------------------------------------
(* Steps of a handler.                                                     *)

(* A step that moves one request, not into the channel.                    *)
LEMMA HandlerMoves ==
  ASSUME CInv, NEW r \in Requests,
         req[r].at # "over", ~ Unanswered(r),
         req' \in [Requests -> ReqType],
         \A q \in Requests : q # r => req'[q] = req[q],
         req'[r].at # "wait",
         effect[r] = "none" \/ req'[r].tx = req[r].tx,
         UNCHANGED <<reply, effect, tableVars, actorVars, serverVars,
                     sessionVars>>,
         ReqOk(r)', NotFoundOk(r)'
  PROVE  CInv'
<1> USE DEF tableVars, actorVars, serverVars, sessionVars
<1>0. /\ TypeOK /\ ReqInv /\ QueueInv /\ ActorInv
      /\ OrderInv /\ TableInv /\ NotFoundInv
  BY DEF CInv
<1>1. TypeOK'
  BY <1>0, SMT DEF TypeOK, ReqType
<1>2. ReqInv'
  <2>1. ASSUME NEW q \in Requests, q # r PROVE ReqOk(q)'
    BY <1>0, <2>1, SMT DEF ReqInv, ReqOk, Unanswered
  <2> QED BY <2>1 DEF ReqInv
<1>3. QueueInv'
  <2>u. ~ Unanswered(r)'
    BY DEF Unanswered
  <2>q. \A q \in Requests : q # r =>
          (Unanswered(q)' <=> Unanswered(q)) /\ req'[q].tx = req[q].tx
    BY DEF Unanswered
  <2>1. ASSUME NEW t \in Txs PROVE QueueOk(t)'
    <3>1. QueueOk(t) /\ queue[t] \in Seq(Requests)
      BY <1>0 DEF QueueInv, TypeOK
    <3>2. \A i \in 1 .. Len(queue[t]) : queue[t][i] \in Requests
      BY <3>1, SMT
    <3>3. \A i \in 1 .. Len(queue[t]) : queue[t][i] # r
      BY <3>1, <3>2 DEF QueueOk
    <3>4. actor[t] \in {"run", "stop"} => cmd[t] \in Requests /\ cmd[t] # r
      BY <3>1 DEF QueueOk
    <3> QED BY <2>q, <3>1, <3>2, <3>3, <3>4, SMT DEF QueueOk, Unanswered
  <2>2. ASSUME NEW q \in Requests, Unanswered(q)'
        PROVE  q \in Buffered(req[q].tx)' \/ Serves(req[q].tx, q)'
    <3>1. q # r /\ Unanswered(q) /\ req'[q].tx = req[q].tx
      BY <2>2, <2>u, <2>q
    <3>2. q \in Buffered(req[q].tx) \/ Serves(req[q].tx, q)
      BY <1>0, <3>1 DEF QueueInv
    <3> QED BY <3>1, <3>2 DEF Buffered, Serves
  <2> QED BY <2>1, <2>2 DEF QueueInv
<1>4. ActorInv'
  <2>1. ASSUME NEW t \in Txs PROVE ActorOk(t)'
    <3>1. ActorOk(t) /\ QueueOk(t)
      BY <1>0 DEF ActorInv, QueueInv
    <3>2. actor[t] = "stop" => cmd[t] \in Requests /\ cmd[t] # r
      BY <3>1 DEF QueueOk
    <3> QED BY <3>1, <3>2, SMT DEF ActorOk
  <2> QED BY <2>1 DEF ActorInv
<1>5. OrderInv' /\ TableInv'
  BY <1>0 DEF OrderInv, TableInv, TableOk, Purged, Evictee
<1>6. NotFoundInv'
  <2>1. ASSUME NEW q \in Requests, q # r PROVE NotFoundOk(q)'
    <3>1. NotFoundOk(q) /\ req'[q] = req[q]
      BY <1>0, <2>1 DEF NotFoundInv
    <3> QED BY <3>1 DEF NotFoundOk, Dropped, Forgotten, Purged, Evictee
  <2> QED BY <2>1 DEF NotFoundInv
<1> QED BY <1>1, <1>2, <1>3, <1>4, <1>5, <1>6 DEF CInv

(* The same step keeps what replies and terminals promise.                 *)
LEMMA HandlerFates ==
  ASSUME DInv, NEW r \in Requests,
         \A q \in Requests : q # r => req'[q] = req[q],
         effect[r] = "none" \/ req'[r].tx = req[r].tx,
         UNCHANGED <<reply, effect, actor, why, serverVars>>,
         (\A t \in Txs : Doomed(t) => Doomed(t)') => DurableOk(r)' /\ FateOk(r)',
         \A q \in Requests : reply[q] # "empty" => req[q].tx \in Txs
  PROVE  DInv'
<1> USE DEF serverVars
<1>0. LiveInv /\ DurableInv /\ FateInv
  BY DEF DInv
<1>1. ASSUME NEW t \in Txs, Doomed(t) PROVE Doomed(t)'
  BY <1>1, SMT DEF Doomed
<1>2. LiveInv'
  BY <1>0 DEF LiveInv
<1>3. DurableInv'
  <2>1. ASSUME NEW q \in Requests, q # r PROVE DurableOk(q)'
    BY <1>0, <2>1 DEF DurableInv, DurableOk
  <2> QED BY <1>1, <2>1 DEF DurableInv
<1>4. FateInv'
  <2>1. ASSUME NEW q \in Requests, q # r PROVE FateOk(q)'
    <3>1. FateOk(q) /\ req'[q] = req[q]
      BY <1>0, <2>1 DEF FateInv
    <3>2. reply[q] \in {"deadline", "lost"} => req[q].tx \in Txs
      BY DEF FateOk
    <3> QED BY <1>1, <3>1, <3>2 DEF FateOk, TrueFor
  <2> QED BY <1>1, <2>1 DEF FateInv
<1> QED BY <1>2, <1>3, <1>4 DEF DInv

(* A handler that declares a terminal.                                     *)
LEMMA HandlerEnds ==
  ASSUME CInv, NEW r \in Requests, NEW code \in Codes,
         req[r].at \notin {"new", "over"}, ~ Unanswered(r), Ends(r, code),
         UNCHANGED <<reply, effect, tableVars, actorVars, serverVars,
                     sessionVars>>,
         code = "TxNotFound" => /\ req[r].tx \in Txs
                                /\ owner[req[r].tx] = req[r].by => Forgotten(req[r].tx)
  PROVE  /\ CInv'
         /\ DInv /\ TrueFor(r, code) => DInv'
<1> USE DEF tableVars, actorVars, serverVars, sessionVars
<1>0. TypeOK /\ ReqOk(r) /\ NotFoundOk(r)
  BY DEF CInv, ReqInv, NotFoundInv
<1>1. /\ req' \in [Requests -> ReqType]
      /\ \A q \in Requests : q # r => req'[q] = req[q]
      /\ req'[r].verb = req[r].verb
      /\ req'[r].by = req[r].by
      /\ req'[r].tx = req[r].tx
      /\ req'[r].at = "over"
      /\ req'[r].end = code
  BY <1>0, EndsFacts
<1>2. ReqOk(r)'
  BY <1>0, <1>1 DEF ReqOk, Unanswered, Early
<1>3. NotFoundOk(r)'
  BY <1>0, <1>1 DEF NotFoundOk, Dropped, Forgotten, Purged, Evictee
<1>4. CInv'
  BY <1>1, <1>2, <1>3, HandlerMoves
<1>5. ASSUME DInv, TrueFor(r, code) PROVE DInv'
  <2>0. DurableOk(r) /\ FateOk(r)
    BY <1>5 DEF DInv, DurableInv, FateInv
  <2>1. ASSUME \A t \in Txs : Doomed(t) => Doomed(t)'
        PROVE  DurableOk(r)' /\ FateOk(r)'
    <3>1. DurableOk(r)'
      BY <2>0, <1>1 DEF DurableOk
    <3>2. reply[r] # "empty" => req[r].tx \in Txs
      BY <1>0 DEF ReqOk
    <3>3. TrueFor(r, req[r].end)'
      BY <1>5, <2>1, <1>1 DEF TrueFor
    <3>4. FateOk(r)'
      BY <2>0, <2>1, <1>1, <3>2, <3>3 DEF FateOk
    <3> QED BY <3>1, <3>4
  <2>2. \A q \in Requests : reply[q] # "empty" => req[q].tx \in Txs
    BY DEF CInv, ReqInv, ReqOk
  <2> QED BY <1>1, <1>5, <2>1, <2>2, HandlerFates
<1> QED BY <1>4, <1>5

(* An entry that is missing is missing for good; one that a deadline left  *)
(* stands for a transaction of which nothing is durable.                   *)
LEMMA MissingIsForgotten ==
  ASSUME CInv, NEW t \in Txs, actor[t] # "unborn", table[t] = "none"
  PROVE  Forgotten(t)
<1>1. TableOk(t) /\ actor[t] \in Alive \cup Ending
  BY DEF CInv, TableInv, TypeOK, Alive, Ending
<1> QED BY <1>1 DEF TableOk, Forgotten, Alive, Ending, Recording

LEMMA TombstoneIsDoomed ==
  ASSUME CInv, DInv, NEW t \in Txs, table[t] = "tombstone"
  PROVE  Doomed(t)
<1>1. why[t] = "Deadline" /\ actor[t] \in Ending
  BY DEF CInv, TableInv, TableOk, Ending, Recording
<1>2. ASSUME NEW q \in Requests, req[q].tx = t PROVE effect[q] # "durable"
  BY <1>1, <1>2 DEF DInv, DurableInv, DurableOk
<1> QED BY <1>1, <1>2 DEF Doomed

LEMMA BeginFailsKeeps ==
  ASSUME CInv, NEW r \in Requests, NEW err \in {"timeout", "lost", "sql"},
         BeginFails(r, err)
  PROVE  CInv' /\ (DInv => DInv')
<1> DEFINE c == [readonly |-> FALSE, sent |-> FALSE, inTx |-> FALSE]
<1>1. ClassifyFate(err, c) \in {"PoolTimeout", "ConnectionLost", "Sql"}
  <2>1. ClassifyLost(c) = "ConnectionLost"
    BY DEF ClassifyLost
  <2> HIDE DEF c
  <2> QED BY <2>1, SMT DEF ClassifyFate
<1>2. /\ req[r].at = "checkout" /\ Ends(r, ClassifyFate(err, c))
      /\ UNCHANGED <<reply, effect, tableVars, actorVars, serverVars, sessionVars>>
  BY DEF BeginFails
<1> HIDE DEF c
<1>3. PICK code \in Codes : code = ClassifyFate(err, c) /\ code # "TxNotFound"
  BY <1>1 DEF Codes
<1>4. req[r].tx = NoTx /\ TrueFor(r, code)
  BY <1>2, NoneAssumption DEF CInv, ReqInv, ReqOk, TrueFor
<1> QED BY <1>2, <1>3, <1>4, HandlerEnds DEF Unanswered

LEMMA LookupKeeps ==
  ASSUME CInv, NEW r \in Requests, Lookup(r)
  PROVE  CInv' /\ (DInv => DInv')
<1>0. /\ req[r].at = "lookup"
      /\ UNCHANGED <<reply, effect, tableVars, actorVars, serverVars, sessionVars>>
  BY DEF Lookup
<1>1. PICK t \in Txs : t = req[r].tx /\ actor[t] # "unborn"
  BY <1>0 DEF CInv, ReqInv, ReqOk
<1>2. PICK found : found = Resolve(t, req[r].by)
  OBVIOUS
<1>3. /\ found \in {"active", "TxDeadline", "TxNotFound"}
      /\ found = "TxDeadline" <=> table[t] = "tombstone" /\ owner[t] = req[r].by
      /\ found = "active" <=> table[t] = "active" /\ owner[t] = req[r].by
  BY <1>2, ResolveFacts
<1>4. CASE found = "active"
  <2>1. req' = [req EXCEPT ![r].at = "send"]
    BY <1>1, <1>2, <1>4 DEF Lookup
  <2>2. req \in [Requests -> ReqType] /\ ReqOk(r) /\ NotFoundOk(r)
    BY DEF CInv, TypeOK, ReqType, ReqInv, NotFoundInv
  <2>3. /\ req' \in [Requests -> ReqType]
        /\ \A q \in Requests : q # r => req'[q] = req[q]
        /\ req'[r].verb = req[r].verb
        /\ req'[r].by = req[r].by
        /\ req'[r].tx = req[r].tx
        /\ req'[r].end = req[r].end
        /\ req'[r].at = "send"
    BY <2>1, <2>2, SMT DEF ReqType
  <2>4. ReqOk(r)' /\ NotFoundOk(r)'
    <3> USE DEF tableVars, actorVars, serverVars, sessionVars
    <3>1. ReqOk(r)'
      BY <1>0, <2>2, <2>3 DEF ReqOk, Unanswered, Early
    <3>2. NotFoundOk(r)'
      BY <1>0, <2>2, <2>3 DEF NotFoundOk, Dropped, Forgotten, Purged, Evictee
    <3> QED BY <3>1, <3>2
  <2>5. CInv'
    BY <1>0, <2>3, <2>4, HandlerMoves DEF Unanswered
  <2>6. ASSUME DInv PROVE DInv'
    <3>1. ASSUME \A u \in Txs : Doomed(u) => Doomed(u)'
          PROVE  DurableOk(r)' /\ FateOk(r)'
      <4> USE DEF tableVars, actorVars, serverVars, sessionVars
      <4>1. DurableOk(r) /\ FateOk(r) /\ req[r].tx \in Txs
        BY <2>6, <1>1 DEF DInv, DurableInv, FateInv
      <4>2. DurableOk(r)'
        BY <1>0, <4>1, <2>3 DEF DurableOk
      <4>3. FateOk(r)'
        BY <1>0, <4>1, <2>3, <3>1 DEF FateOk, TrueFor
      <4> QED BY <4>2, <4>3
    <3>2. \A q \in Requests : reply[q] # "empty" => req[q].tx \in Txs
      BY DEF CInv, ReqInv, ReqOk
    <3> QED BY <1>0, <2>3, <2>6, <3>1, <3>2, HandlerFates DEF actorVars
  <2> QED BY <2>5, <2>6
<1>5. CASE found # "active"
  <2>1. Ends(r, found) /\ found \in Codes
    BY <1>1, <1>2, <1>3, <1>5 DEF Lookup, Codes
  <2>2. found = "TxNotFound" /\ owner[t] = req[r].by => Forgotten(t)
    <3>1. ASSUME found = "TxNotFound", owner[t] = req[r].by PROVE table[t] = "none"
      BY <1>3, <3>1 DEF CInv, TypeOK
    <3> QED BY <3>1, <1>1, MissingIsForgotten
  <2>3. DInv => TrueFor(r, found)
    BY <1>1, <1>3, <1>5, TombstoneIsDoomed DEF TrueFor, Retryable
  <2> QED BY <1>0, <1>1, <2>1, <2>2, <2>3, HandlerEnds DEF Unanswered
<1> QED BY <1>4, <1>5

LEMMA RefuseKeeps ==
  ASSUME CInv, NEW r \in Requests, Refuse(r)
  PROVE  CInv' /\ (DInv => DInv')
<1>1. PICK code \in {"Unsupported", "PoolTimeout", "ConnectionLost", "Cancelled",
                     "Protocol"} :
        Ends(r, code)
  BY DEF Refuse
<1>2. /\ req[r].at = "send"
      /\ UNCHANGED <<reply, effect, tableVars, actorVars, serverVars, sessionVars>>
  BY DEF Refuse
<1>3. effect[r] = "none"
  BY <1>2 DEF CInv, ReqInv, ReqOk, Early
<1>4. code \in Codes /\ code # "TxNotFound" /\ TrueFor(r, code)
  BY <1>3 DEF Codes, TrueFor
<1> QED BY <1>1, <1>2, <1>4, HandlerEnds DEF Unanswered

LEMMA DeclareKeeps ==
  ASSUME CInv, NEW r \in Requests, Declare(r)
  PROVE  CInv' /\ (DInv => DInv')
<1>0. /\ req[r].at = "wait" /\ reply[r] # "empty"
      /\ UNCHANGED <<reply, effect, tableVars, actorVars, serverVars, sessionVars>>
  BY DEF Declare
<1>1. PICK t \in Txs : t = req[r].tx /\ actor[t] # "unborn"
  BY <1>0 DEF CInv, ReqInv, ReqOk
<1>2. CASE reply[r] = "dropped"
  <2>1. PICK code : code = ActorGone(t, req[r].by)
    OBVIOUS
  <2>2. Ends(r, code)
    BY <1>1, <1>2, <2>1 DEF Declare
  <2>3. /\ code \in {"TxDeadline", "TxNotFound"}
        /\ code = "TxDeadline" <=> table[t] = "tombstone" /\ owner[t] = req[r].by
    BY <2>1, ActorGoneFacts
  <2>4. ASSUME code = "TxNotFound", owner[t] = req[r].by PROVE Forgotten(t)
    <3>1. Dropped(t) /\ TableOk(t)
      BY <1>1, <1>2 DEF CInv, NotFoundInv, NotFoundOk, TableInv
    <3>2. CASE actor[t] \in {"signal", "gone"}
      <4>1. table[t] = "none"
        BY <2>3, <2>4, <3>1, <3>2 DEF CInv, TypeOK, TableOk, Alive
      <4> QED BY <1>1, <4>1, MissingIsForgotten
    <3>3. CASE actor[t] \in Ending /\ why[t] = "Abort"
      BY <3>3 DEF Forgotten
    <3> QED BY <3>1, <3>2, <3>3 DEF Dropped
  <2>5. DInv => TrueFor(r, code)
    BY <1>1, <2>3, TombstoneIsDoomed DEF TrueFor, Retryable
  <2> QED BY <1>0, <1>1, <2>2, <2>3, <2>4, <2>5, HandlerEnds DEF Unanswered, Codes
<1>3. CASE reply[r] # "dropped"
  <2>1. PICK verb \in AllVerbs : verb = req[r].verb
    BY DEF CInv, TypeOK
  <2>2. PICK rep \in Replies \ {"empty", "dropped"} : rep = reply[r]
    BY <1>0, <1>3 DEF CInv, TypeOK
  <2>3. PICK code : code = Declared(verb, rep)
    OBVIOUS
  <2>4. /\ code \in Codes /\ code # "TxNotFound"
        /\ code \in Retryable =>
             \/ rep \in {"deadline", "timeout"}
             \/ rep = "cancel" /\ verb \in Statements
             \/ rep = "lost" /\ verb # "commit"
        /\ code = "TxDeadline" =>
             rep = "deadline" \/ (rep = "cancel" /\ verb \in Statements)
    BY <2>3, DeclaredFacts
  <2>5. Ends(r, code)
    BY <1>3, <2>1, <2>2, <2>3 DEF Declare
  <2>6. DInv => TrueFor(r, code)
    <3>1. ASSUME DInv PROVE FateOk(r) /\ DurableOk(r)
      BY <3>1 DEF DInv, FateInv, DurableInv
    <3>2. ASSUME FateOk(r), DurableOk(r), code \in Retryable
          PROVE  Doomed(req[r].tx) \/ (code # "TxDeadline" /\ effect[r] = "none")
      BY <2>1, <2>2, <2>4, <3>2 DEF FateOk, DurableOk, AllVerbs, Statements
    <3> QED BY <3>1, <3>2 DEF TrueFor
  <2> QED BY <1>0, <2>4, <2>5, <2>6, HandlerEnds DEF Unanswered
<1> QED BY <1>2, <1>3

LEMMA RequestKeeps ==
  ASSUME CInv, NEW r \in Requests, NEW s \in Owners, NEW verb \in Verbs,
         NEW t \in Txs \cup {NoTx}, Request(r, s, verb, t)
  PROVE  CInv' /\ (DInv => DInv')
<1>0. /\ req[r].at = "new"
      /\ verb # "begin" => t \in Txs /\ actor[t] # "unborn"
      /\ verb = "begin" => t = NoTx
      /\ UNCHANGED <<reply, effect, tableVars, actorVars, serverVars, sessionVars>>
  BY DEF Request
<1>1. PICK where \in {"checkout", "lookup"} :
        where = (IF verb = "begin" THEN "checkout" ELSE "lookup")
  OBVIOUS
<1>2. req' = [req EXCEPT ![r] = [verb |-> verb, by |-> s, tx |-> t,
                                 end |-> "none", at |-> where]]
  BY <1>1 DEF Request
<1>3. req \in [Requests -> ReqType] /\ verb \in AllVerbs /\ ReqOk(r)
  BY VerbAssumption DEF CInv, TypeOK, ReqType, ReqInv
<1>4. reply[r] = "empty" /\ effect[r] = "none"
  BY <1>0, <1>3 DEF ReqOk, Early
<1>5. /\ req' \in [Requests -> ReqType]
      /\ \A q \in Requests : q # r => req'[q] = req[q]
      /\ req'[r].verb = verb
      /\ req'[r].by = s
      /\ req'[r].tx = t
      /\ req'[r].end = "none"
      /\ req'[r].at = where
  BY <1>2, <1>3, SMT DEF ReqType
<1>6. ReqOk(r)' /\ NotFoundOk(r)'
  <2>1. reply'[r] = "empty" /\ effect'[r] = "none" /\ actor' = actor
    BY <1>0, <1>4 DEF actorVars
  <2>2. ReqOk(r)'
    BY <1>0, <1>1, <1>5, <2>1, NoneAssumption DEF ReqOk, Unanswered, Early
  <2>3. NotFoundOk(r)'
    BY <1>5, <2>1 DEF NotFoundOk
  <2> QED BY <2>2, <2>3
<1>7. CInv'
  BY <1>0, <1>1, <1>4, <1>5, <1>6, HandlerMoves DEF Unanswered
<1>8. ASSUME DInv PROVE DInv'
  <2>1. reply'[r] = "empty" /\ effect'[r] = "none"
    BY <1>0, <1>4
  <2>2. DurableOk(r)' /\ FateOk(r)'
    BY <1>5, <2>1 DEF DurableOk, FateOk, TrueFor, Retryable
  <2>3. \A q \in Requests : reply[q] # "empty" => req[q].tx \in Txs
    BY DEF CInv, ReqInv, ReqOk
  <2> QED BY <1>0, <1>4, <1>5, <1>8, <2>2, <2>3, HandlerFates DEF actorVars
<1> QED BY <1>7, <1>8

(* A command enters the channel.                                           *)
LEMMA SendsKeeps ==
  ASSUME CInv, NEW r \in Requests, NEW t \in Txs, t = req[r].tx,
         req[r].at = "send", ~ Closed(t), Len(queue[t]) < QueueCap,
         queue' = [queue EXCEPT ![t] = Append(@, r)],
         req' = [req EXCEPT ![r].at = "wait"],
         UNCHANGED <<reply, effect, tableVars, actor, why, cmd, abort, held,
                     serverVars, sessionVars>>
  PROVE  CInv' /\ (DInv => DInv')
<1> USE DEF tableVars, serverVars, sessionVars
<1>0. /\ TypeOK /\ ReqInv /\ QueueInv /\ ActorInv
      /\ OrderInv /\ TableInv /\ NotFoundInv
  BY DEF CInv
<1>r. ReqOk(r) /\ req \in [Requests -> ReqType] /\ ~ Unanswered(r)
  BY <1>0 DEF TypeOK, ReqType, ReqInv, Unanswered
<1>a. /\ req' \in [Requests -> ReqType]
      /\ \A q \in Requests : q # r => req'[q] = req[q]
      /\ req'[r].verb = req[r].verb
      /\ req'[r].by = req[r].by
      /\ req'[r].tx = req[r].tx
      /\ req'[r].end = req[r].end
      /\ req'[r].at = "wait"
  BY <1>r, SMT DEF ReqType
<1>b. /\ queue[t] \in Seq(Requests)
      /\ queue'[t] \in Seq(Requests)
      /\ Len(queue'[t]) = Len(queue[t]) + 1
      /\ \A i \in 1 .. Len(queue[t]) : queue'[t][i] = queue[t][i]
      /\ queue'[t][Len(queue[t]) + 1] = r
      /\ \A u \in Txs : u # t => queue'[u] = queue[u]
  BY <1>0, SMT DEF TypeOK
<1>1. TypeOK'
  <2>1. queue' \in [Txs -> Seq(Requests)]
    BY <1>0, SMT DEF TypeOK
  <2>2. \A u \in Txs : Len(queue'[u]) <= QueueCap
    BY <1>0, <1>b, CapAssumption, SMT DEF TypeOK
  <2> QED BY <1>0, <1>a, <2>1, <2>2 DEF TypeOK, ReqType
<1>2. ReqInv'
  <2>1. ASSUME NEW q \in Requests PROVE ReqOk(q)'
    <3>1. ReqOk(q)
      BY <1>0 DEF ReqInv
    <3>2. CASE q = r
      BY <3>1, <3>2, <1>a DEF ReqOk, Unanswered, Early
    <3>3. CASE q # r
      BY <3>1, <3>3, <1>a DEF ReqOk, Unanswered
    <3> QED BY <3>2, <3>3
  <2> QED BY <2>1 DEF ReqInv
<1>3. QueueInv'
  <2>u. Unanswered(r)' /\ \A q \in Requests : Unanswered(q) => q # r /\ Unanswered(q)'
    BY <1>a, <1>r DEF Unanswered, ReqOk, Early
  <2>1. ASSUME NEW u \in Txs, u # t PROVE QueueOk(u)'
    <3>1. QueueOk(u) /\ queue[u] \in Seq(Requests) /\ queue'[u] = queue[u]
      BY <1>0, <1>b, <2>1 DEF QueueInv, TypeOK
    <3>2. \A i \in 1 .. Len(queue[u]) : queue[u][i] \in Requests
      BY <3>1, SMT
    <3>3. \A q \in Requests : Unanswered(q) => req'[q] = req[q]
      BY <1>a, <2>u
    <3>4. actor' = actor /\ cmd' = cmd /\ reply' = reply
      OBVIOUS
    <3>5. \A i \in 1 .. Len(queue[u]) :
             /\ req'[queue[u][i]].at = "wait" /\ reply'[queue[u][i]] = "empty"
             /\ req'[queue[u][i]].tx = u
      BY <3>1, <3>2, <3>3, <3>4 DEF QueueOk, Unanswered
    <3>6. actor[u] \in {"run", "stop"} =>
            /\ cmd[u] \in Requests
            /\ req'[cmd[u]].at = "wait" /\ reply'[cmd[u]] = "empty"
            /\ req'[cmd[u]].tx = u
            /\ \A i \in 1 .. Len(queue[u]) : queue[u][i] # cmd[u]
      BY <3>1, <3>3, <3>4 DEF QueueOk, Unanswered
    <3>7. \A i \in 1 .. Len(queue'[u]) :
             /\ req'[queue'[u][i]].at = "wait" /\ reply'[queue'[u][i]] = "empty"
             /\ req'[queue'[u][i]].tx = u
      BY <3>1, <3>5
    <3>8. /\ \A i, j \in 1 .. Len(queue'[u]) : queue'[u][i] = queue'[u][j] => i = j
          /\ actor[u] \in {"signal", "gone"} => queue'[u] = <<>>
      BY <3>1 DEF QueueOk
    <3>9. actor[u] \in {"run", "stop"} =>
            /\ cmd[u] \in Requests
            /\ req'[cmd[u]].at = "wait" /\ reply'[cmd[u]] = "empty"
            /\ req'[cmd[u]].tx = u
            /\ \A i \in 1 .. Len(queue'[u]) : queue'[u][i] # cmd[u]
      BY <3>1, <3>6
    <3> QED BY <3>4, <3>7, <3>8, <3>9 DEF QueueOk, Unanswered
  <2>2. QueueOk(t)'
    <3>1. QueueOk(t)
      BY <1>0 DEF QueueInv
    <3>2. PICK n \in Nat : n = Len(queue[t])
      BY <1>b, SMT
    <3>3. \A i \in 1 .. n : queue[t][i] \in Requests /\ queue[t][i] # r
      BY <3>1, <3>2, <1>b, <2>u, SMT DEF QueueOk
    <3>4. \A i \in 1 .. Len(queue'[t]) : i \in 1 .. n \/ i = n + 1
      BY <3>2, <1>b, SMT
    <3>5. \A q \in Requests : Unanswered(q) => req'[q] = req[q]
      BY <1>a, <2>u
    <3>6. \A i \in 1 .. Len(queue'[t]) :
             /\ req'[queue'[t][i]].at = "wait" /\ reply'[queue'[t][i]] = "empty"
             /\ req'[queue'[t][i]].tx = t
      <4>1. ASSUME NEW i \in 1 .. n
            PROVE  /\ req'[queue'[t][i]].at = "wait"
                   /\ reply'[queue'[t][i]] = "empty"
                   /\ req'[queue'[t][i]].tx = t
        BY <3>1, <3>2, <3>3, <3>5, <1>b DEF QueueOk, Unanswered
      <4>2. req'[r].at = "wait" /\ reply'[r] = "empty" /\ req'[r].tx = t
        BY <1>a, <1>r DEF ReqOk, Early
      <4> QED BY <3>2, <3>4, <1>b, <4>1, <4>2
    <3>7. \A i, j \in 1 .. Len(queue'[t]) : queue'[t][i] = queue'[t][j] => i = j
      BY <3>1, <3>2, <3>3, <3>4, <1>b, SMT DEF QueueOk
    <3>8. actor[t] \in {"run", "stop"} =>
            /\ cmd[t] \in Requests
            /\ Unanswered(cmd[t])' /\ req'[cmd[t]].tx = t
            /\ \A i \in 1 .. Len(queue'[t]) : queue'[t][i] # cmd[t]
      BY <3>1, <3>2, <3>4, <3>5, <1>b, <2>u DEF QueueOk
    <3>9. actor' = actor /\ cmd' = cmd /\ actor[t] \notin {"signal", "gone"}
      BY DEF Closed
    <3> QED BY <3>6, <3>7, <3>8, <3>9 DEF QueueOk, Unanswered
  <2>3. ASSUME NEW q \in Requests, Unanswered(q)'
        PROVE  q \in Buffered(req[q].tx)' \/ Serves(req[q].tx, q)'
    <3>1. CASE q = r
      <4>1. Len(queue'[t]) \in Nat /\ Len(queue[t]) + 1 \in 1 .. Len(queue'[t])
        BY <1>b, SMT
      <4>2. r \in {queue'[t][i] : i \in 1 .. Len(queue'[t])}
        BY <1>b, <4>1, Zenon
      <4>3. req'[q].tx = t
        BY <1>a, <3>1, <1>r
      <4> QED BY <3>1, <4>2, <4>3, Zenon DEF Buffered
    <3>2. CASE q # r
      <4>1. Unanswered(q) /\ req'[q] = req[q] /\ req[q].tx \in Txs
        BY <2>3, <3>2, <1>a, <1>0 DEF Unanswered, ReqInv, ReqOk
      <4>2. q \in Buffered(req[q].tx) \/ Serves(req[q].tx, q)
        BY <1>0, <4>1 DEF QueueInv
      <4>3. CASE q \in Buffered(req[q].tx)
        <5>1. PICK i \in 1 .. Len(queue[req[q].tx]) : queue[req[q].tx][i] = q
          BY <4>3 DEF Buffered
        <5>2. i \in 1 .. Len(queue'[req[q].tx]) /\ queue'[req[q].tx][i] = q
          BY <5>1, <4>1, <1>b, SMT
        <5> QED BY <4>1, <5>2 DEF Buffered
      <4> QED BY <4>1, <4>2, <4>3 DEF Serves
    <3> QED BY <3>1, <3>2
  <2> QED BY <2>1, <2>2, <2>3 DEF QueueInv
<1>4. ActorInv'
  <2>1. ASSUME NEW u \in Txs PROVE ActorOk(u)'
    <3>1. ActorOk(u) /\ QueueOk(u)
      BY <1>0 DEF ActorInv, QueueInv
    <3>2. actor[u] = "stop" => cmd[u] \in Requests /\ cmd[u] # r
      BY <3>1, <1>r DEF QueueOk
    <3>3. \A q \in Requests : req'[q].tx = req[q].tx
      BY <1>a
    <3> QED BY <1>a, <3>1, <3>2, <3>3, SMT DEF ActorOk
  <2> QED BY <2>1 DEF ActorInv
<1>5. OrderInv' /\ TableInv'
  BY <1>0 DEF OrderInv, TableInv, TableOk, Purged, Evictee
<1>6. NotFoundInv'
  <2>1. ASSUME NEW q \in Requests PROVE NotFoundOk(q)'
    <3>1. NotFoundOk(q) /\ req'[q].tx = req[q].tx /\ req'[q].end = req[q].end
          /\ req'[q].by = req[q].by
      BY <1>0, <1>a DEF NotFoundInv
    <3> QED BY <3>1 DEF NotFoundOk, Dropped, Forgotten, Purged, Evictee
  <2> QED BY <2>1 DEF NotFoundInv
<1>7. CInv'
  BY <1>1, <1>2, <1>3, <1>4, <1>5, <1>6 DEF CInv
<1>8. ASSUME DInv PROVE DInv'
  <2>1. ASSUME \A u \in Txs : Doomed(u) => Doomed(u)'
        PROVE  DurableOk(r)' /\ FateOk(r)'
    <3>1. DurableOk(r) /\ FateOk(r)
      BY <1>8 DEF DInv, DurableInv, FateInv
    <3>2. DurableOk(r)'
      BY <3>1, <1>a DEF DurableOk
    <3>3. FateOk(r)'
      BY <3>1, <1>a, <2>1 DEF FateOk, TrueFor
    <3> QED BY <3>2, <3>3
  <2>2. \A q \in Requests : reply[q] # "empty" => req[q].tx \in Txs
    BY <1>0 DEF ReqInv, ReqOk
  <2> QED BY <1>a, <1>8, <2>1, <2>2, HandlerFates
<1> QED BY <1>7, <1>8

LEMMA SendKeeps ==
  ASSUME CInv, NEW r \in Requests, Send(r)
  PROVE  CInv' /\ (DInv => DInv')
<1>0. /\ req[r].at = "send"
      /\ UNCHANGED <<reply, effect, tableVars, actor, why, cmd, abort, held,
                     serverVars, sessionVars>>
  BY DEF Send
<1>1. PICK t \in Txs : t = req[r].tx /\ actor[t] # "unborn"
  BY <1>0 DEF CInv, ReqInv, ReqOk
<1>2. CASE /\ ~ Closed(t)
           /\ Len(queue[t]) < QueueCap
           /\ queue' = [queue EXCEPT ![t] = Append(@, r)]
           /\ req' = [req EXCEPT ![r].at = "wait"]
  BY <1>0, <1>1, <1>2, SendsKeeps
<1>3. CASE Closed(t) /\ Ends(r, ActorGone(t, req[r].by)) /\ UNCHANGED queue
  <2>1. PICK code : code = ActorGone(t, req[r].by)
    OBVIOUS
  <2>2. /\ code \in {"TxDeadline", "TxNotFound"}
        /\ code = "TxDeadline" <=> table[t] = "tombstone" /\ owner[t] = req[r].by
    BY <2>1, ActorGoneFacts
  <2>3. ASSUME code = "TxNotFound", owner[t] = req[r].by PROVE Forgotten(t)
    <3>1. table[t] = "none"
      BY <1>3, <2>2, <2>3 DEF CInv, TypeOK, TableInv, TableOk, Alive, Closed
    <3> QED BY <1>1, <3>1, MissingIsForgotten
  <2>4. DInv => TrueFor(r, code)
    BY <1>1, <2>2, TombstoneIsDoomed DEF TrueFor, Retryable
  <2>5. UNCHANGED <<reply, effect, tableVars, actorVars, serverVars, sessionVars>>
    BY <1>0, <1>3 DEF actorVars
  <2> QED BY <1>0, <1>1, <1>3, <2>1, <2>2, <2>3, <2>4, <2>5, HandlerEnds
          DEF Unanswered, Codes
<1> QED BY <1>1, <1>2, <1>3 DEF Send

(* A channel and a command that stay as they are.                          *)
LEMMA QueueStays ==
  ASSUME TypeOK, NEW u \in Txs, QueueOk(u), queue'[u] = queue[u],
         cmd'[u] = cmd[u],
         actor'[u] \in {"run", "stop"} => actor[u] \in {"run", "stop"},
         actor'[u] \in {"signal", "gone"} => queue[u] = <<>>,
         \A q \in Requests :
           /\ Unanswered(q) /\ req[q].tx = u
           /\ Serves(u, q) => actor'[u] \in {"run", "stop"}
           => req'[q].at = "wait" /\ reply'[q] = "empty" /\ req'[q].tx = u
  PROVE  QueueOk(u)'
<1>1. \A i \in 1 .. Len(queue[u]) : queue[u][i] \in Requests
  <2>1. queue[u] \in Seq(Requests)
    BY DEF TypeOK
  <2> QED BY <2>1, SMT
<1>2. \A i \in 1 .. Len(queue'[u]) :
         /\ req'[queue'[u][i]].at = "wait" /\ reply'[queue'[u][i]] = "empty"
         /\ req'[queue'[u][i]].tx = u
  <2>1. ASSUME NEW i \in 1 .. Len(queue[u])
        PROVE  /\ queue[u][i] \in Requests /\ Unanswered(queue[u][i])
               /\ req[queue[u][i]].tx = u /\ ~ Serves(u, queue[u][i])
    BY <1>1, <2>1 DEF QueueOk, Serves
  <2> QED BY <2>1
<1>3. /\ \A i, j \in 1 .. Len(queue'[u]) : queue'[u][i] = queue'[u][j] => i = j
      /\ actor'[u] \in {"signal", "gone"} => queue'[u] = <<>>
  BY DEF QueueOk
<1>4. actor'[u] \in {"run", "stop"} =>
        /\ cmd'[u] \in Requests
        /\ req'[cmd'[u]].at = "wait" /\ reply'[cmd'[u]] = "empty"
        /\ req'[cmd'[u]].tx = u
        /\ \A i \in 1 .. Len(queue'[u]) : queue'[u][i] # cmd'[u]
  BY DEF QueueOk, Serves
<1> QED BY <1>2, <1>3, <1>4 DEF QueueOk, Unanswered

LEMMA BeginOpensKeeps ==
  ASSUME CInv, NEW r \in Requests, NEW t \in Txs, BeginOpens(r, t)
  PROVE  CInv' /\ (DInv => DInv')
<1>0. /\ TypeOK /\ ReqInv /\ QueueInv /\ ActorInv
      /\ OrderInv /\ TableInv /\ NotFoundInv
  BY DEF CInv
<1>a. /\ req[r].at = "checkout" /\ actor[t] = "unborn"
      /\ table' = [table EXCEPT ![t] = "active"]
      /\ owner' = [owner EXCEPT ![t] = req[r].by]
      /\ actor' = [actor EXCEPT ![t] = "idle"]
      /\ held' = [held EXCEPT ![t] = TRUE]
      /\ tx' = [tx EXCEPT ![t] = "open"]
      /\ txOpen' = txOpen \cup {t}
      /\ UNCHANGED <<reply, effect, order, why, cmd, queue, abort, link,
                     session, snapshot>>
  BY DEF BeginOpens, sessionVars
<1>b. req \in [Requests -> ReqType] /\ ReqOk(r)
  BY <1>0 DEF TypeOK, ReqType, ReqInv
<1>c. /\ req' \in [Requests -> ReqType]
      /\ \A q \in Requests : q # r => req'[q] = req[q]
      /\ req'[r].verb = req[r].verb
      /\ req'[r].by = req[r].by
      /\ req'[r].tx = t
      /\ req'[r].at = "over"
      /\ req'[r].end = "Ok"
  <2>1. PICK a : a = [req[r] EXCEPT !.at = "over"]
    OBVIOUS
  <2>2. PICK b : b = [a EXCEPT !.end = "Ok"]
    OBVIOUS
  <2>3. PICK v : v = [b EXCEPT !.tx = t]
    OBVIOUS
  <2>4. /\ a \in ReqType /\ a.at = "over"
        /\ a.verb = req[r].verb /\ a.by = req[r].by
    BY <1>b, <2>1, SMT DEF ReqType
  <2>5. /\ b \in ReqType /\ b.at = "over" /\ b.end = "Ok"
        /\ b.verb = req[r].verb /\ b.by = req[r].by
    BY <2>2, <2>4, SMT DEF ReqType, Codes
  <2>6. /\ v \in ReqType /\ v.at = "over" /\ v.end = "Ok" /\ v.tx = t
        /\ v.verb = req[r].verb /\ v.by = req[r].by
    BY <2>3, <2>5, SMT DEF ReqType
  <2>7. req' = [req EXCEPT ![r] = v]
    BY <2>1, <2>2, <2>3, Zenon DEF BeginOpens
  <2> QED BY <1>b, <2>6, <2>7, SMT
<1>d. /\ req[r].by \in Owners \cup {NoOwner}
      /\ \A u \in Txs : u # t => /\ table'[u] = table[u] /\ owner'[u] = owner[u]
                                 /\ actor'[u] = actor[u] /\ held'[u] = held[u]
                                 /\ tx'[u] = tx[u]
      /\ table'[t] = "active" /\ owner'[t] = req[r].by /\ actor'[t] = "idle"
      /\ tx'[t] = "open"
  BY <1>0, <1>a, <1>b, SMT DEF TypeOK, ReqType
<1>e. /\ reply[r] = "empty" /\ effect[r] = "none"
      /\ \A q \in Requests : req[q].tx # t
      /\ \A q \in Requests : req[q].tx \in Txs => q # r
  BY <1>0, <1>a, <1>b, NoneAssumption DEF ReqInv, ReqOk, Early
<1>1. TypeOK'
  <2>1. /\ table' \in [Txs -> {"none", "active", "tombstone"}]
        /\ owner' \in [Txs -> Owners \cup {NoOwner}]
        /\ actor' \in [Txs -> {"unborn", "idle", "run", "stop", "rollback",
                               "record", "drain", "signal", "gone"}]
        /\ tx' \in [Txs -> {"idle", "open", "failed"}]
        /\ txOpen' \subseteq Txs
    BY <1>0, <1>a, <1>d, SMT DEF TypeOK
  <2>2. held' \in [Txs -> BOOLEAN]
    BY <1>0, <1>a DEF TypeOK
  <2> QED BY <1>0, <1>a, <1>c, <2>1, <2>2 DEF TypeOK, ReqType
<1>2. ReqInv'
  <2>1. ASSUME NEW q \in Requests PROVE ReqOk(q)'
    <3>1. ReqOk(q)
      BY <1>0 DEF ReqInv
    <3>2. CASE q = r
      BY <3>1, <3>2, <1>a, <1>c, <1>d, <1>e DEF ReqOk, Unanswered, Early
    <3>3. CASE q # r
      BY <3>1, <3>3, <1>a, <1>c, <1>d, <1>e DEF ReqOk, Unanswered
    <3> QED BY <3>2, <3>3
  <2> QED BY <2>1 DEF ReqInv
<1>3. QueueInv'
  <2>u. \A q \in Requests : Unanswered(q) => req[q].tx \in Txs /\ req'[q] = req[q]
    BY <1>0, <1>c, <1>e DEF Unanswered, ReqInv, ReqOk
  <2>1. ASSUME NEW u \in Txs PROVE QueueOk(u)'
    <3>1. QueueOk(u)
      BY <1>0 DEF QueueInv
    <3>2. \A q \in Requests : Unanswered(q) /\ req[q].tx = u
             => req'[q].at = "wait" /\ reply'[q] = "empty" /\ req'[q].tx = u
      BY <2>u, <1>a DEF Unanswered
    <3>3. /\ actor'[u] \in {"run", "stop"} => actor[u] \in {"run", "stop"}
          /\ actor'[u] \in {"signal", "gone"} => actor[u] \in {"signal", "gone"}
      BY <1>d
    <3>4. actor'[u] \in {"signal", "gone"} => queue[u] = <<>>
      BY <3>1, <3>3 DEF QueueOk
    <3> QED BY <1>0, <1>a, <3>1, <3>2, <3>3, <3>4, QueueStays
  <2>2. ASSUME NEW q \in Requests, Unanswered(q)'
        PROVE  q \in Buffered(req[q].tx)' \/ Serves(req[q].tx, q)'
    <3>1. q # r /\ Unanswered(q) /\ req'[q] = req[q] /\ req[q].tx \in Txs \ {t}
      BY <1>0, <2>2, <1>a, <1>c, <1>e DEF Unanswered, ReqInv, ReqOk
    <3>2. q \in Buffered(req[q].tx) \/ Serves(req[q].tx, q)
      BY <1>0, <3>1 DEF QueueInv
    <3> QED BY <1>a, <1>d, <3>1, <3>2 DEF Buffered, Serves
  <2> QED BY <2>1, <2>2 DEF QueueInv
<1>4. ActorInv'
  <2>1. ASSUME NEW u \in Txs PROVE ActorOk(u)'
    <3>1. ActorOk(u) /\ QueueOk(u)
      BY <1>0 DEF ActorInv, QueueInv
    <3>2. CASE u = t
      BY <3>1, <3>2, <1>a, <1>d DEF ActorOk, Ending
    <3>3. CASE u # t
      <4>1. actor[u] = "stop" => cmd[u] \in Requests /\ cmd[u] # r
        BY <3>1, <1>a DEF QueueOk, Unanswered
      <4> QED BY <3>1, <3>3, <4>1, <1>a, <1>c, <1>d DEF ActorOk
    <3> QED BY <3>2, <3>3
  <2> QED BY <2>1 DEF ActorInv
<1>5. OrderInv'
  <2>1. \A i \in 1 .. Len(order) : order[i] \in Txs
    BY <1>0, SMT DEF TypeOK
  <2>2. \A i \in 1 .. Len(order) : actor'[order[i]] = actor[order[i]]
    BY <1>0, <1>a, <1>d, <2>1 DEF OrderInv, Recording
  <2> QED BY <1>0, <1>a, <2>2 DEF OrderInv
<1>6. TableInv'
  <2>1. ASSUME NEW u \in Txs PROVE TableOk(u)'
    <3>1. CASE u = t
      BY <3>1, <1>a, <1>b, <1>d DEF TableOk, Alive, Recording, ReqOk
    <3>2. CASE u # t
      <4>1. TableOk(u)
        BY <1>0 DEF TableInv
      <4> QED BY <3>2, <4>1, <1>a, <1>d DEF TableOk, Purged, Evictee
    <3> QED BY <3>1, <3>2
  <2> QED BY <2>1 DEF TableInv
<1>7. NotFoundInv'
  <2>1. ASSUME NEW q \in Requests PROVE NotFoundOk(q)'
    <3>1. CASE q = r
      BY <3>1, <1>a, <1>c, <1>e DEF NotFoundOk
    <3>2. CASE q # r
      <4>1. NotFoundOk(q) /\ req'[q] = req[q] /\ ReqOk(q)
        BY <1>0, <1>c, <3>2 DEF NotFoundInv, ReqInv
      <4>2. reply[q] # "empty" \/ req[q].end = "TxNotFound" => req[q].tx \in Txs \ {t}
        BY <4>1, <1>e DEF ReqOk
      <4> QED BY <4>1, <4>2, <1>a, <1>d
              DEF NotFoundOk, Dropped, Forgotten, Purged, Evictee
    <3> QED BY <3>1, <3>2
  <2> QED BY <2>1 DEF NotFoundInv
<1>8. CInv'
  BY <1>1, <1>2, <1>3, <1>4, <1>5, <1>6, <1>7 DEF CInv
<1>9. ASSUME DInv PROVE DInv'
  <2>0. LiveInv /\ DurableInv /\ FateInv
    BY <1>9 DEF DInv
  <2>1. ASSUME NEW u \in Txs \ {t}, Doomed(u) PROVE Doomed(u)'
    BY <2>1, <1>a, <1>c, <1>d DEF Doomed
  <2>2. LiveInv'
    BY <2>0, <1>a, <1>d DEF LiveInv
  <2>3. ASSUME NEW q \in Requests PROVE DurableOk(q)'
    <3>1. DurableOk(q)
      BY <2>0 DEF DurableInv
    <3>2. CASE q = r
      BY <3>2, <1>a, <1>e DEF DurableOk
    <3>3. CASE q # r
      BY <3>1, <3>3, <1>a, <1>c, <1>d, <1>e DEF DurableOk
    <3> QED BY <3>2, <3>3
  <2>4. ASSUME NEW q \in Requests PROVE FateOk(q)'
    <3>1. FateOk(q) /\ ReqOk(q)
      BY <2>0, <1>0 DEF FateInv, ReqInv
    <3>2. CASE q = r
      BY <3>2, <1>a, <1>c, <1>e DEF FateOk, TrueFor, Retryable
    <3>3. CASE q # r
      <4>1. req'[q] = req[q] /\ reply'[q] = reply[q] /\ effect'[q] = effect[q]
        BY <3>3, <1>a, <1>c
      <4>2. req[q].tx \in Txs => req[q].tx \in Txs \ {t}
        BY <1>e
      <4>3. reply[q] # "empty" => req[q].tx \in Txs
        BY <3>1 DEF ReqOk
      <4> QED BY <2>1, <3>1, <4>1, <4>2, <4>3 DEF FateOk, TrueFor
    <3> QED BY <3>2, <3>3
  <2> QED BY <2>2, <2>3, <2>4 DEF DInv, DurableInv, FateInv
<1> QED BY <1>8, <1>9

-----------------------------------------------------------------------------
(* Steps that end a command: the actor answers it and continues or breaks. *)

(* What such a step may do to the server's side: only transaction t, and   *)
(* no effect but that of r appears.                                        *)
Served(t, r) ==
  /\ effect' \in [Requests -> {"none", "pending", "durable", "undone"}]
  /\ tx' \in [Txs -> {"idle", "open", "failed"}]
  /\ link' \in [Txs -> {"up", "lost"}]
  /\ txOpen' \subseteq Txs
  /\ \A u \in Txs : u # t => tx'[u] = tx[u] /\ link'[u] = link[u]
  /\ \A q \in Requests : q # r /\ req[q].tx # t => effect'[q] = effect[q]
  /\ \A q \in Requests : q # r /\ effect[q] = "none" => effect'[q] = "none"

(* How such a step moves the actor and answers the command.                *)
Finishes(t, r, rep, new, end) ==
  /\ Serves(t, r) /\ Answer(r, rep) /\ Served(t, r)
  /\ actor' = [actor EXCEPT ![t] = new] /\ why' = [why EXCEPT ![t] = end]
  /\ new = "idle" <=> end = "none"
  /\ rep = "dropped" => end = "Abort" /\ req[r].verb # "stream"
  /\ UNCHANGED <<tableVars, cmd, queue, abort, held, sessionVars>>

(* What keeps its answer true.                                             *)
Fated(t, r, rep, end) ==
  /\ end = "none" /\ link'[t] = "up" => tx'[t] # "idle"
  /\ \A q \in Requests : req[q].tx = t /\ effect'[q] = "durable" => end = "Ended"
  /\ req[r].verb \notin Statements \cup {"commit"} => effect'[r] = "none"
  /\ rep = "deadline" => end \in {"Abort", "Deadline"}
  /\ rep = "lost" /\ req[r].verb \in Statements =>
       end # "Ended" /\ (link'[t] = "lost" \/ end \in {"Abort", "Deadline"})
  /\ rep = "cancel" => req[r].verb \notin Statements
  /\ rep # "timeout"
  /\ link[t] = "lost" =>
       /\ link'[t] = "lost"
       /\ \A q \in Requests : req[q].tx = t => effect'[q] # "durable"

LEMMA FinishFacts ==
  ASSUME CInv, NEW t \in Txs, NEW r \in Requests, NEW rep \in Replies \ {"empty"},
         NEW new \in {"idle", "rollback"},
         NEW end \in {"none", "Ended", "Abort", "Deadline"},
         Finishes(t, r, rep, new, end)
  PROVE  /\ Unanswered(r) /\ req[r].tx = t /\ actor[t] \in {"run", "stop"}
         /\ effect[r] = "none" /\ req[r].end = "none"
         /\ req' \in [Requests -> ReqType]
         /\ reply' \in [Requests -> Replies]
         /\ \A q \in Requests :
              /\ q # r => req'[q] = req[q] /\ reply'[q] = reply[q]
              /\ req'[q].verb = req[q].verb
              /\ req'[q].by = req[q].by
              /\ req'[q].tx = req[q].tx
         /\ \/ req'[r] = req[r] /\ reply'[r] = rep
            \/ /\ req[r].verb = "stream" /\ req'[r].at = "over"
               /\ req'[r].end = Declared("stream", rep)
               /\ reply'[r] = "empty"
         /\ actor'[t] = new /\ why'[t] = end
         /\ \A u \in Txs : u # t => actor'[u] = actor[u] /\ why'[u] = why[u]
<1>0. /\ TypeOK /\ ReqOk(r) /\ QueueOk(t)
  BY DEF CInv, ReqInv, QueueInv
<1>1. Unanswered(r) /\ req[r].tx = t /\ actor[t] \in {"run", "stop"}
  BY <1>0 DEF Finishes, Serves, QueueOk
<1>2. effect[r] = "none" /\ req[r].end = "none"
  BY <1>0, <1>1 DEF ReqOk, Unanswered
<1>3. Answer(r, rep) /\ (rep = "dropped" => req[r].verb # "stream")
  BY DEF Finishes
<1>4. /\ req' \in [Requests -> ReqType]
      /\ reply' \in [Requests -> Replies]
      /\ \A q \in Requests :
           q # r => req'[q] = req[q] /\ reply'[q] = reply[q]
      /\ req'[r].verb = req[r].verb
      /\ req'[r].by = req[r].by
      /\ req'[r].tx = req[r].tx
      /\ \/ /\ req'[r] = req[r]
            /\ reply'[r] = rep
         \/ /\ req[r].verb = "stream"
            /\ req'[r].at = "over"
            /\ req'[r].end = Declared("stream", rep)
            /\ reply'[r] = "empty"
  BY <1>0, <1>1, <1>3, AnswerFacts
<1>5. /\ actor'[t] = new /\ why'[t] = end
      /\ \A u \in Txs : u # t => actor'[u] = actor[u] /\ why'[u] = why[u]
  BY <1>0, SMT DEF Finishes, TypeOK
<1> QED BY <1>1, <1>2, <1>4, <1>5

LEMMA FinishKeeps ==
  ASSUME CInv, NEW t \in Txs, NEW r \in Requests, NEW rep \in Replies \ {"empty"},
         NEW new \in {"idle", "rollback"},
         NEW end \in {"none", "Ended", "Abort", "Deadline"},
         Finishes(t, r, rep, new, end)
  PROVE  CInv'
<1>0. /\ TypeOK /\ ReqInv /\ QueueInv /\ ActorInv
      /\ OrderInv /\ TableInv /\ NotFoundInv
  BY DEF CInv
<1>a. /\ Unanswered(r) /\ req[r].tx = t /\ actor[t] \in {"run", "stop"}
      /\ effect[r] = "none" /\ req[r].end = "none"
      /\ req' \in [Requests -> ReqType]
      /\ reply' \in [Requests -> Replies]
      /\ \A q \in Requests :
           /\ q # r => req'[q] = req[q] /\ reply'[q] = reply[q]
           /\ req'[q].verb = req[q].verb
           /\ req'[q].by = req[q].by
           /\ req'[q].tx = req[q].tx
      /\ \/ req'[r] = req[r] /\ reply'[r] = rep
         \/ /\ req[r].verb = "stream" /\ req'[r].at = "over"
            /\ req'[r].end = Declared("stream", rep)
            /\ reply'[r] = "empty"
      /\ actor'[t] = new /\ why'[t] = end
      /\ \A u \in Txs : u # t => actor'[u] = actor[u] /\ why'[u] = why[u]
  BY FinishFacts
<1>b. UNCHANGED <<table, owner, order, cmd, queue, abort, held, session, snapshot>>
  BY DEF Finishes, tableVars, sessionVars
<1>c. /\ Serves(t, r) /\ Served(t, r) /\ (new = "idle" <=> end = "none")
      /\ rep = "dropped" => end = "Abort" /\ req[r].verb # "stream"
      /\ actor' = [actor EXCEPT ![t] = new] /\ why' = [why EXCEPT ![t] = end]
  BY DEF Finishes
<1>d. Declared("stream", rep) # "TxNotFound" \/ rep = "dropped"
  BY DeclaredFacts DEF AllVerbs, Statements
<1>1. TypeOK'
  <2>1. actor' \in [Txs -> {"unborn", "idle", "run", "stop", "rollback",
                            "record", "drain", "signal", "gone"}]
        /\ why' \in [Txs -> {"none", "Ended", "Abort", "Deadline"}]
    BY <1>0, <1>c, SMT DEF TypeOK
  <2> QED BY <1>0, <1>a, <1>b, <1>c, <2>1 DEF TypeOK, ReqType, Served
<1>2. ReqInv'
  <2>1. ASSUME NEW q \in Requests PROVE ReqOk(q)'
    <3>1. ReqOk(q) /\ \A u \in Txs : actor[u] # "unborn" => actor'[u] # "unborn"
      BY <1>0, <1>a DEF ReqInv
    <3>2. CASE q = r
      <4>1. ~ Unanswered(r)' /\ req'[r].at \in {"wait", "over"} /\ req'[r].tx = t
        BY <1>a DEF Unanswered
      <4>2. req'[r].at # "over" => req'[r].end = "none"
        BY <1>a
      <4>3. req[r].by \in Owners
        BY <3>1, <3>2, <1>a DEF ReqOk, Unanswered
      <4> QED BY <3>2, <4>1, <4>2, <4>3, <1>a, NoneAssumption DEF ReqOk, Early
    <3>3. CASE q # r
      <4>1. req'[q] = req[q] /\ reply'[q] = reply[q]
        BY <1>a, <3>3
      <4>2. effect[q] = "none" => effect'[q] = "none"
        BY <1>c, <3>3 DEF Served
      <4> QED BY <3>1, <4>1, <4>2 DEF ReqOk, Unanswered
    <3> QED BY <3>2, <3>3
  <2> QED BY <2>1 DEF ReqInv
<1>3. QueueInv'
  <2>1. ASSUME NEW u \in Txs PROVE QueueOk(u)'
    <3>1. QueueOk(u)
      BY <1>0 DEF QueueInv
    <3>2. /\ actor'[u] \in {"run", "stop"} => actor[u] \in {"run", "stop"}
          /\ actor'[u] \in {"signal", "gone"} => queue[u] = <<>>
      BY <3>1, <1>a DEF QueueOk
    <3>3. ASSUME NEW q \in Requests, Unanswered(q), req[q].tx = u,
                 Serves(u, q) => actor'[u] \in {"run", "stop"}
          PROVE  req'[q].at = "wait" /\ reply'[q] = "empty" /\ req'[q].tx = u
      <4>1. q # r
        BY <3>3, <1>a, <1>c
      <4> QED BY <3>3, <4>1, <1>a DEF Unanswered
    <3> QED BY <1>0, <1>b, <3>1, <3>2, <3>3, QueueStays
  <2>2. ASSUME NEW q \in Requests, Unanswered(q)'
        PROVE  q \in Buffered(req[q].tx)' \/ Serves(req[q].tx, q)'
    <3>1. q # r /\ Unanswered(q) /\ req'[q] = req[q] /\ req[q].tx \in Txs
      BY <1>0, <1>a, <2>2 DEF Unanswered, ReqInv, ReqOk
    <3>2. q \in Buffered(req[q].tx) \/ Serves(req[q].tx, q)
      BY <1>0, <3>1 DEF QueueInv
    <3>3. Serves(req[q].tx, q) => req[q].tx # t
      BY <3>1, <1>c DEF Serves
    <3> QED BY <1>a, <1>b, <3>1, <3>2, <3>3 DEF Buffered, Serves
  <2> QED BY <2>1, <2>2 DEF QueueInv
<1>4. ActorInv'
  <2>1. ASSUME NEW u \in Txs PROVE ActorOk(u)'
    <3>1. ActorOk(u) /\ QueueOk(u)
      BY <1>0 DEF ActorInv, QueueInv
    <3>2. CASE u = t
      BY <3>2, <1>a, <1>c DEF ActorOk, Ending
    <3>3. CASE u # t
      <4>1. actor[u] = "stop" => cmd[u] \in Requests
        BY <3>1 DEF QueueOk
      <4> QED BY <3>1, <3>3, <4>1, <1>a, <1>b DEF ActorOk
    <3> QED BY <3>2, <3>3
  <2> QED BY <2>1 DEF ActorInv
<1>5. OrderInv'
  <2>1. \A i \in 1 .. Len(order) : order[i] \in Txs
    BY <1>0, SMT DEF TypeOK
  <2>2. \A i \in 1 .. Len(order) : actor'[order[i]] = actor[order[i]]
    BY <1>0, <1>a, <2>1 DEF OrderInv, Recording
  <2> QED BY <1>0, <1>b, <2>2 DEF OrderInv
<1>6. TableInv'
  <2>1. ASSUME NEW u \in Txs PROVE TableOk(u)'
    <3>1. TableOk(u) /\ (Purged(u)' <=> Purged(u)) /\ (Evictee(u)' <=> Evictee(u))
      BY <1>0, <1>b DEF TableInv, Purged, Evictee
    <3>2. CASE u = t
      BY <3>1, <3>2, <1>a, <1>b DEF TableOk, Alive, Recording
    <3>3. CASE u # t
      BY <3>1, <3>3, <1>a, <1>b DEF TableOk
    <3> QED BY <3>2, <3>3
  <2> QED BY <2>1 DEF TableInv
<1>7. NotFoundInv'
  <2>1. ASSUME NEW q \in Requests PROVE NotFoundOk(q)'
    <3>1. NotFoundOk(q) /\ ReqOk(q)
      BY <1>0 DEF NotFoundInv, ReqInv
    <3>2. CASE q = r
      <4>1. reply'[r] = "dropped" => Dropped(t)'
        BY <1>a, <1>c DEF Dropped, Ending
      <4>2. req'[r].end # "TxNotFound"
        BY <1>a, <1>c, <1>d
      <4> QED BY <3>2, <4>1, <4>2, <1>a DEF NotFoundOk
    <3>3. CASE q # r
      <4>1. req'[q] = req[q] /\ reply'[q] = reply[q]
        BY <1>a, <3>3
      <4>2. reply[q] # "empty" \/ req[q].end = "TxNotFound" => req[q].tx \in Txs
        BY <3>1 DEF ReqOk
      <4>3. \A u \in Txs : /\ Dropped(u) => Dropped(u)'
                           /\ Forgotten(u) => Forgotten(u)'
        BY <1>a, <1>b DEF Dropped, Forgotten, Purged, Evictee, Ending, Recording
      <4> QED BY <3>1, <4>1, <4>2, <4>3, <1>b DEF NotFoundOk
    <3> QED BY <3>2, <3>3
  <2> QED BY <2>1 DEF NotFoundInv
<1> QED BY <1>1, <1>2, <1>3, <1>4, <1>5, <1>6, <1>7 DEF CInv

LEMMA FinishFates ==
  ASSUME CInv, DInv, NEW t \in Txs, NEW r \in Requests,
         NEW rep \in Replies \ {"empty"}, NEW new \in {"idle", "rollback"},
         NEW end \in {"none", "Ended", "Abort", "Deadline"},
         Finishes(t, r, rep, new, end), Fated(t, r, rep, end)
  PROVE  DInv'
<1>0. LiveInv /\ DurableInv /\ FateInv /\ ReqInv
  BY DEF DInv, CInv
<1>a. /\ Unanswered(r) /\ req[r].tx = t /\ actor[t] \in {"run", "stop"}
      /\ effect[r] = "none" /\ req[r].end = "none"
      /\ req' \in [Requests -> ReqType]
      /\ reply' \in [Requests -> Replies]
      /\ \A q \in Requests :
           /\ q # r => req'[q] = req[q] /\ reply'[q] = reply[q]
           /\ req'[q].verb = req[q].verb
           /\ req'[q].by = req[q].by
           /\ req'[q].tx = req[q].tx
      /\ \/ req'[r] = req[r] /\ reply'[r] = rep
         \/ /\ req[r].verb = "stream" /\ req'[r].at = "over"
            /\ req'[r].end = Declared("stream", rep)
            /\ reply'[r] = "empty"
      /\ actor'[t] = new /\ why'[t] = end
      /\ \A u \in Txs : u # t => actor'[u] = actor[u] /\ why'[u] = why[u]
  BY FinishFacts
<1>c. /\ Served(t, r) /\ (new = "idle" <=> end = "none")
      /\ rep = "dropped" => end = "Abort" /\ req[r].verb # "stream"
  BY DEF Finishes
<1>d. rep # "dropped" /\ Declared("stream", rep) \in Retryable =>
        rep \in {"deadline", "timeout", "cancel", "lost"}
  BY DeclaredFacts DEF AllVerbs, Statements
<1>1. LiveInv'
  <2>1. ASSUME NEW u \in Txs, actor'[u] \in Alive, link'[u] = "up"
        PROVE  tx'[u] # "idle"
    <3>1. CASE u = t
      BY <2>1, <3>1, <1>a, <1>c DEF Fated, Alive
    <3>2. CASE u # t
      BY <2>1, <3>2, <1>0, <1>a, <1>c DEF LiveInv, Served
    <3> QED BY <3>1, <3>2
  <2> QED BY <2>1 DEF LiveInv
<1>2. DurableInv'
  <2>1. ASSUME NEW q \in Requests PROVE DurableOk(q)'
    <3>1. DurableOk(q)
      BY <1>0 DEF DurableInv
    <3>2. CASE req[q].tx = t
      <4>1. effect'[q] = "durable" => actor'[t] \in Ending /\ why'[t] = "Ended"
        BY <3>2, <1>a, <1>c DEF Fated, Ending
      <4>2. req[q].verb \notin Statements \cup {"commit"} => effect'[q] = "none"
        <5>1. CASE q = r
          BY <5>1 DEF Fated
        <5>2. CASE q # r
          BY <5>2, <3>1, <1>c DEF Served, DurableOk
        <5> QED BY <5>1, <5>2
      <4> QED BY <3>2, <4>1, <4>2, <1>a DEF DurableOk
    <3>3. CASE req[q].tx # t
      <4>1. q # r /\ effect'[q] = effect[q] /\ req'[q] = req[q]
        BY <3>3, <1>a, <1>c DEF Served
      <4> QED BY <3>1, <3>3, <4>1, <1>a DEF DurableOk
    <3> QED BY <3>2, <3>3
  <2> QED BY <2>1 DEF DurableInv
<1>3. ASSUME NEW u \in Txs, Doomed(u) PROVE Doomed(u)'
  <2>1. CASE u = t
    <3>1. link[t] = "lost"
      BY <1>3, <2>1, <1>a DEF Doomed, Ending
    <3>2. /\ link'[t] = "lost"
          /\ \A q \in Requests : req[q].tx = t => effect'[q] # "durable"
      BY <3>1 DEF Fated
    <3> QED BY <2>1, <3>2, <1>a DEF Doomed
  <2>2. CASE u # t
    <3>1. \A q \in Requests : req'[q].tx = u => req[q].tx = u /\ effect'[q] = effect[q]
      BY <2>2, <1>a, <1>c DEF Served
    <3>2. link'[u] = link[u]
      BY <2>2, <1>c DEF Served
    <3> QED BY <1>3, <2>2, <3>1, <3>2, <1>a DEF Doomed
  <2> QED BY <2>1, <2>2
<1>4. FateInv'
  <2>1. ASSUME NEW q \in Requests, q # r PROVE FateOk(q)'
    <3>1. FateOk(q) /\ ReqOk(q) /\ req'[q] = req[q] /\ reply'[q] = reply[q]
      BY <2>1, <1>0, <1>a DEF FateInv, ReqInv
    <3>2. reply[q] # "empty" => req[q].tx \in Txs
      BY <3>1 DEF ReqOk
    <3>3. effect[q] = "none" => effect'[q] = "none"
      BY <2>1, <1>c DEF Served
    <3> QED BY <1>3, <3>1, <3>2, <3>3 DEF FateOk, TrueFor
  <2>2. FateOk(r)'
    <3>1. ASSUME \/ rep = "deadline"
                 \/ rep = "lost" /\ req[r].verb \in Statements
          PROVE  Doomed(t)'
      <4>1. end # "Ended" /\ (link'[t] = "lost" \/ end \in {"Abort", "Deadline"})
        BY <3>1 DEF Fated
      <4>2. \A q \in Requests : req'[q].tx = t => effect'[q] # "durable"
        BY <4>1, <1>a DEF Fated
      <4>3. end \in {"Abort", "Deadline"} => actor'[t] \in Ending /\ why'[t] = end
        BY <1>a, <1>c DEF Ending
      <4> QED BY <4>1, <4>2, <4>3 DEF Doomed
    <3>2. (rep = "cancel" => req[r].verb \notin Statements) /\ rep # "timeout"
      BY DEF Fated
    <3>3. CASE req'[r] = req[r] /\ reply'[r] = rep
      BY <3>1, <3>2, <3>3, <1>a DEF FateOk, TrueFor, Retryable
    <3>4. CASE /\ req[r].verb = "stream"
               /\ req'[r].end = Declared("stream", rep)
               /\ reply'[r] = "empty"
      <4>1. req[r].verb \in Statements /\ rep # "dropped"
        BY <3>4, <1>c DEF Statements
      <4>2. Declared("stream", rep) \in Retryable => Doomed(t)'
        BY <4>1, <1>d, <3>1, <3>2
      <4> QED BY <3>4, <4>2, <1>a DEF FateOk, TrueFor
    <3> QED BY <3>3, <3>4, <1>a
  <2> QED BY <2>1, <2>2 DEF FateInv
<1> QED BY <1>1, <1>2, <1>4 DEF DInv

(* What the server does with a statement of a live transaction.            *)
LEMMA ServerFacts ==
  ASSUME TypeOK, NEW t \in Txs, NEW r \in Requests, req[r].tx = t,
         ServerOk(t, r) \/ ServerErr(t, r) \/ ServerLost(t, r)
  PROVE  /\ Served(t, r)
         /\ ServerErr(t, r) /\ effect[r] = "none" => effect'[r] = "none"
         /\ ServerLost(t, r) => link'[t] = "lost"
         /\ link[t] = "lost" => link'[t] = "lost"
<1> USE DEF serverVars
<1>1. CASE ServerOk(t, r)
  <2>1. PICK x \in {"pending", "durable"} : effect' = [effect EXCEPT ![r] = x]
    BY <1>1 DEF ServerOk
  <2>2. UNCHANGED <<tx, link>> /\ link[t] = "up" /\ txOpen' \subseteq Txs
    BY <1>1 DEF ServerOk, Confirmed, Suspected, TypeOK
  <2>3. Served(t, r)
    BY <2>1, <2>2, SMT DEF TypeOK, Served
  <2>4. ~ ServerLost(t, r)
    BY <2>2, SMT DEF TypeOK, ServerLost, LinkDies
  <2>5. ServerErr(t, r) => effect' = effect \/ effect' = Settle(t, "undone")
    BY DEF ServerErr
  <2>6. Settle(t, "undone") \in [Requests -> {"none", "pending", "durable", "undone"}]
        /\ (effect[r] = "none" => Settle(t, "undone")[r] = "none")
    BY SMT DEF Settle, TypeOK
  <2> QED BY <2>2, <2>3, <2>4, <2>5, <2>6
<1>2. CASE ServerErr(t, r)
  <2>1. PICK after \in {"idle", "open", "failed"} :
          /\ tx' = [tx EXCEPT ![t] = after]
          /\ effect' = IF after = "idle" THEN Settle(t, "undone") ELSE effect
    BY <1>2, ErrorAssumption DEF ServerErr, TypeOK
  <2>2. link' = link /\ link[t] = "up" /\ txOpen' \subseteq Txs
    BY <1>2 DEF ServerErr, Suspected, TypeOK
  <2>3. /\ Settle(t, "undone") \in [Requests -> {"none", "pending", "durable", "undone"}]
        /\ \A q \in Requests :
             /\ req[q].tx # t => Settle(t, "undone")[q] = effect[q]
             /\ effect[q] = "none" => Settle(t, "undone")[q] = "none"
    BY SMT DEF Settle, TypeOK
  <2>4. Served(t, r) /\ (effect[r] = "none" => effect'[r] = "none")
    <3>1. /\ effect' \in [Requests -> {"none", "pending", "durable", "undone"}]
          /\ \A q \in Requests :
               /\ req[q].tx # t => effect'[q] = effect[q]
               /\ effect[q] = "none" => effect'[q] = "none"
      BY <2>1, <2>3 DEF TypeOK
    <3>2. /\ tx' \in [Txs -> {"idle", "open", "failed"}]
          /\ \A u \in Txs : u # t => tx'[u] = tx[u]
      BY <2>1, SMT DEF TypeOK
    <3> QED BY <2>2, <3>1, <3>2 DEF Served, TypeOK
  <2>5. ~ ServerLost(t, r)
    BY <2>2, SMT DEF TypeOK, ServerLost, LinkDies
  <2> QED BY <2>2, <2>4, <2>5
<1>3. CASE ServerLost(t, r)
  <2>1. PICK fate \in {"durable", "undone"} :
          effect' = [Settle(t, "undone") EXCEPT ![r] = fate]
    BY <1>3 DEF ServerLost
  <2>2. /\ link' = [link EXCEPT ![t] = "lost"]
        /\ tx' = [tx EXCEPT ![t] = "idle"]
        /\ txOpen' \subseteq Txs
    BY <1>3 DEF ServerLost, LinkDies, Suspected, TypeOK
  <2>3. PICK st : st = Settle(t, "undone")
    OBVIOUS
  <2>4. /\ st \in [Requests -> {"none", "pending", "durable", "undone"}]
        /\ \A q \in Requests :
             /\ req[q].tx # t => st[q] = effect[q]
             /\ effect[q] = "none" => st[q] = "none"
    BY <2>3, SMT DEF Settle, TypeOK
  <2>5. /\ effect' \in [Requests -> {"none", "pending", "durable", "undone"}]
        /\ \A q \in Requests : q # r /\ req[q].tx # t => effect'[q] = effect[q]
        /\ \A q \in Requests : q # r /\ effect[q] = "none" => effect'[q] = "none"
    BY <2>1, <2>3, <2>4, SMT
  <2>6. /\ link' \in [Txs -> {"up", "lost"}]
        /\ tx' \in [Txs -> {"idle", "open", "failed"}]
        /\ \A u \in Txs : u # t => tx'[u] = tx[u] /\ link'[u] = link[u]
        /\ link'[t] = "lost"
    BY <2>2, SMT DEF TypeOK
  <2>7. Served(t, r)
    BY <2>2, <2>5, <2>6 DEF Served
  <2>8. ~ ServerErr(t, r)
    BY <2>6 DEF ServerErr
  <2> QED BY <2>6, <2>7, <2>8
<1> QED BY <1>1, <1>2, <1>3

(* While a transaction lives nothing of it becomes durable but by COMMIT.  *)
LEMMA ServerSafe ==
  ASSUME CInv, DInv, "idle" \notin TxAfterError,
         NEW t \in Txs, NEW r \in Requests, req[r].tx = t,
         actor[t] \in {"run", "stop"},
         ServerOk(t, r) \/ ServerErr(t, r) \/ ServerLost(t, r)
  PROVE  /\ \A q \in Requests : req[q].tx = t => effect'[q] # "durable"
         /\ link'[t] = "up" => tx'[t] # "idle"
<1> USE DEF serverVars
<1>0. TypeOK
  BY DEF CInv
<1>1. link[t] = "up" => tx[t] # "idle"
  BY DEF DInv, LiveInv, Alive
<1>2. \A q \in Requests : req[q].tx = t => effect[q] # "durable"
  BY DEF DInv, DurableInv, DurableOk, Ending
<1>3. CASE ServerOk(t, r)
  <2>1. tx[t] = "open"
    BY <1>0, <1>1, <1>3 DEF ServerOk, TypeOK
  <2> QED BY <1>0, <1>1, <1>2, <1>3, <2>1, SMT DEF ServerOk, TypeOK
<1>4. CASE ServerErr(t, r)
  <2>1. PICK after \in {"open", "failed"} :
          /\ tx' = [tx EXCEPT ![t] = after]
          /\ effect' = IF after = "idle" THEN Settle(t, "undone") ELSE effect
    <3>1. link[t] = "up" /\ tx[t] \in {"open", "failed"}
      BY <1>0, <1>1, <1>4 DEF ServerErr, TypeOK
    <3>2. TxAfterError \subseteq {"open", "failed"}
      BY ErrorAssumption
    <3> QED BY <1>4, <3>1, <3>2 DEF ServerErr
  <2> QED BY <1>0, <1>2, <2>1, SMT DEF TypeOK
<1>5. CASE ServerLost(t, r)
  <2>1. effect' = [Settle(t, "undone") EXCEPT ![r] = "undone"]
    BY <1>1, <1>5 DEF ServerLost
  <2>2. link' = [link EXCEPT ![t] = "lost"]
    BY <1>5 DEF ServerLost, LinkDies
  <2>3. PICK st : st = Settle(t, "undone")
    OBVIOUS
  <2>4. /\ st \in [Requests -> {"none", "pending", "durable", "undone"}]
        /\ \A q \in Requests : req[q].tx = t => st[q] # "durable"
    BY <1>0, <1>2, <2>3, SMT DEF Settle, TypeOK
  <2> QED BY <1>0, <2>1, <2>2, <2>3, <2>4, SMT DEF TypeOK
<1> QED BY <1>3, <1>4, <1>5

(* The shape shared by the actions that conclude a command.                *)
LEMMA ServesFacts ==
  ASSUME CInv, NEW t \in Txs, actor[t] \in {"run", "stop"}
  PROVE  /\ cmd[t] \in Requests /\ Serves(t, cmd[t])
         /\ req[cmd[t]].tx = t /\ effect[cmd[t]] = "none"
         /\ req[cmd[t]].verb \in AllVerbs
<1>1. QueueOk(t)
  BY DEF CInv, QueueInv
<1>2. cmd[t] \in Requests /\ Unanswered(cmd[t]) /\ req[cmd[t]].tx = t
  BY <1>1 DEF QueueOk
<1> QED BY <1>2 DEF Serves, CInv, ReqInv, ReqOk, TypeOK

LEMMA Concludes ==
  ASSUME CInv, NEW t \in Txs, actor[t] \in {"run", "stop"},
         NEW rep \in Replies \ {"empty"}, Answer(cmd[t], rep), Served(t, cmd[t]),
         NEW end \in {"none", "Ended", "Abort", "Deadline"},
         \/ end = "none" /\ actor[t] = "run" /\ Continue(t)
         \/ end # "none" /\ Break(t, end),
         rep = "dropped" => end = "Abort" /\ req[cmd[t]].verb # "stream",
         UNCHANGED <<tableVars, cmd, queue, abort, held, sessionVars>>,
         DInv /\ "idle" \notin TxAfterError => Fated(t, cmd[t], rep, end)
  PROVE  CInv' /\ (DInv /\ "idle" \notin TxAfterError => DInv')
<1>1. PICK r \in Requests : r = cmd[t] /\ Serves(t, r)
  BY ServesFacts
<1>2. ASSUME end = "none", actor[t] = "run", Continue(t)
      PROVE  /\ actor' = [actor EXCEPT ![t] = "idle"]
             /\ why' = [why EXCEPT ![t] = "none"]
  <2>1. why[t] = "none" /\ why \in [Txs -> {"none", "Ended", "Abort", "Deadline"}]
    BY <1>2 DEF CInv, ActorInv, ActorOk, TypeOK
  <2> QED BY <1>2, <2>1 DEF Continue
<1>3. PICK new \in {"idle", "rollback"} :
        /\ actor' = [actor EXCEPT ![t] = new] /\ why' = [why EXCEPT ![t] = end]
        /\ new = "idle" <=> end = "none"
  BY <1>2 DEF Break
<1>4. Finishes(t, r, rep, new, end)
  BY <1>1, <1>3 DEF Finishes
<1>5. CInv'
  BY <1>4, FinishKeeps
<1> QED BY <1>1, <1>4, <1>5, FinishFates

(* Effects settled by the end of transaction t, that of r among them.      *)
LEMMA SettleFacts ==
  ASSUME TypeOK, NEW t, NEW x \in {"durable", "undone"}
  PROVE  /\ Settle(t, x) \in [Requests -> {"none", "pending", "durable", "undone"}]
         /\ \A q \in Requests :
              /\ req[q].tx # t => Settle(t, x)[q] = effect[q]
              /\ effect[q] = "none" => Settle(t, x)[q] = "none"
              /\ req[q].tx = t => Settle(t, x)[q] # "pending"
              /\ x = "undone" /\ effect[q] # "durable" => Settle(t, x)[q] # "durable"
BY SMT DEF Settle, TypeOK

(* COMMIT and ROLLBACK touch one transaction and its link.                 *)
LEMMA EndFacts ==
  ASSUME TypeOK, NEW t \in Txs,
         tx' = tx \/ tx' = [tx EXCEPT ![t] = "idle"],
         link' = link \/ link' = [link EXCEPT ![t] = "lost"]
  PROVE  /\ link' \in [Txs -> {"up", "lost"}]
         /\ tx' \in [Txs -> {"idle", "open", "failed"}]
         /\ \A u \in Txs : u # t => tx'[u] = tx[u] /\ link'[u] = link[u]
         /\ link[t] = "lost" => link'[t] = "lost"
<1>1. /\ link \in [Txs -> {"up", "lost"}]
      /\ tx \in [Txs -> {"idle", "open", "failed"}]
  BY DEF TypeOK
<1>2. /\ tx' \in [Txs -> {"idle", "open", "failed"}]
      /\ \A u \in Txs : u # t => tx'[u] = tx[u]
  BY <1>1, SMT
<1>3. /\ link' \in [Txs -> {"up", "lost"}]
      /\ \A u \in Txs : u # t => link'[u] = link[u]
      /\ link[t] = "lost" => link'[t] = "lost"
  BY <1>1, SMT
<1> QED BY <1>2, <1>3

LEMMA CommitKeeps ==
  ASSUME CInv, NEW t \in Txs, Commit(t)
  PROVE  CInv' /\ (DInv /\ "idle" \notin TxAfterError => DInv')
<1>0. /\ actor[t] = "run" /\ req[cmd[t]].verb = "commit" /\ Break(t, "Ended")
      /\ UNCHANGED <<tableVars, cmd, queue, abort, held, sessionVars>>
  BY DEF Commit, Running
<1>1. TypeOK /\ cmd[t] \in Requests /\ req[cmd[t]].tx = t
  BY <1>0, ServesFacts DEF CInv
<1>2. PICK r \in Requests : r = cmd[t]
  BY <1>1
<1>3. PICK rep \in {"ok", "sql", "cancel", "lost"}, x \in {"durable", "undone"},
           st \in {effect, Settle(t, "durable"), Settle(t, "undone")} :
        /\ Answer(r, rep)
        /\ effect' = [st EXCEPT ![r] = x]
        /\ st = Settle(t, x) \/ (st = effect /\ x = "undone")
        /\ tx' = tx \/ tx' = [tx EXCEPT ![t] = "idle"]
        /\ txOpen' \in {Confirmed(t), Suspected(t)}
        /\ \/ link' = link /\ link[t] = "up"
           \/ link' = [link EXCEPT ![t] = "lost"] /\ (link[t] = "up" \/ x = "undone")
  <2>1. CASE /\ link[t] = "up"
             /\ effect' = IF tx[t] = "open"
                             THEN [Settle(t, "durable") EXCEPT ![r] = "durable"]
                             ELSE [Settle(t, "undone") EXCEPT ![r] = "undone"]
             /\ tx' = [tx EXCEPT ![t] = "idle"]
             /\ txOpen' = Confirmed(t)
             /\ Answer(r, "ok")
             /\ UNCHANGED link
    BY <2>1
  <2>2. CASE /\ link[t] = "up"
             /\ \/ /\ tx' = [tx EXCEPT ![t] = "idle"]
                   /\ effect' = [Settle(t, "undone") EXCEPT ![r] = "undone"]
                \/ /\ UNCHANGED tx
                   /\ effect' = [effect EXCEPT ![r] = "undone"]
             /\ txOpen' = Suspected(t)
             /\ \E err \in {"sql", "cancel"} : Answer(r, err)
             /\ UNCHANGED link
    BY <2>2
  <2>3. CASE /\ LinkDies(t)
             /\ \E fate \in IF link[t] = "up" /\ tx[t] = "open"
                              THEN {"durable", "undone"} ELSE {"undone"} :
                  effect' = [Settle(t, fate) EXCEPT ![r] = fate]
             /\ Answer(r, "lost")
    BY <2>3 DEF LinkDies
  <2> QED BY <1>2, <2>1, <2>2, <2>3 DEF Commit
<1>5. /\ st \in [Requests -> {"none", "pending", "durable", "undone"}]
      /\ \A q \in Requests :
           /\ req[q].tx # t => st[q] = effect[q]
           /\ effect[q] = "none" => st[q] = "none"
           /\ x = "undone" /\ effect[q] # "durable" => st[q] # "durable"
  <2>1. CASE st = Settle(t, x)
    BY <1>1, <2>1, SettleFacts
  <2>2. CASE st = effect
    BY <1>1, <2>2 DEF TypeOK
  <2> QED BY <1>3, <2>1, <2>2
<1>6. /\ effect' \in [Requests -> {"none", "pending", "durable", "undone"}]
      /\ \A q \in Requests :
           /\ q # r /\ req[q].tx # t => effect'[q] = effect[q]
           /\ q # r /\ effect[q] = "none" => effect'[q] = "none"
           /\ x = "undone" /\ effect[q] # "durable" => effect'[q] # "durable"
  BY <1>3, <1>5, SMT
<1>7. /\ link' \in [Txs -> {"up", "lost"}]
      /\ tx' \in [Txs -> {"idle", "open", "failed"}]
      /\ \A u \in Txs : u # t => tx'[u] = tx[u] /\ link'[u] = link[u]
      /\ link[t] = "lost" => link'[t] = "lost" /\ x = "undone"
  BY <1>1, <1>3, EndFacts
<1>8. Served(t, r)
  <2>1. txOpen' \subseteq Txs
    BY <1>1, <1>3 DEF Confirmed, Suspected, TypeOK
  <2> QED BY <1>6, <1>7, <2>1 DEF Served
<1>9. ASSUME DInv PROVE Fated(t, r, rep, "Ended")
  <2>1. \A q \in Requests : req[q].tx = t => effect[q] # "durable"
    BY <1>9, <1>0 DEF DInv, DurableInv, DurableOk, Ending
  <2>2. rep \in {"ok", "sql", "cancel", "lost"} /\ req[r].verb \notin Statements
    BY <1>0, <1>2 DEF Statements
  <2> QED BY <1>0, <1>2, <1>6, <1>7, <2>1, <2>2 DEF Fated
<1> QED BY <1>0, <1>2, <1>3, <1>8, <1>9, Concludes DEF Replies, Errors

LEMMA RollbackKeeps ==
  ASSUME CInv, NEW t \in Txs, Rollback(t)
  PROVE  CInv' /\ (DInv /\ "idle" \notin TxAfterError => DInv')
<1>0. /\ actor[t] = "run" /\ req[cmd[t]].verb = "rollback" /\ Break(t, "Ended")
      /\ UNCHANGED <<tableVars, cmd, queue, abort, held, sessionVars>>
  BY DEF Rollback, Running
<1>1. TypeOK /\ cmd[t] \in Requests /\ req[cmd[t]].tx = t /\ effect[cmd[t]] = "none"
  BY <1>0, ServesFacts DEF CInv
<1>2. PICK r \in Requests : r = cmd[t]
  BY <1>1
<1>3. PICK rep \in {"ok", "sql", "cancel", "lost"} :
        /\ Answer(r, rep)
        /\ effect' = effect \/ effect' = Settle(t, "undone")
        /\ tx' = tx \/ tx' = [tx EXCEPT ![t] = "idle"]
        /\ txOpen' \in {Confirmed(t), Suspected(t)}
        /\ link' = link \/ link' = [link EXCEPT ![t] = "lost"]
  <2>1. CASE RollbackOk(t) /\ Answer(r, "ok")
    BY <2>1 DEF RollbackOk
  <2>2. CASE RollbackErr(t) /\ \E err \in {"sql", "cancel"} : Answer(r, err)
    BY <2>2 DEF RollbackErr
  <2>3. CASE LinkDies(t) /\ effect' = Settle(t, "undone") /\ Answer(r, "lost")
    BY <2>3 DEF LinkDies
  <2> QED BY <1>2, <2>1, <2>2, <2>3 DEF Rollback
<1>4. /\ effect' \in [Requests -> {"none", "pending", "durable", "undone"}]
      /\ \A q \in Requests :
           /\ req[q].tx # t => effect'[q] = effect[q]
           /\ effect[q] = "none" => effect'[q] = "none"
           /\ effect[q] # "durable" => effect'[q] # "durable"
  <2>1. CASE effect' = effect
    BY <1>1, <2>1 DEF TypeOK
  <2>2. CASE effect' = Settle(t, "undone")
    BY <1>1, <2>2, SettleFacts
  <2> QED BY <1>3, <2>1, <2>2
<1>5. /\ link' \in [Txs -> {"up", "lost"}]
      /\ tx' \in [Txs -> {"idle", "open", "failed"}]
      /\ \A u \in Txs : u # t => tx'[u] = tx[u] /\ link'[u] = link[u]
      /\ link[t] = "lost" => link'[t] = "lost"
  BY <1>1, <1>3, EndFacts
<1>6. Served(t, r)
  <2>1. txOpen' \subseteq Txs
    BY <1>1, <1>3 DEF Confirmed, Suspected, TypeOK
  <2> QED BY <1>4, <1>5, <2>1 DEF Served
<1>7. ASSUME DInv PROVE Fated(t, r, rep, "Ended")
  <2>1. \A q \in Requests : req[q].tx = t => effect[q] # "durable"
    BY <1>7, <1>0 DEF DInv, DurableInv, DurableOk, Ending
  <2>2. rep \in {"ok", "sql", "cancel", "lost"} /\ req[r].verb \notin Statements
    BY <1>0, <1>2 DEF Statements
  <2> QED BY <1>1, <1>2, <1>4, <1>5, <2>1, <2>2 DEF Fated
<1> QED BY <1>0, <1>2, <1>3, <1>6, <1>7, Concludes DEF Replies, Errors

LEMMA SavepointKeeps ==
  ASSUME CInv, NEW t \in Txs, Savepoint(t)
  PROVE  CInv' /\ (DInv /\ "idle" \notin TxAfterError => DInv')
<1>0. /\ actor[t] = "run" /\ req[cmd[t]].verb = "savepoint" /\ Continue(t)
      /\ UNCHANGED <<tableVars, cmd, queue, abort, held, sessionVars>>
  BY DEF Savepoint, Running
<1>1. TypeOK /\ cmd[t] \in Requests /\ req[cmd[t]].tx = t /\ effect[cmd[t]] = "none"
  BY <1>0, ServesFacts DEF CInv
<1>2. PICK r \in Requests : r = cmd[t]
  BY <1>1
<1>3. req[r].verb \notin Statements
  BY <1>0, <1>2 DEF Statements
<1>4. ASSUME DInv
      PROVE  /\ \A q \in Requests : req[q].tx = t => effect[q] # "durable"
             /\ link[t] = "up" => tx[t] # "idle"
  BY <1>0, <1>4 DEF DInv, DurableInv, DurableOk, LiveInv, Alive, Ending
<1>t. /\ effect \in [Requests -> {"none", "pending", "durable", "undone"}]
      /\ tx \in [Txs -> {"idle", "open", "failed"}]
      /\ link \in [Txs -> {"up", "lost"}]
      /\ txOpen \subseteq Txs
  BY <1>1 DEF TypeOK
<1>5. CASE /\ link[t] = "up"
           /\ tx' = [tx EXCEPT ![t] = IF @ = "failed" THEN "open" ELSE @]
           /\ txOpen' = Confirmed(t)
           /\ Answer(r, "ok")
           /\ UNCHANGED <<effect, link>>
  <2>1. /\ tx' \in [Txs -> {"idle", "open", "failed"}]
        /\ \A u \in Txs : u # t => tx'[u] = tx[u]
        /\ tx[t] # "idle" => tx'[t] # "idle"
    BY <1>5, <1>t, SMT
  <2>2. Served(t, r)
    <3>1. txOpen' \subseteq Txs
      BY <1>5, <1>t DEF Confirmed
    <3> QED BY <1>5, <1>t, <2>1, <3>1 DEF Served
  <2>3. DInv => Fated(t, r, "ok", "none")
    BY <1>1, <1>2, <1>3, <1>4, <1>5, <2>1 DEF Fated
  <2> QED BY <1>0, <1>2, <1>5, <2>2, <2>3, Concludes DEF Replies
<1>6. CASE ServerErr(t, r) /\ \E err \in {"sql", "cancel"} : Answer(r, err)
  <2>1. PICK err \in {"sql", "cancel"} : Answer(r, err)
    BY <1>6
  <2>2. Served(t, r) /\ effect'[r] = "none" /\ (link[t] = "lost" => link'[t] = "lost")
    BY <1>1, <1>2, <1>6, ServerFacts
  <2>3. DInv /\ "idle" \notin TxAfterError => Fated(t, r, err, "none")
    <3>1. ASSUME DInv, "idle" \notin TxAfterError
          PROVE  /\ \A q \in Requests : req[q].tx = t => effect'[q] # "durable"
                 /\ link'[t] = "up" => tx'[t] # "idle"
      BY <1>0, <1>1, <1>2, <1>6, <3>1, ServerSafe
    <3> QED BY <1>3, <2>1, <2>2, <3>1 DEF Fated
  <2> QED BY <1>0, <1>2, <2>1, <2>2, <2>3, Concludes DEF Replies, Errors
<1>7. CASE LinkDies(t) /\ effect' = Settle(t, "undone") /\ Answer(r, "lost")
  <2>1. /\ link' \in [Txs -> {"up", "lost"}]
        /\ tx' \in [Txs -> {"idle", "open", "failed"}]
        /\ \A u \in Txs : u # t => tx'[u] = tx[u] /\ link'[u] = link[u]
        /\ link'[t] = "lost"
    BY <1>7, <1>t, SMT DEF LinkDies
  <2>2. /\ effect' \in [Requests -> {"none", "pending", "durable", "undone"}]
        /\ \A q \in Requests :
             /\ req[q].tx # t => effect'[q] = effect[q]
             /\ effect[q] = "none" => effect'[q] = "none"
             /\ effect[q] # "durable" => effect'[q] # "durable"
    BY <1>1, <1>7, SettleFacts
  <2>3. Served(t, r)
    <3>1. txOpen' \subseteq Txs
      BY <1>7, <1>t DEF LinkDies, Suspected
    <3> QED BY <2>1, <2>2, <3>1 DEF Served
  <2>4. DInv => Fated(t, r, "lost", "none")
    BY <1>1, <1>2, <1>3, <1>4, <2>1, <2>2 DEF Fated
  <2> QED BY <1>0, <1>2, <1>7, <2>3, <2>4, Concludes DEF Replies, Errors
<1>8. CASE Answer(r, "unknown") /\ UNCHANGED <<effect, serverVars>>
  <2>1. Served(t, r)
    BY <1>8, <1>t DEF Served, serverVars
  <2>2. DInv => Fated(t, r, "unknown", "none")
    BY <1>1, <1>2, <1>3, <1>4, <1>8 DEF Fated, serverVars
  <2> QED BY <1>0, <1>2, <1>8, <2>1, <2>2, Concludes DEF Replies
<1> QED BY <1>2, <1>5, <1>6, <1>7, <1>8 DEF Savepoint

(* A statement that the server served, whatever it answered.               *)
LEMMA StatementKeeps ==
  ASSUME CInv, NEW t \in Txs, actor[t] \in {"run", "stop"},
         req[cmd[t]].verb \in Statements,
         \/ ServerOk(t, cmd[t]) \/ ServerErr(t, cmd[t]) \/ ServerLost(t, cmd[t]),
         NEW rep \in Replies \ {"empty", "cancel", "timeout"}, Answer(cmd[t], rep),
         NEW end \in {"none", "Abort", "Deadline"},
         \/ end = "none" /\ actor[t] = "run" /\ Continue(t)
         \/ end # "none" /\ Break(t, end),
         rep = "dropped" => end = "Abort" /\ req[cmd[t]].verb # "stream",
         rep = "deadline" => end # "none",
         rep = "lost" => end # "none" \/ ServerLost(t, cmd[t]),
         UNCHANGED <<tableVars, cmd, queue, abort, held, sessionVars>>
  PROVE  CInv' /\ (DInv /\ "idle" \notin TxAfterError => DInv')
<1>1. TypeOK /\ cmd[t] \in Requests /\ req[cmd[t]].tx = t /\ effect[cmd[t]] = "none"
  BY ServesFacts DEF CInv
<1>2. PICK r \in Requests : r = cmd[t]
  BY <1>1
<1>3. /\ Served(t, r)
      /\ ServerLost(t, r) => link'[t] = "lost"
      /\ link[t] = "lost" => link'[t] = "lost"
  BY <1>1, <1>2, ServerFacts
<1>4. DInv /\ "idle" \notin TxAfterError => Fated(t, r, rep, end)
  <2>1. ASSUME DInv, "idle" \notin TxAfterError
        PROVE  /\ \A q \in Requests : req[q].tx = t => effect'[q] # "durable"
               /\ link'[t] = "up" => tx'[t] # "idle"
    BY <1>1, <1>2, <2>1, ServerSafe
  <2> QED BY <1>2, <1>3, <2>1 DEF Fated
<1> QED BY <1>2, <1>3, <1>4, Concludes

LEMMA CompletesKeeps ==
  ASSUME CInv, NEW t \in Txs, Completes(t)
  PROVE  CInv' /\ (DInv /\ "idle" \notin TxAfterError => DInv')
<1>0. /\ actor[t] = "run" /\ req[cmd[t]].verb \in Statements /\ Continue(t)
      /\ UNCHANGED <<tableVars, cmd, queue, abort, held, sessionVars>>
  BY DEF Completes, Running
<1>1. CASE ServerOk(t, cmd[t]) /\ \E rep \in Unread(req[cmd[t]].verb) : Answer(cmd[t], rep)
  <2>1. Unread(req[cmd[t]].verb) \subseteq {"ok", "backend", "unsupported"}
    BY <1>0, SMT DEF Unread, Statements
  <2>2. PICK rep \in {"ok", "backend", "unsupported"} : Answer(cmd[t], rep)
    BY <1>1, <2>1
  <2> QED BY <1>0, <1>1, <2>2, StatementKeeps DEF Replies, Errors
<1>2. CASE ServerErr(t, cmd[t]) /\ Answer(cmd[t], "sql")
  BY <1>0, <1>2, StatementKeeps DEF Replies, Errors
<1>3. CASE ServerLost(t, cmd[t]) /\ Answer(cmd[t], "lost")
  BY <1>0, <1>3, StatementKeeps DEF Replies, Errors
<1> QED BY <1>1, <1>2, <1>3 DEF Completes

LEMMA QueueNoEffectKeeps ==
  ASSUME CInv, NEW t \in Txs, QueueNoEffect(t)
  PROVE  CInv' /\ (DInv /\ "idle" \notin TxAfterError => DInv')
<1>0. /\ actor[t] = "run" /\ req[cmd[t]].verb = "queue" /\ Continue(t)
      /\ UNCHANGED <<tableVars, cmd, queue, abort, held, sessionVars>>
      /\ UNCHANGED <<effect, tx, link>>
  BY DEF QueueNoEffect, Running, serverVars
<1>1. TypeOK /\ cmd[t] \in Requests /\ req[cmd[t]].tx = t /\ effect[cmd[t]] = "none"
  BY <1>0, ServesFacts DEF CInv
<1>2. PICK r \in Requests : r = cmd[t]
  BY <1>1
<1>3. PICK rep \in {"unsent", "lease"} : Answer(r, rep)
  BY <1>2 DEF QueueNoEffect
<1>4. Served(t, r)
  <2>1. txOpen' \subseteq Txs
    BY <1>1 DEF QueueNoEffect, Confirmed, TypeOK
  <2> QED BY <1>0, <1>1, <2>1 DEF Served, TypeOK
<1>5. ASSUME DInv PROVE Fated(t, r, rep, "none")
  <2>1. /\ \A q \in Requests : req[q].tx = t => effect[q] # "durable"
        /\ link[t] = "up" => tx[t] # "idle"
    BY <1>0, <1>5 DEF DInv, DurableInv, DurableOk, LiveInv, Alive, Ending
  <2> QED BY <1>0, <1>1, <1>2, <2>1 DEF Fated
<1> QED BY <1>0, <1>2, <1>3, <1>4, <1>5, Concludes DEF Replies

LEMMA BreaksKeep ==
  ASSUME CInv, NEW t \in Txs, Cancelled(t) \/ Unreadable(t) \/ Drained(t)
  PROVE  CInv' /\ (DInv /\ "idle" \notin TxAfterError => DInv')
<1>e. BreakEnd(t) \in {"Abort", "Deadline"} /\ StreamEnd(t) \in {"Abort", "Deadline"}
  BY DEF BreakEnd, StreamEnd
<1>1. CASE Cancelled(t)
  <2>1. /\ actor[t] = "run" /\ req[cmd[t]].verb \in Statements
        /\ ServerErr(t, cmd[t]) /\ Answer(cmd[t], "deadline")
        /\ Break(t, BreakEnd(t))
        /\ UNCHANGED <<tableVars, cmd, queue, abort, held, sessionVars>>
    BY <1>1 DEF Cancelled, Running
  <2>2. PICK end \in {"Abort", "Deadline"} : end = BreakEnd(t)
    BY <1>e
  <2> QED BY <2>1, <2>2, StatementKeeps DEF Replies
<1>2. CASE Unreadable(t)
  <2>1. /\ actor[t] = "run" /\ req[cmd[t]].verb \in Statements
        /\ ServerOk(t, cmd[t]) /\ Break(t, BreakEnd(t))
        /\ UNCHANGED <<tableVars, cmd, queue, abort, held, sessionVars>>
    BY <1>2 DEF Unreadable, Running, Statements
  <2>2. PICK rep \in {"unsupported", "lost"} : Answer(cmd[t], rep)
    BY <1>2 DEF Unreadable
  <2>3. PICK end \in {"Abort", "Deadline"} : end = BreakEnd(t)
    BY <1>e
  <2> QED BY <2>1, <2>2, <2>3, StatementKeeps DEF Replies, Errors
<1>3. CASE Drained(t)
  <2>1. /\ actor[t] = "stop"
        /\ ServerOk(t, cmd[t]) \/ ServerErr(t, cmd[t]) \/ ServerLost(t, cmd[t])
        /\ Break(t, IF req[cmd[t]].verb = "stream" THEN StreamEnd(t) ELSE why[t])
        /\ UNCHANGED <<tableVars, cmd, queue, abort, held, sessionVars>>
    BY <1>3 DEF Drained
  <2>2. why[t] \in {"Abort", "Deadline"} /\ req[cmd[t]].verb \in Statements
    BY <2>1 DEF CInv, ActorInv, ActorOk
  <2>3. PICK end \in {"Abort", "Deadline"} :
          end = IF req[cmd[t]].verb = "stream" THEN StreamEnd(t) ELSE why[t]
    BY <2>2, <1>e
  <2>4. PICK rep \in {"dropped", "deadline"} :
          /\ Answer(cmd[t], rep)
          /\ rep = "dropped" => req[cmd[t]].verb # "stream" /\ why[t] = "Abort"
    BY <1>3 DEF Drained
  <2> QED BY <2>1, <2>2, <2>3, <2>4, StatementKeeps DEF Replies
<1> QED BY <1>1, <1>2, <1>3

-----------------------------------------------------------------------------
(* Steps of an actor that answer nobody.                                   *)

Moves(t, new, end) ==
  /\ actor' = [actor EXCEPT ![t] = new] /\ why' = [why EXCEPT ![t] = end]
  /\ UNCHANGED <<req, reply, table, owner, order, cmd, queue, abort, link,
                 session, snapshot>>
  /\ \/ actor[t] = "idle" /\ new = "rollback" /\ end \in {"Abort", "Deadline"}
     \/ /\ actor[t] = "run" /\ new = "stop" /\ end \in {"Abort", "Deadline"}
        /\ req[cmd[t]].verb \in Statements
     \/ actor[t] = "rollback" /\ new = "record" /\ end = why[t]
     \/ actor[t] = "signal" /\ new = "gone" /\ end = why[t]
     \/ actor[t] \in Ending \ {"rollback"} /\ new = actor[t] /\ end = why[t]
  /\ held' = IF actor[t] = "rollback" THEN [held EXCEPT ![t] = FALSE] ELSE held
  /\ \/ UNCHANGED <<tx, effect>>
     \/ /\ actor[t] \in Ending
        /\ tx' = [tx EXCEPT ![t] = "idle"] /\ effect' = Settle(t, "undone")
  /\ txOpen' \subseteq Txs

LEMMA MoveKeeps ==
  ASSUME CInv, NEW t \in Txs, NEW new, NEW end, Moves(t, new, end)
  PROVE  CInv' /\ (DInv => DInv')
<1>0. /\ TypeOK /\ ReqInv /\ QueueInv /\ ActorInv
      /\ OrderInv /\ TableInv /\ NotFoundInv
  BY DEF CInv
<1>t. /\ actor \in [Txs -> {"unborn", "idle", "run", "stop", "rollback",
                            "record", "drain", "signal", "gone"}]
      /\ why \in [Txs -> {"none", "Ended", "Abort", "Deadline"}]
      /\ held \in [Txs -> BOOLEAN]
      /\ tx \in [Txs -> {"idle", "open", "failed"}]
      /\ effect \in [Requests -> {"none", "pending", "durable", "undone"}]
  BY <1>0 DEF TypeOK
<1>a. /\ UNCHANGED <<req, reply, table, owner, order, cmd, queue, abort, link,
                     session, snapshot>>
      /\ \/ actor[t] = "idle" /\ new = "rollback" /\ end \in {"Abort", "Deadline"}
         \/ /\ actor[t] = "run" /\ new = "stop" /\ end \in {"Abort", "Deadline"}
            /\ req[cmd[t]].verb \in Statements
         \/ actor[t] = "rollback" /\ new = "record" /\ end = why[t]
         \/ actor[t] = "signal" /\ new = "gone" /\ end = why[t]
         \/ actor[t] \in Ending \ {"rollback"} /\ new = actor[t] /\ end = why[t]
  BY DEF Moves
<1>b. /\ actor' \in [Txs -> {"unborn", "idle", "run", "stop", "rollback",
                             "record", "drain", "signal", "gone"}]
      /\ why' \in [Txs -> {"none", "Ended", "Abort", "Deadline"}]
      /\ actor'[t] = new /\ why'[t] = end
      /\ \A u \in Txs : u # t => actor'[u] = actor[u] /\ why'[u] = why[u]
  <2>1. /\ actor' = [actor EXCEPT ![t] = new] /\ why' = [why EXCEPT ![t] = end]
    BY DEF Moves
  <2>2. /\ new \in {"rollback", "stop", "record", "drain", "signal", "gone"}
        /\ end \in {"none", "Ended", "Abort", "Deadline"}
    BY <1>a, <1>t DEF Ending
  <2> QED BY <1>t, <2>1, <2>2, SMT
<1>c. /\ tx' \in [Txs -> {"idle", "open", "failed"}]
      /\ effect' \in [Requests -> {"none", "pending", "durable", "undone"}]
      /\ \A u \in Txs : u # t => tx'[u] = tx[u]
      /\ \A q \in Requests :
           /\ effect[q] = "none" => effect'[q] = "none"
           /\ effect[q] # "none" => effect'[q] # "none"
           /\ effect[q] # "durable" => effect'[q] # "durable"
      /\ actor[t] \notin Ending => tx' = tx
      /\ txOpen' \subseteq Txs
  <2>1. CASE tx' = [tx EXCEPT ![t] = "idle"] /\ effect' = Settle(t, "undone")
             /\ actor[t] \in Ending
    <3>2. /\ effect' \in [Requests -> {"none", "pending", "durable", "undone"}]
          /\ \A q \in Requests :
               /\ effect[q] = "none" => effect'[q] = "none"
               /\ effect[q] # "durable" => effect'[q] # "durable"
      BY <1>0, <2>1, SettleFacts
    <3>3. \A q \in Requests : effect[q] # "none" => effect'[q] # "none"
      BY <1>t, <2>1, SMT DEF Settle
    <3>4. /\ tx' \in [Txs -> {"idle", "open", "failed"}]
          /\ \A u \in Txs : u # t => tx'[u] = tx[u]
      BY <1>t, <2>1, SMT
    <3> QED BY <2>1, <3>2, <3>3, <3>4 DEF Moves
  <2>2. CASE UNCHANGED <<tx, effect>>
    BY <1>t, <2>2 DEF Moves
  <2> QED BY <2>1, <2>2 DEF Moves
<1>d. /\ held' \in [Txs -> BOOLEAN]
      /\ \A u \in Txs : u # t => held'[u] = held[u]
      /\ actor[t] = "rollback" => held'[t] = FALSE
      /\ actor[t] # "rollback" => held' = held
  <2>1. CASE actor[t] = "rollback"
    <3>1. held' = [held EXCEPT ![t] = FALSE]
      BY <2>1 DEF Moves
    <3>2. held' \in [Txs -> BOOLEAN]
      BY <1>t, <3>1
    <3> QED BY <1>t, <2>1, <3>1, <3>2
  <2>2. CASE actor[t] # "rollback"
    BY <1>t, <2>2 DEF Moves
  <2> QED BY <2>1, <2>2
<1>1. TypeOK'
  BY <1>0, <1>a, <1>b, <1>c, <1>d DEF TypeOK
<1>2. ReqInv'
  <2>1. ASSUME NEW q \in Requests PROVE ReqOk(q)'
    <3>1. ReqOk(q) /\ \A u \in Txs : actor[u] # "unborn" => actor'[u] # "unborn"
      BY <1>0, <1>a, <1>b DEF ReqInv
    <3> QED BY <3>1, <1>a, <1>c DEF ReqOk, Unanswered
  <2> QED BY <2>1 DEF ReqInv
<1>3. QueueInv'
  <2>1. ASSUME NEW u \in Txs PROVE QueueOk(u)'
    <3>1. QueueOk(u)
      BY <1>0 DEF QueueInv
    <3>2. /\ actor'[u] \in {"run", "stop"} => actor[u] \in {"run", "stop"}
          /\ actor'[u] \in {"signal", "gone"} => actor[u] \in {"signal", "gone"}
      BY <1>a, <1>b
    <3>3. actor'[u] \in {"signal", "gone"} => queue[u] = <<>>
      BY <3>1, <3>2 DEF QueueOk
    <3>4. \A q \in Requests : Unanswered(q) => req'[q].at = "wait" /\ reply'[q] = "empty"
      BY <1>a DEF Unanswered
    <3> QED BY <1>0, <1>a, <3>1, <3>2, <3>3, <3>4, QueueStays
  <2>2. ASSUME NEW q \in Requests, Unanswered(q)'
        PROVE  q \in Buffered(req[q].tx)' \/ Serves(req[q].tx, q)'
    <3>1. Unanswered(q) /\ req[q].tx \in Txs
      BY <1>0, <1>a, <2>2 DEF Unanswered, ReqInv, ReqOk
    <3>2. q \in Buffered(req[q].tx) \/ Serves(req[q].tx, q)
      BY <1>0, <3>1 DEF QueueInv
    <3>3. \A u \in Txs : actor[u] \in {"run", "stop"} => actor'[u] \in {"run", "stop"}
      BY <1>a, <1>b
    <3> QED BY <1>a, <3>1, <3>2, <3>3 DEF Buffered, Serves
  <2> QED BY <2>1, <2>2 DEF QueueInv
<1>4. ActorInv'
  <2>1. ASSUME NEW u \in Txs PROVE ActorOk(u)'
    <3>1. ActorOk(u)
      BY <1>0 DEF ActorInv
    <3>2. CASE u = t
      <4>1. /\ new \in Ending => end # "none"
            /\ new = "stop" => end \in {"Abort", "Deadline"} /\ req[cmd[t]].verb \in Statements
            /\ new \in Ending \cup {"stop"}
        BY <1>a, <3>1, <3>2 DEF ActorOk, Ending
      <4>2. ASSUME new \in Ending \ {"rollback"} PROVE held'[t] = FALSE
        <5>1. actor[t] = "rollback" \/ actor[t] \in Ending \ {"rollback"}
          BY <4>2, <1>a DEF Ending
        <5> QED BY <5>1, <3>1, <3>2, <1>d DEF ActorOk
      <4> QED BY <3>2, <4>1, <4>2, <1>a, <1>b DEF ActorOk, Ending
    <3>3. CASE u # t
      <4>1. actor'[u] = actor[u] /\ why'[u] = why[u] /\ held'[u] = held[u]
        BY <3>3, <1>b, <1>d
      <4> QED BY <3>1, <4>1, <1>a DEF ActorOk
    <3> QED BY <3>2, <3>3
  <2> QED BY <2>1 DEF ActorInv
<1>5. OrderInv'
  <2>1. \A i \in 1 .. Len(order) : order[i] \in Txs
    BY <1>0, SMT DEF TypeOK
  <2>2. \A u \in Txs : actor[u] \in Recording => actor'[u] \in Recording
    BY <1>a, <1>b DEF Recording
  <2> QED BY <1>0, <1>a, <2>1, <2>2 DEF OrderInv
<1>6. TableInv'
  <2>1. ASSUME NEW u \in Txs PROVE TableOk(u)'
    <3>1. TableOk(u) /\ (Purged(u)' <=> Purged(u)) /\ (Evictee(u)' <=> Evictee(u))
      BY <1>0, <1>a DEF TableInv, Purged, Evictee
    <3>2. CASE u = t
      BY <3>1, <3>2, <1>a, <1>b DEF TableOk, Alive, Recording
    <3>3. CASE u # t
      BY <3>1, <3>3, <1>a, <1>b DEF TableOk
    <3> QED BY <3>2, <3>3
  <2> QED BY <2>1 DEF TableInv
<1>7. NotFoundInv'
  <2>1. ASSUME NEW q \in Requests PROVE NotFoundOk(q)'
    <3>1. NotFoundOk(q) /\ ReqOk(q)
      BY <1>0 DEF NotFoundInv, ReqInv
    <3>2. reply[q] # "empty" \/ req[q].end = "TxNotFound" => req[q].tx \in Txs
      BY <3>1 DEF ReqOk
    <3>3. \A u \in Txs : /\ Dropped(u) => Dropped(u)'
                         /\ Forgotten(u) => Forgotten(u)'
      BY <1>a, <1>b DEF Dropped, Forgotten, Purged, Evictee, Ending, Recording
    <3> QED BY <3>1, <3>2, <3>3, <1>a DEF NotFoundOk
  <2> QED BY <2>1 DEF NotFoundInv
<1>8. CInv'
  BY <1>1, <1>2, <1>3, <1>4, <1>5, <1>6, <1>7 DEF CInv
<1>9. ASSUME DInv PROVE DInv'
  <2>0. LiveInv /\ DurableInv /\ FateInv
    BY <1>9 DEF DInv
  <2>1. \A u \in Txs :
          /\ actor[u] \in Ending => actor'[u] \in Ending /\ why'[u] = why[u]
          /\ actor'[u] \in Alive => actor[u] \in Alive /\ tx'[u] = tx[u]
    BY <1>a, <1>b, <1>c DEF Ending, Alive
  <2>2. LiveInv'
    BY <2>0, <2>1, <1>a DEF LiveInv
  <2>3. ASSUME NEW q \in Requests PROVE DurableOk(q)'
    <3>1. DurableOk(q)
      BY <2>0 DEF DurableInv
    <3> QED BY <3>1, <2>1, <1>a, <1>c DEF DurableOk
  <2>4. ASSUME NEW u \in Txs, Doomed(u) PROVE Doomed(u)'
    <3>1. \A q \in Requests : req'[q].tx = u => effect'[q] # "durable"
      BY <2>4, <1>a, <1>c DEF Doomed
    <3> QED BY <2>4, <3>1, <2>1, <1>a DEF Doomed
  <2>5. ASSUME NEW q \in Requests PROVE FateOk(q)'
    <3>1. FateOk(q) /\ ReqOk(q)
      BY <2>0, <1>0 DEF FateInv, ReqInv
    <3>2. reply[q] # "empty" => req[q].tx \in Txs
      BY <3>1 DEF ReqOk
    <3> QED BY <2>4, <3>1, <3>2, <1>a, <1>c DEF FateOk, TrueFor
  <2> QED BY <2>2, <2>3, <2>5 DEF DInv, DurableInv, FateInv
<1> QED BY <1>8, <1>9

LEMMA ActorMovesKeep ==
  ASSUME CInv, NEW t \in Txs,
         \/ LoopAbort(t) \/ LoopDeadline(t) \/ LoopSendersGone(t)
         \/ (\E end \in {"Abort", "Deadline"} : Interrupt(t, end))
         \/ Release(t) \/ Signal(t) \/ Recycle(t)
  PROVE  CInv' /\ (DInv => DInv')
<1> USE DEF reqVars, tableVars, serverVars, sessionVars
<1>w. why = [why EXCEPT ![t] = why[t]] /\ actor = [actor EXCEPT ![t] = actor[t]]
  BY DEF CInv, TypeOK
<1>o. txOpen \subseteq Txs /\ Suspected(t) \subseteq Txs /\ txOpen \ {t} \subseteq Txs
  BY DEF CInv, TypeOK, Suspected
<1>f. Confirmed(t) \subseteq Txs
  BY <1>o DEF Confirmed, Suspected
<1>1. CASE LoopAbort(t)
  <2>1. Moves(t, "rollback", "Abort")
    BY <1>1, <1>o DEF LoopAbort, Break, Moves
  <2> QED BY <2>1, MoveKeeps
<1>2. CASE LoopDeadline(t)
  <2>1. Moves(t, "rollback", "Deadline")
    BY <1>2, <1>o DEF LoopDeadline, Break, Moves
  <2> QED BY <2>1, MoveKeeps
<1>3. CASE LoopSendersGone(t)
  <2>1. Moves(t, "rollback", "Abort")
    BY <1>3, <1>o DEF LoopSendersGone, Break, Moves
  <2> QED BY <2>1, MoveKeeps
<1>4. CASE \E end \in {"Abort", "Deadline"} : Interrupt(t, end)
  <2>1. PICK end \in {"Abort", "Deadline"} : Interrupt(t, end)
    BY <1>4
  <2>2. Moves(t, "stop", end)
    BY <2>1, <1>o DEF Interrupt, Running, Moves
  <2> QED BY <2>2, MoveKeeps
<1>5. CASE Release(t)
  <2>1. Moves(t, "record", why[t])
    <3>1. CASE RollbackOk(t)
      BY <1>5, <3>1, <1>w, <1>f DEF Release, RollbackOk, Moves, Ending
    <3>2. CASE RollbackErr(t)
      BY <1>5, <3>2, <1>w, <1>o DEF Release, RollbackErr, Moves
    <3>3. CASE UNCHANGED <<effect, tx, link, txOpen>>
      BY <1>5, <3>3, <1>w, <1>o DEF Release, Moves
    <3> QED BY <1>5, <3>1, <3>2, <3>3 DEF Release
  <2> QED BY <2>1, MoveKeeps
<1>6. CASE Signal(t)
  <2>1. Moves(t, "gone", why[t])
    BY <1>6, <1>w, <1>o DEF Signal, Moves
  <2> QED BY <2>1, MoveKeeps
<1>7. CASE Recycle(t)
  <2>1. Moves(t, actor[t], why[t])
    BY <1>7, <1>w, <1>o DEF Recycle, actorVars, Moves, Ending
  <2> QED BY <2>1, MoveKeeps
<1> QED BY <1>1, <1>2, <1>3, <1>4, <1>5, <1>6, <1>7

LEMMA TakeKeeps ==
  ASSUME CInv, NEW t \in Txs, Take(t)
  PROVE  CInv' /\ (DInv => DInv')
<1>0. /\ TypeOK /\ ReqInv /\ QueueInv /\ ActorInv
      /\ OrderInv /\ TableInv /\ NotFoundInv
  BY DEF CInv
<1>a. /\ actor[t] = "idle" /\ queue[t] # <<>>
      /\ cmd' = [cmd EXCEPT ![t] = Head(queue[t])]
      /\ queue' = [queue EXCEPT ![t] = Tail(@)]
      /\ actor' = [actor EXCEPT ![t] = "run"]
      /\ UNCHANGED <<req, reply, effect, table, owner, order, why, abort, held,
                     tx, link, txOpen, session, snapshot>>
  BY DEF Take, reqVars, tableVars, serverVars, sessionVars
<1>b. /\ actor' \in [Txs -> {"unborn", "idle", "run", "stop", "rollback",
                             "record", "drain", "signal", "gone"}]
      /\ actor'[t] = "run"
      /\ \A u \in Txs : u # t => actor'[u] = actor[u]
  BY <1>0, <1>a, SMT DEF TypeOK
<1>q. PICK n \in Nat \ {0} :
        /\ n = Len(queue[t]) /\ queue[t] \in Seq(Requests)
        /\ queue'[t] \in Seq(Requests) /\ Len(queue'[t]) = n - 1
        /\ \A i \in 1 .. n - 1 : queue'[t][i] = queue[t][i + 1]
        /\ cmd'[t] = queue[t][1] /\ queue[t][1] \in Requests
  <2>1. queue[t] \in Seq(Requests) /\ queue \in [Txs -> Seq(Requests)]
        /\ cmd \in [Txs -> Requests \cup {NoRequest}]
    BY <1>0 DEF TypeOK
  <2>2. queue'[t] = Tail(queue[t]) /\ cmd'[t] = Head(queue[t])
    BY <1>a, <2>1, SMT
  <2>3. Len(queue[t]) \in Nat \ {0}
    BY <1>a, <2>1, SMT
  <2>4. /\ Tail(queue[t]) \in Seq(Requests)
        /\ Len(Tail(queue[t])) = Len(queue[t]) - 1
        /\ Head(queue[t]) = queue[t][1]
        /\ queue[t][1] \in Requests
    BY <1>a, <2>1, <2>3, SMT
  <2>5. \A i \in 1 .. Len(queue[t]) - 1 : Tail(queue[t])[i] = queue[t][i + 1]
    BY <1>a, <2>1, <2>3, SMT
  <2> QED BY <2>1, <2>2, <2>3, <2>4, <2>5
<1>o. \A u \in Txs : u # t => queue'[u] = queue[u] /\ cmd'[u] = cmd[u]
  BY <1>0, <1>a, SMT DEF TypeOK
<1>1. TypeOK'
  <2>1. /\ cmd' \in [Txs -> Requests \cup {NoRequest}]
        /\ queue' \in [Txs -> Seq(Requests)]
    <3>1. /\ cmd \in [Txs -> Requests \cup {NoRequest}]
          /\ queue \in [Txs -> Seq(Requests)]
          /\ Head(queue[t]) \in Requests /\ Tail(queue[t]) \in Seq(Requests)
      BY <1>0, <1>a, <1>q, SMT DEF TypeOK
    <3> QED BY <1>a, <3>1, SMT
  <2>2. \A u \in Txs : Len(queue'[u]) <= QueueCap
    <3>1. Len(queue[t]) <= QueueCap /\ QueueCap \in Nat
      BY <1>0, CapAssumption DEF TypeOK
    <3>2. Len(queue'[t]) <= QueueCap
      BY <1>q, <3>1, SMT
    <3> QED BY <1>0, <1>o, <3>2 DEF TypeOK
  <2> QED BY <1>0, <1>a, <1>b, <2>1, <2>2 DEF TypeOK
<1>2. ReqInv'
  BY <1>0, <1>a, <1>b DEF ReqInv, ReqOk, Unanswered
<1>3. QueueInv'
  <2>q. QueueOk(t)
    BY <1>0 DEF QueueInv
  <2>1. ASSUME NEW u \in Txs, u # t PROVE QueueOk(u)'
    <3>1. QueueOk(u)
      BY <1>0 DEF QueueInv
    <3>2. actor'[u] \in {"signal", "gone"} => queue[u] = <<>>
      BY <2>1, <3>1, <1>b DEF QueueOk
    <3>3. \A q \in Requests : Unanswered(q) => req'[q].at = "wait" /\ reply'[q] = "empty"
      BY <1>a DEF Unanswered
    <3> QED BY <1>0, <1>a, <1>b, <1>o, <2>1, <3>1, <3>2, <3>3, QueueStays
  <2>2. QueueOk(t)'
    <3>1. \A i \in 1 .. Len(queue'[t]) : i \in 1 .. n - 1 /\ i + 1 \in 1 .. n
      BY <1>q, SMT
    <3>2. \A i \in 1 .. Len(queue'[t]) :
             /\ req[queue'[t][i]].at = "wait" /\ reply[queue'[t][i]] = "empty"
             /\ req[queue'[t][i]].tx = t
      <4>1. ASSUME NEW i \in 1 .. Len(queue'[t])
            PROVE  /\ req[queue'[t][i]].at = "wait" /\ reply[queue'[t][i]] = "empty"
                   /\ req[queue'[t][i]].tx = t
        <5>1. PICK k \in 1 .. Len(queue[t]) : queue'[t][i] = queue[t][k]
          BY <3>1, <4>1, <1>q
        <5>2. Unanswered(queue[t][k]) /\ req[queue[t][k]].tx = t
          BY <2>q DEF QueueOk
        <5> QED BY <5>1, <5>2 DEF Unanswered
      <4> QED BY <4>1
    <3>3. \A i, j \in 1 .. Len(queue'[t]) : queue'[t][i] = queue'[t][j] => i = j
      <4>1. ASSUME NEW i \in 1 .. Len(queue'[t]), NEW j \in 1 .. Len(queue'[t]),
                   queue'[t][i] = queue'[t][j]
            PROVE  i = j
        <5>0. PICK k \in 1 .. Len(queue[t]), l \in 1 .. Len(queue[t]) :
                /\ k = i + 1 /\ l = j + 1
                /\ queue[t][k] = queue[t][l]
          BY <3>1, <4>1, <1>q
        <5>1. k = l
          BY <2>q, <5>0 DEF QueueOk
        <5>2. i \in Nat /\ j \in Nat
          BY <4>1, <3>1, SMT
        <5> QED BY <5>0, <5>1, <5>2, SMT
      <4> QED BY <4>1
    <3>4. 1 \in 1 .. n
      BY SMT
    <3>5. /\ req[cmd'[t]].at = "wait" /\ reply[cmd'[t]] = "empty"
          /\ req[cmd'[t]].tx = t
      BY <2>q, <3>4, <1>q DEF QueueOk, Unanswered
    <3>6. ASSUME NEW i \in 1 .. Len(queue'[t]) PROVE queue'[t][i] # cmd'[t]
      <4>1. i + 1 # 1
        BY <3>1, <3>6, SMT
      <4> QED BY <2>q, <3>1, <3>4, <4>1, <1>q DEF QueueOk
    <3> QED BY <1>a, <1>b, <1>q, <3>2, <3>3, <3>5, <3>6 DEF QueueOk, Unanswered
  <2>3. ASSUME NEW q \in Requests, Unanswered(q)'
        PROVE  q \in Buffered(req[q].tx)' \/ Serves(req[q].tx, q)'
    <3>1. Unanswered(q) /\ req[q].tx \in Txs
      BY <1>0, <1>a, <2>3 DEF Unanswered, ReqInv, ReqOk
    <3>2. q \in Buffered(req[q].tx) \/ Serves(req[q].tx, q)
      BY <1>0, <3>1 DEF QueueInv
    <3>3. CASE req[q].tx = t
      <4>1. PICK i \in 1 .. Len(queue[t]) : queue[t][i] = q
        BY <3>2, <3>3, <1>a DEF Buffered, Serves
      <4>2. CASE i = 1
        BY <3>3, <4>1, <4>2, <1>a, <1>b, <1>q DEF Serves
      <4>3. CASE i # 1
        <5>1. PICK j \in 1 .. Len(queue'[t]) : i = j + 1
          <6>1. i - 1 \in 1 .. Len(queue'[t]) /\ i = (i - 1) + 1
            BY <4>1, <4>3, <1>q, SMT
          <6> QED BY <6>1
        <5>2. queue'[t][j] = q
          BY <4>1, <5>1, <1>q
        <5> QED BY <3>3, <5>2, <1>a DEF Buffered
      <4> QED BY <4>2, <4>3
    <3>4. CASE req[q].tx # t
      BY <3>1, <3>2, <3>4, <1>a, <1>b, <1>o DEF Buffered, Serves
    <3> QED BY <3>3, <3>4
  <2> QED BY <2>1, <2>2, <2>3 DEF QueueInv
<1>4. ActorInv'
  <2>1. ASSUME NEW u \in Txs PROVE ActorOk(u)'
    <3>1. ActorOk(u)
      BY <1>0 DEF ActorInv
    <3>2. CASE u = t
      BY <3>1, <3>2, <1>a, <1>b DEF ActorOk, Ending
    <3>3. CASE u # t
      BY <3>1, <3>3, <1>a, <1>b, <1>o DEF ActorOk
    <3> QED BY <3>2, <3>3
  <2> QED BY <2>1 DEF ActorInv
<1>5. OrderInv'
  <2>1. \A i \in 1 .. Len(order) : order[i] \in Txs
    BY <1>0, SMT DEF TypeOK
  <2>2. \A u \in Txs : actor[u] \in Recording => actor'[u] \in Recording
    BY <1>a, <1>b DEF Recording
  <2> QED BY <1>0, <1>a, <2>1, <2>2 DEF OrderInv
<1>6. TableInv'
  <2>1. ASSUME NEW u \in Txs PROVE TableOk(u)'
    <3>1. TableOk(u) /\ (Purged(u)' <=> Purged(u)) /\ (Evictee(u)' <=> Evictee(u))
      BY <1>0, <1>a DEF TableInv, Purged, Evictee
    <3>2. CASE u = t
      BY <3>1, <3>2, <1>a, <1>b DEF TableOk, Alive, Recording
    <3>3. CASE u # t
      BY <3>1, <3>3, <1>a, <1>b DEF TableOk
    <3> QED BY <3>2, <3>3
  <2> QED BY <2>1 DEF TableInv
<1>7. NotFoundInv'
  <2>1. ASSUME NEW q \in Requests PROVE NotFoundOk(q)'
    <3>1. NotFoundOk(q) /\ ReqOk(q)
      BY <1>0 DEF NotFoundInv, ReqInv
    <3>2. reply[q] # "empty" \/ req[q].end = "TxNotFound" => req[q].tx \in Txs
      BY <3>1 DEF ReqOk
    <3>3. \A u \in Txs : /\ Dropped(u) => Dropped(u)'
                         /\ Forgotten(u) => Forgotten(u)'
      BY <1>a, <1>b DEF Dropped, Forgotten, Purged, Evictee, Ending, Recording
    <3> QED BY <3>1, <3>2, <3>3, <1>a DEF NotFoundOk
  <2> QED BY <2>1 DEF NotFoundInv
<1>8. CInv'
  BY <1>1, <1>2, <1>3, <1>4, <1>5, <1>6, <1>7 DEF CInv
<1>9. ASSUME DInv PROVE DInv'
  <2>1. \A u \in Txs : /\ actor[u] \in Ending <=> actor'[u] \in Ending
                       /\ actor[u] \in Alive <=> actor'[u] \in Alive
    BY <1>a, <1>b DEF Ending, Alive
  <2>2. LiveInv' /\ DurableInv'
    BY <1>9, <2>1, <1>a DEF DInv, LiveInv, DurableInv, DurableOk
  <2>3. ASSUME NEW u \in Txs, Doomed(u) PROVE Doomed(u)'
    BY <2>1, <2>3, <1>a DEF Doomed
  <2>4. ASSUME NEW q \in Requests PROVE FateOk(q)'
    <3>1. FateOk(q) /\ ReqOk(q)
      BY <1>9, <1>0 DEF DInv, FateInv, ReqInv
    <3>2. reply[q] # "empty" => req[q].tx \in Txs
      BY <3>1 DEF ReqOk
    <3> QED BY <2>3, <3>1, <3>2, <1>a DEF FateOk, TrueFor
  <2> QED BY <2>2, <2>4 DEF DInv, FateInv
<1> QED BY <1>8, <1>9

(* The record of an ended transaction: its own entry, and the one tombstone*)
(* that its own may push out.                                              *)
LEMMA RecordFacts ==
  ASSUME CInv, NEW t \in Txs, Record(t)
  PROVE  /\ order' \in Seq(Txs) /\ Len(order') <= TombstoneCap
         /\ table' \in [Txs -> {"none", "active", "tombstone"}]
         /\ table'[t] = IF why[t] = "Deadline" /\ table[t] # "none" THEN "tombstone"
                                                                    ELSE "none"
         /\ \A u \in Txs : u # t =>
              /\ \/ table'[u] = table[u]
                 \/ table[u] = "tombstone" /\ table'[u] = "none" /\ Evictee(u)'
              /\ Evictee(u) => Evictee(u)'
         /\ \A i \in 1 .. Len(order') :
              order'[i] = t \/ \E j \in 1 .. Len(order) : order'[i] = order[j]
         /\ \A i, j \in 1 .. Len(order') : order'[i] = order'[j] => i = j
<1> DEFINE young == why[t] = "Deadline" /\ table[t] # "none"
<1>0. TypeOK /\ OrderInv /\ actor[t] = "record"
  BY DEF CInv, Record
<1>1. /\ table \in [Txs -> {"none", "active", "tombstone"}] /\ order \in Seq(Txs)
      /\ Len(order) \in Nat /\ Len(order) <= TombstoneCap
      /\ \A i \in 1 .. Len(order) : order[i] \in Txs /\ order[i] # t
      /\ \A i, j \in 1 .. Len(order) : order[i] = order[j] => i = j
      /\ TombstoneCap \in Nat \ {0}
  <2>1. order \in Seq(Txs) /\ table \in [Txs -> {"none", "active", "tombstone"}]
    BY <1>0 DEF TypeOK
  <2>2. Len(order) \in Nat /\ \A i \in 1 .. Len(order) : order[i] \in Txs
    BY <2>1, SMT
  <2>3. \A i \in 1 .. Len(order) : order[i] # t
    BY <1>0 DEF OrderInv, Recording
  <2> QED BY <1>0, <2>1, <2>2, <2>3, CapAssumption DEF OrderInv
<1>2. PICK rec : rec = Recorded(t)
  OBVIOUS
<1>3. /\ rec \in [Txs -> {"none", "active", "tombstone"}]
      /\ rec[t] = (IF young THEN "tombstone" ELSE "none")
      /\ \A u \in Txs : u # t => rec[u] = table[u]
  BY <1>1, <1>2, SMT DEF Recorded
<1>4. CASE ~ young
  <2>1. rec[t] # "tombstone"
    BY <1>3, <1>4
  <2>2. order' = order /\ table' = rec
    BY <1>1, <1>2, <2>1, SMT DEF Record, Evicted
  <2> HIDE DEF young
  <2> QED BY <1>1, <1>3, <2>2 DEF Evictee, young
<1>5. CASE young
  <2>0. rec[t] = "tombstone"
    BY <1>3, <1>5
  <2> HIDE DEF young
  <2>1. PICK ord : ord = Append(order, t)
    OBVIOUS
  <2>2. PICK n \in Nat : n = Len(order)
    BY <1>1
  <2>3. /\ ord \in Seq(Txs) /\ Len(ord) = n + 1
        /\ \A i \in 1 .. n : ord[i] = order[i]
        /\ ord[n + 1] = t
    BY <1>1, <2>1, <2>2, SMT
  <2>4. \A i \in 1 .. n + 1 : i \in 1 .. n \/ i = n + 1
    BY SMT
  <2>5. \A i, j \in 1 .. n + 1 : ord[i] = ord[j] => i = j
    BY <1>1, <2>2, <2>3, <2>4
  <2>6. /\ table' = Evicted(rec, ord)
        /\ order' = IF Len(ord) > TombstoneCap THEN Tail(ord) ELSE ord
    BY <1>2, <2>0, <2>1 DEF Record
  <2>7. CASE n < TombstoneCap
    <3>1. ~ (n + 1 > TombstoneCap) /\ n + 1 <= TombstoneCap /\ n # TombstoneCap
      BY <1>1, <2>7, SMT
    <3>2. order' = ord /\ table' = rec
      BY <2>3, <2>6, <3>1 DEF Evicted
    <3>3. \A i \in 1 .. n + 1 : ord[i] = t \/ \E j \in 1 .. n : ord[i] = order[j]
      BY <2>3, <2>4
    <3>4. \A u \in Txs : ~ Evictee(u)
      BY <2>2, <3>1 DEF Evictee
    <3> QED BY <1>3, <1>5, <2>0, <2>2, <2>3, <2>5, <3>1, <3>2, <3>3, <3>4 DEF young
  <2>8. CASE n = TombstoneCap
    <3>1. n + 1 > TombstoneCap /\ n \in Nat \ {0} /\ 1 \in 1 .. n
      BY <1>1, <2>8, SMT
    <3>2. PICK e \in Txs : e = order[1]
      BY <1>1, <2>2, <3>1
    <3>3. e # t /\ Head(ord) = e
      <4>1. Head(ord) = ord[1]
        BY <2>3, <3>1, SMT
      <4> QED BY <1>1, <2>2, <2>3, <3>1, <3>2, <4>1
    <3>4. order' = Tail(ord)
      BY <2>3, <2>6, <3>1
    <3>5. /\ order' \in Seq(Txs) /\ Len(order') = n
          /\ \A i \in 1 .. n : order'[i] = ord[i + 1]
      <4>1. ord # <<>>
        BY <2>3, <3>1, SMT
      <4> QED BY <2>3, <3>1, <3>4, <4>1, SMT
    <3>6. \A i \in 1 .. n : i + 1 \in 1 .. n + 1 /\ i + 1 # 1 /\ i \in Nat
      BY SMT
    <3>7. \A i, j \in 1 .. n : order'[i] = order'[j] => i = j
      <4>1. ASSUME NEW i \in 1 .. n, NEW j \in 1 .. n, order'[i] = order'[j]
            PROVE  i = j
        <5>1. i + 1 = j + 1
          BY <2>5, <3>5, <3>6, <4>1
        <5> QED BY <3>6, <5>1, SMT
      <4> QED BY <4>1
    <3>8. \A i \in 1 .. n : order'[i] # e
      <4>1. ASSUME NEW i \in 1 .. n PROVE ord[i + 1] # ord[1]
        <5>1. 1 \in 1 .. n + 1
          BY <3>1, SMT
        <5> QED BY <2>5, <3>6, <5>1
      <4> QED BY <2>2, <2>3, <3>1, <3>2, <3>5, <4>1
    <3>9. ASSUME NEW i \in 1 .. n
          PROVE  order'[i] = t \/ \E j \in 1 .. n : order'[i] = order[j]
      BY <2>3, <2>4, <3>5, <3>6
    <3>10. ASSUME NEW u \in Txs, u # t, Evictee(u) PROVE Evictee(u)'
      <4>1. \A i \in 1 .. n : order[i] # u
        BY <2>8, <3>10 DEF Evictee
      <4>2. \A i \in 1 .. n : order'[i] # u
        BY <3>9, <3>10, <4>1
      <4> QED BY <2>8, <3>5, <4>2 DEF Evictee
    <3>11. Evictee(e)'
      BY <2>8, <3>5, <3>8 DEF Evictee
    <3>12. table' = IF rec[e] = "tombstone" THEN [rec EXCEPT ![e] = "none"] ELSE rec
      BY <2>3, <2>6, <3>1, <3>3 DEF Evicted
    <3>13. /\ table' \in [Txs -> {"none", "active", "tombstone"}]
           /\ table'[t] = "tombstone"
           /\ \A u \in Txs : u # t =>
                \/ table'[u] = table[u]
                \/ u = e /\ table[u] = "tombstone" /\ table'[u] = "none"
      <4>1. CASE rec[e] = "tombstone"
        BY <1>3, <2>0, <3>3, <3>12, <4>1, SMT
      <4>2. CASE rec[e] # "tombstone"
        BY <1>3, <2>0, <3>12, <4>2
      <4> QED BY <4>1, <4>2
    <3> QED BY <1>5, <2>2, <2>8, <3>1, <3>5, <3>7, <3>9, <3>10, <3>11, <3>13 DEF young
  <2> QED BY <1>1, <2>2, <2>7, <2>8, SMT
<1> QED BY <1>4, <1>5

LEMMA RecordKeeps ==
  ASSUME CInv, NEW t \in Txs, Record(t)
  PROVE  CInv' /\ (DInv => DInv')
<1>0. /\ TypeOK /\ ReqInv /\ QueueInv /\ ActorInv
      /\ OrderInv /\ TableInv /\ NotFoundInv
  BY DEF CInv
<1>a. /\ actor[t] = "record" /\ actor' = [actor EXCEPT ![t] = "drain"]
      /\ UNCHANGED <<req, reply, effect, owner, why, cmd, queue, abort, held,
                     tx, link, txOpen, session, snapshot>>
  BY DEF Record, reqVars, serverVars, sessionVars
<1>b. /\ actor' \in [Txs -> {"unborn", "idle", "run", "stop", "rollback",
                             "record", "drain", "signal", "gone"}]
      /\ actor'[t] = "drain"
      /\ \A u \in Txs : u # t => actor'[u] = actor[u]
  BY <1>0, <1>a, SMT DEF TypeOK
<1>c. /\ order' \in Seq(Txs) /\ Len(order') <= TombstoneCap
      /\ table' \in [Txs -> {"none", "active", "tombstone"}]
      /\ table'[t] = IF why[t] = "Deadline" /\ table[t] # "none" THEN "tombstone"
                                                                 ELSE "none"
      /\ \A u \in Txs : u # t =>
           /\ \/ table'[u] = table[u]
              \/ table[u] = "tombstone" /\ table'[u] = "none" /\ Evictee(u)'
           /\ Evictee(u) => Evictee(u)'
      /\ \A i \in 1 .. Len(order') :
           order'[i] = t \/ \E j \in 1 .. Len(order) : order'[i] = order[j]
      /\ \A i, j \in 1 .. Len(order') : order'[i] = order'[j] => i = j
  BY RecordFacts
<1>1. TypeOK'
  BY <1>0, <1>a, <1>b, <1>c DEF TypeOK
<1>2. ReqInv'
  BY <1>0, <1>a, <1>b DEF ReqInv, ReqOk, Unanswered
<1>3. QueueInv'
  <2>1. ASSUME NEW u \in Txs PROVE QueueOk(u)'
    <3>1. QueueOk(u)
      BY <1>0 DEF QueueInv
    <3>2. /\ actor'[u] \in {"run", "stop"} => actor[u] \in {"run", "stop"}
          /\ actor'[u] \in {"signal", "gone"} => actor[u] \in {"signal", "gone"}
      BY <1>a, <1>b
    <3>3. actor'[u] \in {"signal", "gone"} => queue[u] = <<>>
      BY <3>1, <3>2 DEF QueueOk
    <3>4. \A q \in Requests : Unanswered(q) => req'[q].at = "wait" /\ reply'[q] = "empty"
      BY <1>a DEF Unanswered
    <3> QED BY <1>0, <1>a, <3>1, <3>2, <3>3, <3>4, QueueStays
  <2>2. ASSUME NEW q \in Requests, Unanswered(q)'
        PROVE  q \in Buffered(req[q].tx)' \/ Serves(req[q].tx, q)'
    <3>1. Unanswered(q) /\ req[q].tx \in Txs
      BY <1>0, <1>a, <2>2 DEF Unanswered, ReqInv, ReqOk
    <3>2. q \in Buffered(req[q].tx) \/ Serves(req[q].tx, q)
      BY <1>0, <3>1 DEF QueueInv
    <3>3. \A u \in Txs : actor[u] \in {"run", "stop"} => actor'[u] \in {"run", "stop"}
      BY <1>a, <1>b
    <3> QED BY <1>a, <3>1, <3>2, <3>3 DEF Buffered, Serves
  <2> QED BY <2>1, <2>2 DEF QueueInv
<1>4. ActorInv'
  <2>1. ASSUME NEW u \in Txs PROVE ActorOk(u)'
    <3>1. ActorOk(u)
      BY <1>0 DEF ActorInv
    <3>2. CASE u = t
      BY <3>1, <3>2, <1>a, <1>b DEF ActorOk, Ending
    <3>3. CASE u # t
      BY <3>1, <3>3, <1>a, <1>b DEF ActorOk
    <3> QED BY <3>2, <3>3
  <2> QED BY <2>1 DEF ActorInv
<1>5. OrderInv'
  <2>1. \A i \in 1 .. Len(order) : order[i] \in Txs /\ order[i] # t
    <3>1. \A i \in 1 .. Len(order) : order[i] \in Txs
      BY <1>0, SMT DEF TypeOK
    <3> QED BY <1>0, <1>a, <3>1 DEF OrderInv, Recording
  <2>2. \A i \in 1 .. Len(order') : actor'[order'[i]] \in Recording
    BY <1>0, <1>b, <1>c, <2>1 DEF OrderInv, Recording
  <2> QED BY <1>c, <2>2 DEF OrderInv
<1>6. TableInv'
  <2>1. ASSUME NEW u \in Txs PROVE TableOk(u)'
    <3>1. TableOk(u) /\ (Purged(u)' <=> Purged(u))
      BY <1>0, <1>a DEF TableInv, Purged
    <3>2. CASE u = t
      BY <3>1, <3>2, <1>a, <1>b, <1>c DEF TableOk, Alive, Recording
    <3>3. CASE u # t
      <4>1. CASE table'[u] = table[u]
        BY <3>1, <3>3, <4>1, <1>a, <1>b, <1>c DEF TableOk
      <4>2. CASE table[u] = "tombstone" /\ table'[u] = "none" /\ Evictee(u)'
        BY <3>1, <3>3, <4>2, <1>a, <1>b DEF TableOk, Alive, Recording
      <4> QED BY <3>3, <4>1, <4>2, <1>c
    <3> QED BY <3>2, <3>3
  <2> QED BY <2>1 DEF TableInv
<1>7. NotFoundInv'
  <2>1. ASSUME NEW q \in Requests PROVE NotFoundOk(q)'
    <3>1. NotFoundOk(q) /\ ReqOk(q)
      BY <1>0 DEF NotFoundInv, ReqInv
    <3>2. reply[q] # "empty" \/ req[q].end = "TxNotFound" => req[q].tx \in Txs
      BY <3>1 DEF ReqOk
    <3>3. ASSUME NEW u \in Txs
          PROVE  /\ Dropped(u) => Dropped(u)'
                 /\ Forgotten(u) => Forgotten(u)'
      <4>1. Dropped(u) => Dropped(u)'
        BY <1>a, <1>b DEF Dropped, Ending
      <4>2. Purged(u) => Purged(u)'
        BY <1>a DEF Purged
      <4>3. actor[u] \in Ending => actor'[u] \in Ending
        BY <1>b DEF Ending
      <4>4. actor[u] \in Recording /\ Evictee(u) => actor'[u] \in Recording /\ Evictee(u)'
        BY <1>a, <1>b, <1>c DEF Recording
      <4> QED BY <1>a, <4>1, <4>2, <4>3, <4>4 DEF Forgotten
    <3> QED BY <3>1, <3>2, <3>3, <1>a DEF NotFoundOk
  <2> QED BY <2>1 DEF NotFoundInv
<1>8. CInv'
  BY <1>1, <1>2, <1>3, <1>4, <1>5, <1>6, <1>7 DEF CInv
<1>9. ASSUME DInv PROVE DInv'
  <2>1. \A u \in Txs : /\ actor[u] \in Ending <=> actor'[u] \in Ending
                       /\ actor[u] \in Alive <=> actor'[u] \in Alive
    BY <1>a, <1>b DEF Ending, Alive
  <2>2. LiveInv' /\ DurableInv'
    BY <1>9, <2>1, <1>a DEF DInv, LiveInv, DurableInv, DurableOk
  <2>3. ASSUME NEW u \in Txs, Doomed(u) PROVE Doomed(u)'
    BY <2>1, <2>3, <1>a DEF Doomed
  <2>4. ASSUME NEW q \in Requests PROVE FateOk(q)'
    <3>1. FateOk(q) /\ ReqOk(q)
      BY <1>9, <1>0 DEF DInv, FateInv, ReqInv
    <3>2. reply[q] # "empty" => req[q].tx \in Txs
      BY <3>1 DEF ReqOk
    <3> QED BY <2>3, <3>1, <3>2, <1>a DEF FateOk, TrueFor
  <2> QED BY <2>2, <2>4 DEF DInv, FateInv
<1> QED BY <1>8, <1>9

(* The drain answers every command left in the channel.                    *)
LEMMA DrainFacts ==
  ASSUME CInv, NEW t \in Txs, Drain(t)
  PROVE  /\ req' \in [Requests -> ReqType] /\ reply' \in [Requests -> Replies]
         /\ \A q \in Requests :
              /\ req'[q].verb = req[q].verb
              /\ req'[q].by = req[q].by
              /\ req'[q].tx = req[q].tx
              /\ q \notin Buffered(t) => req'[q] = req[q] /\ reply'[q] = reply[q]
              /\ q \in Buffered(t) =>
                   \/ req'[q] = req[q] /\ reply'[q] = "dropped"
                   \/ /\ req'[q].at = "over" /\ reply'[q] = reply[q]
                      /\ req'[q].end = IF why[t] = "Ended" THEN "Protocol"
                                                           ELSE "TxDeadline"
<1>0. req \in [Requests -> ReqType] /\ reply \in [Requests -> Replies]
  BY DEF CInv, TypeOK, ReqType
<1>1. PICK code \in Codes : code = IF why[t] = "Ended" THEN "Protocol"
                                                       ELSE "TxDeadline"
  BY DEF Codes
<1>2. PICK moved : moved = {r \in Buffered(t) : req[r].verb = "stream"}
  OBVIOUS
<1>3. /\ req' = [r \in Requests |->
                   IF r \in moved THEN [req[r] EXCEPT !.at = "over", !.end = code]
                                  ELSE req[r]]
      /\ reply' = [r \in Requests |-> IF r \in Buffered(t) \ moved THEN "dropped"
                                                                   ELSE reply[r]]
  BY <1>1, <1>2, Zenon DEF Drain, Buffered
<1>4. ASSUME NEW q \in Requests
      PROVE  /\ reply'[q] = IF q \in Buffered(t) \ moved THEN "dropped" ELSE reply[q]
             /\ req'[q] \in ReqType
             /\ q \notin moved => req'[q] = req[q]
             /\ req'[q].verb = req[q].verb
             /\ req'[q].by = req[q].by
             /\ req'[q].tx = req[q].tx
             /\ q \in moved => req'[q].at = "over" /\ req'[q].end = code
  <2>1. reply'[q] = IF q \in Buffered(t) \ moved THEN "dropped" ELSE reply[q]
    BY <1>3
  <2>2. CASE q \in moved
    <3>1. PICK mid : mid = [req[q] EXCEPT !.at = "over"]
      OBVIOUS
    <3>2. PICK v : v = [mid EXCEPT !.end = code]
      OBVIOUS
    <3>3. /\ mid \in ReqType /\ mid.at = "over"
          /\ mid.verb = req[q].verb /\ mid.by = req[q].by /\ mid.tx = req[q].tx
      BY <1>0, <3>1, SMT DEF ReqType
    <3>4. /\ v \in ReqType /\ v.at = "over" /\ v.end = code
          /\ v.verb = req[q].verb /\ v.by = req[q].by /\ v.tx = req[q].tx
      BY <3>2, <3>3, SMT DEF ReqType
    <3>5. req'[q] = v
      BY <1>3, <2>2, <3>1, <3>2, Zenon
    <3> QED BY <2>1, <2>2, <3>4, <3>5
  <2>3. CASE q \notin moved
    <3>1. req'[q] = req[q]
      BY <1>3, <2>3, Zenon
    <3> QED BY <1>0, <2>1, <2>3, <3>1
  <2> QED BY <2>2, <2>3
<1>5. reply' \in [Requests -> Replies]
  BY <1>0, <1>3 DEF Replies
<1>6. req' \in [Requests -> ReqType]
  <2>1. req' = [r \in Requests |-> req'[r]]
    BY <1>3, Zenon
  <2> QED BY <1>4, <2>1, Zenon
<1> QED BY <1>1, <1>2, <1>4, <1>5, <1>6

LEMMA DrainKeeps ==
  ASSUME CInv, NEW t \in Txs, Drain(t)
  PROVE  CInv' /\ (DInv => DInv')
<1>0. /\ TypeOK /\ ReqInv /\ QueueInv /\ ActorInv
      /\ OrderInv /\ TableInv /\ NotFoundInv
  BY DEF CInv
<1>a. /\ actor[t] = "drain" /\ actor' = [actor EXCEPT ![t] = "signal"]
      /\ queue' = [queue EXCEPT ![t] = <<>>]
      /\ UNCHANGED <<effect, table, owner, order, why, cmd, abort, held,
                     tx, link, txOpen, session, snapshot>>
  BY DEF Drain, tableVars, serverVars, sessionVars
<1>b. /\ actor' \in [Txs -> {"unborn", "idle", "run", "stop", "rollback",
                             "record", "drain", "signal", "gone"}]
      /\ actor'[t] = "signal"
      /\ \A u \in Txs : u # t => actor'[u] = actor[u]
  BY <1>0, <1>a, SMT DEF TypeOK
<1>c. /\ req' \in [Requests -> ReqType] /\ reply' \in [Requests -> Replies]
      /\ \A q \in Requests :
           /\ req'[q].verb = req[q].verb
           /\ req'[q].by = req[q].by
           /\ req'[q].tx = req[q].tx
           /\ q \notin Buffered(t) => req'[q] = req[q] /\ reply'[q] = reply[q]
           /\ q \in Buffered(t) =>
                \/ req'[q] = req[q] /\ reply'[q] = "dropped"
                \/ /\ req'[q].at = "over" /\ reply'[q] = reply[q]
                   /\ req'[q].end = IF why[t] = "Ended" THEN "Protocol"
                                                        ELSE "TxDeadline"
  BY DrainFacts
<1>d. \A q \in Requests : q \in Buffered(t) =>
         Unanswered(q) /\ req[q].tx = t /\ req[q].end = "none" /\ ~ Unanswered(q)'
  <2>1. ASSUME NEW q \in Requests, q \in Buffered(t)
        PROVE  Unanswered(q) /\ req[q].tx = t
    <3>1. PICK i \in 1 .. Len(queue[t]) : queue[t][i] = q
      BY <2>1 DEF Buffered
    <3> QED BY <1>0, <3>1 DEF QueueInv, QueueOk
  <2> QED BY <2>1, <1>0, <1>c DEF ReqInv, ReqOk, Unanswered
<1>e. /\ queue' \in [Txs -> Seq(Requests)] /\ queue'[t] = <<>>
      /\ \A u \in Txs : u # t => queue'[u] = queue[u]
  BY <1>0, <1>a, SMT DEF TypeOK
<1>1. TypeOK'
  <2>1. \A u \in Txs : Len(queue'[u]) <= QueueCap
    <3>1. Len(<<>>) <= QueueCap
      BY CapAssumption, SMT
    <3> QED BY <1>0, <1>e, <3>1 DEF TypeOK
  <2> QED BY <1>0, <1>a, <1>b, <1>c, <1>e, <2>1 DEF TypeOK, ReqType
<1>2. ReqInv'
  <2>1. ASSUME NEW q \in Requests PROVE ReqOk(q)'
    <3>1. ReqOk(q) /\ \A u \in Txs : actor[u] # "unborn" => actor'[u] # "unborn"
      BY <1>0, <1>b DEF ReqInv
    <3>2. CASE q \in Buffered(t)
      <4>1. req'[q].at \in {"wait", "over"} /\ req'[q].tx \in Txs
        BY <3>2, <1>c, <1>d DEF Unanswered
      <4>2. req'[q].at # "over" => req'[q].end = "none"
        BY <3>2, <1>c, <1>d
      <4>3. req'[q].by \in Owners
        BY <3>1, <3>2, <1>c, <1>d DEF ReqOk, Unanswered
      <4>4. ~ Unanswered(q)'
        BY <3>2, <1>d
      <4> QED BY <3>1, <4>1, <4>2, <4>3, <4>4, <1>c DEF ReqOk, Early
    <3>3. CASE q \notin Buffered(t)
      BY <3>1, <3>3, <1>a, <1>c DEF ReqOk, Unanswered
    <3> QED BY <3>2, <3>3
  <2> QED BY <2>1 DEF ReqInv
<1>3. QueueInv'
  <2>1. ASSUME NEW u \in Txs, u # t PROVE QueueOk(u)'
    <3>1. QueueOk(u)
      BY <1>0 DEF QueueInv
    <3>2. /\ actor'[u] \in {"signal", "gone"} => queue[u] = <<>>
          /\ actor'[u] = actor[u]
      BY <2>1, <3>1, <1>b DEF QueueOk
    <3>3. ASSUME NEW q \in Requests, Unanswered(q), req[q].tx = u
          PROVE  req'[q].at = "wait" /\ reply'[q] = "empty" /\ req'[q].tx = u
      BY <2>1, <3>3, <1>c, <1>d DEF Unanswered
    <3> QED BY <1>0, <1>a, <1>e, <2>1, <3>1, <3>2, <3>3, QueueStays
  <2>2. QueueOk(t)'
    <3>1. \A i \in 1 .. Len(queue'[t]) : FALSE
      BY <1>e, SMT
    <3> QED BY <1>b, <1>e, <3>1 DEF QueueOk
  <2>3. ASSUME NEW q \in Requests, Unanswered(q)'
        PROVE  q \in Buffered(req[q].tx)' \/ Serves(req[q].tx, q)'
    <3>1. q \notin Buffered(t) /\ Unanswered(q) /\ req'[q] = req[q] /\ req[q].tx \in Txs
      BY <1>0, <1>c, <1>d, <2>3 DEF Unanswered, ReqInv, ReqOk
    <3>2. q \in Buffered(req[q].tx) \/ Serves(req[q].tx, q)
      BY <1>0, <3>1 DEF QueueInv
    <3>3. req[q].tx # t
      BY <3>1, <3>2, <1>a DEF Serves
    <3> QED BY <1>a, <1>b, <1>e, <3>1, <3>2, <3>3 DEF Buffered, Serves
  <2> QED BY <2>1, <2>2, <2>3 DEF QueueInv
<1>4. ActorInv'
  <2>1. ASSUME NEW u \in Txs PROVE ActorOk(u)'
    <3>1. ActorOk(u) /\ QueueOk(u)
      BY <1>0 DEF ActorInv, QueueInv
    <3>2. CASE u = t
      BY <3>1, <3>2, <1>a, <1>b, <1>c DEF ActorOk, Ending
    <3>3. CASE u # t
      <4>1. actor[u] = "stop" => cmd[u] \in Requests
        BY <3>1 DEF QueueOk
      <4> QED BY <3>1, <3>3, <4>1, <1>a, <1>b, <1>c DEF ActorOk
    <3> QED BY <3>2, <3>3
  <2> QED BY <2>1 DEF ActorInv
<1>5. OrderInv'
  <2>1. \A i \in 1 .. Len(order) : order[i] \in Txs
    BY <1>0, SMT DEF TypeOK
  <2>2. \A u \in Txs : actor[u] \in Recording => actor'[u] \in Recording
    BY <1>a, <1>b DEF Recording
  <2> QED BY <1>0, <1>a, <2>1, <2>2 DEF OrderInv
<1>6. TableInv'
  <2>1. ASSUME NEW u \in Txs PROVE TableOk(u)'
    <3>1. TableOk(u) /\ (Purged(u)' <=> Purged(u)) /\ (Evictee(u)' <=> Evictee(u))
      BY <1>0, <1>a DEF TableInv, Purged, Evictee
    <3>2. CASE u = t
      BY <3>1, <3>2, <1>a, <1>b DEF TableOk, Alive, Recording
    <3>3. CASE u # t
      BY <3>1, <3>3, <1>a, <1>b DEF TableOk
    <3> QED BY <3>2, <3>3
  <2> QED BY <2>1 DEF TableInv
<1>7. NotFoundInv'
  <2>1. ASSUME NEW q \in Requests PROVE NotFoundOk(q)'
    <3>1. NotFoundOk(q) /\ ReqOk(q)
      BY <1>0 DEF NotFoundInv, ReqInv
    <3>2. CASE q \in Buffered(t)
      <4>1. Dropped(t)' /\ req'[q].tx = t
        BY <3>2, <1>b, <1>c, <1>d DEF Dropped
      <4>2. req'[q].end # "TxNotFound"
        BY <3>2, <1>c, <1>d
      <4> QED BY <4>1, <4>2 DEF NotFoundOk
    <3>3. CASE q \notin Buffered(t)
      <4>1. reply[q] # "empty" \/ req[q].end = "TxNotFound" => req[q].tx \in Txs
        BY <3>1 DEF ReqOk
      <4>2. \A u \in Txs : /\ Dropped(u) => Dropped(u)'
                           /\ Forgotten(u) => Forgotten(u)'
        BY <1>a, <1>b DEF Dropped, Forgotten, Purged, Evictee, Ending, Recording
      <4> QED BY <3>1, <3>3, <4>1, <4>2, <1>a, <1>c DEF NotFoundOk
    <3> QED BY <3>2, <3>3
  <2> QED BY <2>1 DEF NotFoundInv
<1>8. CInv'
  BY <1>1, <1>2, <1>3, <1>4, <1>5, <1>6, <1>7 DEF CInv
<1>9. ASSUME DInv PROVE DInv'
  <2>0. LiveInv /\ DurableInv /\ FateInv
    BY <1>9 DEF DInv
  <2>1. \A u \in Txs : /\ actor[u] \in Ending <=> actor'[u] \in Ending
                       /\ actor[u] \in Alive <=> actor'[u] \in Alive
    BY <1>a, <1>b DEF Ending, Alive
  <2>2. LiveInv'
    BY <2>0, <2>1, <1>a DEF LiveInv
  <2>3. ASSUME NEW q \in Requests PROVE DurableOk(q)'
    <3>1. DurableOk(q)
      BY <2>0 DEF DurableInv
    <3> QED BY <3>1, <2>1, <1>a, <1>c DEF DurableOk
  <2>4. ASSUME NEW u \in Txs, Doomed(u) PROVE Doomed(u)'
    BY <2>1, <2>4, <1>a, <1>c DEF Doomed
  <2>5. ASSUME NEW q \in Requests PROVE FateOk(q)'
    <3>1. FateOk(q) /\ ReqOk(q)
      BY <2>0, <1>0 DEF FateInv, ReqInv
    <3>2. CASE q \in Buffered(t)
      <4>1. reply'[q] \in {"dropped", "empty"} /\ req'[q].tx = t
        BY <3>2, <1>c, <1>d DEF Unanswered
      <4>2. ASSUME req'[q].end \in Retryable PROVE Doomed(t)'
        <5>1. why[t] # "Ended" /\ why[t] # "none"
          BY <3>2, <4>2, <1>0, <1>a, <1>c, <1>d DEF Retryable, ActorInv, ActorOk, Ending
        <5>2. why[t] \in {"Abort", "Deadline"} /\ actor'[t] \in Ending
          BY <5>1, <1>0, <1>b DEF TypeOK, Ending
        <5>3. \A p \in Requests : req[p].tx = t => effect[p] # "durable"
          BY <2>0, <5>1 DEF DurableInv, DurableOk
        <5> QED BY <5>2, <5>3, <1>a, <1>c DEF Doomed
      <4> QED BY <4>1, <4>2 DEF FateOk, TrueFor
    <3>3. CASE q \notin Buffered(t)
      <4>1. reply[q] # "empty" => req[q].tx \in Txs
        BY <3>1 DEF ReqOk
      <4> QED BY <2>4, <3>1, <3>3, <4>1, <1>a, <1>c DEF FateOk, TrueFor
    <3> QED BY <3>2, <3>3
  <2> QED BY <2>2, <2>3, <2>5 DEF DInv, DurableInv, FateInv
<1> QED BY <1>8, <1>9

-----------------------------------------------------------------------------
(* Steps of abort_session.                                                 *)

LEMMA SessionMovesKeep ==
  ASSUME CInv,
         UNCHANGED <<req, reply, effect, owner, order, actor, why, cmd, queue,
                     held, tx, link, txOpen>>,
         abort' \in [Txs -> BOOLEAN],
         session' \in [Owners -> {"open", "aborting", "purged"}],
         snapshot' \in [Owners -> SUBSET Txs],
         table' \in [Txs -> {"none", "active", "tombstone"}],
         \A u \in Txs : \/ table'[u] = table[u]
                        \/ table'[u] = "none" /\ Purged(u)',
         \A s \in Owners : session[s] = "purged" => session'[s] = "purged"
  PROVE  CInv' /\ (DInv => DInv')
<1>0. /\ TypeOK /\ ReqInv /\ QueueInv /\ ActorInv
      /\ OrderInv /\ TableInv /\ NotFoundInv
  BY DEF CInv
<1>1. TypeOK'
  BY <1>0 DEF TypeOK
<1>2. ReqInv' /\ ActorInv' /\ OrderInv'
  BY <1>0 DEF ReqInv, ReqOk, Unanswered, ActorInv, ActorOk, OrderInv
<1>3. QueueInv'
  BY <1>0 DEF QueueInv, QueueOk, Unanswered, Buffered, Serves
<1>4. ASSUME NEW u \in Txs, actor[u] # "unborn", Purged(u) PROVE Purged(u)'
  <2>1. owner[u] \in Owners
    BY <1>0, <1>4 DEF TableInv, TableOk
  <2> QED BY <1>4, <2>1 DEF Purged
<1>5. TableInv'
  <2>1. ASSUME NEW u \in Txs PROVE TableOk(u)'
    <3>1. TableOk(u) /\ (Evictee(u) => Evictee(u)')
      BY <1>0 DEF TableInv, Evictee
    <3>2. actor[u] \in Alive \cup Recording \cup {"rollback", "record"}
            => actor[u] # "unborn"
      BY DEF Alive, Recording
    <3> QED BY <1>4, <3>1, <3>2 DEF TableOk
  <2> QED BY <2>1 DEF TableInv
<1>6. NotFoundInv'
  <2>1. ASSUME NEW q \in Requests PROVE NotFoundOk(q)'
    <3>1. NotFoundOk(q) /\ ReqOk(q)
      BY <1>0 DEF NotFoundInv, ReqInv
    <3>2. req[q].end = "TxNotFound" => req[q].tx \in Txs /\ actor[req[q].tx] # "unborn"
      BY <3>1 DEF ReqOk
    <3> QED BY <1>4, <3>1, <3>2 DEF NotFoundOk, Dropped, Forgotten, Evictee
  <2> QED BY <2>1 DEF NotFoundInv
<1>7. DInv => DInv'
  BY DEF DInv, LiveInv, DurableInv, DurableOk, FateInv, FateOk, TrueFor, Doomed
<1> QED BY <1>1, <1>2, <1>3, <1>5, <1>6, <1>7 DEF CInv

LEMMA AbortSessionKeeps ==
  ASSUME CInv, NEW s \in Owners, AbortSession(s)
  PROVE  CInv' /\ (DInv => DInv')
<1>0. TypeOK
  BY DEF CInv
<1>1. PICK owned : owned = {t \in Txs : table[t] = "active" /\ owner[t] = s}
  OBVIOUS
<1>2. /\ session[s] = "open"
      /\ session' = [session EXCEPT ![s] = "aborting"]
      /\ snapshot' = [snapshot EXCEPT ![s] = owned]
      /\ abort' = [t \in Txs |-> abort[t] \/ t \in owned]
      /\ UNCHANGED <<req, reply, effect, table, owner, order, actor, why, cmd,
                     queue, held, tx, link, txOpen>>
  BY <1>1 DEF AbortSession, reqVars, tableVars, serverVars
<1>3. abort' \in [Txs -> BOOLEAN]
  BY <1>2, Zenon
<1>4. /\ session' \in [Owners -> {"open", "aborting", "purged"}]
      /\ \A x \in Owners : session[x] = "purged" => session'[x] = "purged"
  BY <1>0, <1>2, SMT DEF TypeOK
<1>5. snapshot' \in [Owners -> SUBSET Txs]
  BY <1>0, <1>1, <1>2 DEF TypeOK
<1>6. table' \in [Txs -> {"none", "active", "tombstone"}] /\ table' = table
  BY <1>0, <1>2 DEF TypeOK
<1> QED BY <1>2, <1>3, <1>4, <1>5, <1>6, SessionMovesKeep

LEMMA PurgeKeeps ==
  ASSUME CInv, NEW s \in Owners, Purge(s)
  PROVE  CInv' /\ (DInv => DInv')
<1>0. TypeOK
  BY DEF CInv
<1>1. /\ session' = [session EXCEPT ![s] = "purged"]
      /\ table' = [t \in Txs |-> IF owner[t] = s THEN "none" ELSE table[t]]
      /\ UNCHANGED <<req, reply, effect, owner, order, actor, why, cmd, queue,
                     abort, held, tx, link, txOpen, snapshot>>
  BY DEF Purge, reqVars, actorVars, serverVars
<1>2. abort' \in [Txs -> BOOLEAN] /\ snapshot' \in [Owners -> SUBSET Txs]
  BY <1>0, <1>1 DEF TypeOK
<1>3. /\ session' \in [Owners -> {"open", "aborting", "purged"}]
      /\ session'[s] = "purged"
      /\ \A x \in Owners : session[x] = "purged" => session'[x] = "purged"
  BY <1>0, <1>1, SMT DEF TypeOK
<1>4. table' \in [Txs -> {"none", "active", "tombstone"}]
  BY <1>0, <1>1, SMT DEF TypeOK
<1>5. ASSUME NEW u \in Txs
      PROVE  table'[u] = table[u] \/ (table'[u] = "none" /\ Purged(u)')
  BY <1>1, <1>3 DEF Purged
<1> QED BY <1>1, <1>2, <1>3, <1>4, <1>5, SessionMovesKeep

-----------------------------------------------------------------------------
(* The invariants hold initially and every step keeps them.                *)

LEMMA InitHolds == Init => CInv /\ DInv
<1> SUFFICES ASSUME Init PROVE CInv /\ DInv
  OBVIOUS
<1>1. /\ req = [r \in Requests |-> NoReq] /\ NoReq \in ReqType
      /\ \A r \in Requests : /\ req[r].at = "new" /\ req[r].end = "none"
                             /\ req[r].tx = NoTx /\ req[r].verb = "exec"
  BY DEF Init, NoReq, ReqType, AllVerbs, Statements
<1>2. TypeOK
  <2>1. req \in [Requests -> ReqType]
    BY <1>1
  <2>2. order \in Seq(Txs) /\ queue \in [Txs -> Seq(Requests)]
    BY SMT DEF Init
  <2>3. \A t \in Txs : Len(queue[t]) <= QueueCap
    BY CapAssumption, SMT DEF Init
  <2>4. /\ abort \in [Txs -> BOOLEAN] /\ held \in [Txs -> BOOLEAN]
    BY DEF Init
  <2>5. snapshot \in [Owners -> SUBSET Txs]
    BY DEF Init
  <2> QED BY <2>1, <2>2, <2>3, <2>4, <2>5 DEF Init, TypeOK, ReqType, Replies
<1>3. \A r \in Requests : reply[r] = "empty" /\ effect[r] = "none"
  BY DEF Init
<1>4. /\ \A t \in Txs : /\ queue[t] = <<>> /\ actor[t] = "unborn" /\ why[t] = "none"
                        /\ table[t] = "none"
      /\ order = <<>>
  BY DEF Init
<1>5. ReqInv /\ NotFoundInv
  BY <1>1, <1>3, NoneAssumption
     DEF ReqInv, ReqOk, Unanswered, NotFoundInv, NotFoundOk
<1>6. QueueInv
  <2>1. ASSUME NEW t \in Txs PROVE QueueOk(t)
    <3>1. \A i \in 1 .. Len(queue[t]) : FALSE
      BY <1>4, SMT
    <3> QED BY <1>4, <3>1 DEF QueueOk
  <2>2. \A r \in Requests : ~ Unanswered(r)
    BY <1>1 DEF Unanswered
  <2> QED BY <2>1, <2>2 DEF QueueInv
<1>7. ActorInv /\ TableInv
  BY <1>4 DEF ActorInv, ActorOk, TableInv, TableOk, Ending, Alive, Recording
<1>8. OrderInv
  <2>1. Len(order) <= TombstoneCap /\ \A i \in 1 .. Len(order) : FALSE
    BY <1>4, CapAssumption, SMT
  <2> QED BY <2>1 DEF OrderInv
<1>9. DInv
  BY <1>1, <1>3, <1>4, NoneAssumption
     DEF DInv, LiveInv, DurableInv, DurableOk, FateInv, FateOk, TrueFor, Alive
<1> QED BY <1>2, <1>5, <1>6, <1>7, <1>8, <1>9 DEF CInv

LEMMA StutterKeeps ==
  ASSUME CInv, UNCHANGED vars
  PROVE  CInv' /\ (DInv => DInv')
<1>0. /\ UNCHANGED <<req, reply, effect, owner, order, actor, why, cmd, queue,
                     held, tx, link, txOpen>>
      /\ UNCHANGED <<table, abort, session, snapshot>>
  BY DEF vars, reqVars, tableVars, actorVars, serverVars, sessionVars
<1>1. /\ abort' \in [Txs -> BOOLEAN]
      /\ session' \in [Owners -> {"open", "aborting", "purged"}]
      /\ snapshot' \in [Owners -> SUBSET Txs]
      /\ table' \in [Txs -> {"none", "active", "tombstone"}]
  BY <1>0 DEF CInv, TypeOK
<1> QED BY <1>0, <1>1, SessionMovesKeep

LEMMA StepKeeps ==
  ASSUME CInv, [Next]_vars
  PROVE  CInv' /\ (DInv /\ "idle" \notin TxAfterError => DInv')
<1>1. CASE \E r \in Requests : HandlerStep(r)
  <2>1. PICK r \in Requests : HandlerStep(r)
    BY <1>1
  <2> QED BY <2>1, BeginOpensKeeps, BeginFailsKeeps, LookupKeeps, RefuseKeeps,
             SendKeeps, DeclareKeeps DEF HandlerStep
<1>2. CASE \E r \in Requests, s \in Owners, verb \in Verbs, t \in Txs \cup {NoTx} :
             Request(r, s, verb, t)
  BY <1>2, RequestKeeps
<1>3. CASE \E t \in Txs : ActorStep(t) \/ LoopDeadline(t) \/ Recycle(t)
  <2>1. PICK t \in Txs : ActorStep(t) \/ LoopDeadline(t) \/ Recycle(t)
    BY <1>3
  <2>2. CASE Commit(t) \/ Rollback(t) \/ Savepoint(t)
    BY <2>2, CommitKeeps, RollbackKeeps, SavepointKeeps
  <2>3. CASE Completes(t) \/ QueueNoEffect(t)
    BY <2>3, CompletesKeeps, QueueNoEffectKeeps
  <2>4. CASE Cancelled(t) \/ Unreadable(t) \/ Drained(t)
    BY <2>4, BreaksKeep
  <2>5. CASE \/ LoopAbort(t) \/ LoopDeadline(t) \/ LoopSendersGone(t)
             \/ (\E end \in {"Abort", "Deadline"} : Interrupt(t, end))
             \/ Release(t) \/ Signal(t) \/ Recycle(t)
    BY <2>5, ActorMovesKeep
  <2>6. CASE Take(t) \/ Record(t) \/ Drain(t)
    BY <2>6, TakeKeeps, RecordKeeps, DrainKeeps
  <2> QED BY <2>1, <2>2, <2>3, <2>4, <2>5, <2>6 DEF ActorStep
<1>4. CASE \E s \in Owners : AbortSession(s) \/ AbortDone(s) \/ AbortTimesOut(s)
  BY <1>4, AbortSessionKeeps, PurgeKeeps DEF AbortDone, AbortTimesOut
<1>5. CASE Quiet \/ UNCHANGED vars
  BY <1>5, StutterKeeps DEF Quiet
<1> QED BY <1>1, <1>2, <1>3, <1>4, <1>5 DEF Next

LEMMA ControlHolds == Spec => []CInv
<1>1. Init => CInv
  BY InitHolds
<1>2. CInv /\ [Next]_vars => CInv'
  BY StepKeeps
<1> QED BY <1>1, <1>2, PTL DEF Spec

(* Every variable keeps its type and no command channel outgrows           *)
(* TX_CMD_CHANNEL_CAP, whatever the sessions, transactions and requests.   *)
THEOREM TxTypeCorrect == Spec => []TypeOK
<1>1. CInv => TypeOK
  BY DEF CInv
<1> QED BY <1>1, ControlHolds, PTL

(* The owner of a transaction that a deadline ended is never told that it  *)
(* does not exist while its tombstone could still be there: record before  *)
(* drain before done in actor::run, and the eviction in TxTable::tombstone.*)
THEOREM DeadlinesAreTold == Spec => []DeadlineIsTold
<1>1. ASSUME CInv PROVE DeadlineIsTold
  <2>1. ASSUME NEW r \in Requests, req[r].end = "TxNotFound",
               why[req[r].tx] = "Deadline", owner[req[r].tx] = req[r].by
        PROVE  Purged(req[r].tx) \/ Evictee(req[r].tx)
    BY <1>1, <2>1 DEF CInv, NotFoundInv, NotFoundOk, Forgotten
  <2> QED BY <2>1 DEF DeadlineIsTold, Purged, Evictee
<1> QED BY <1>1, ControlHolds, PTL

-----------------------------------------------------------------------------
(* The flags are right after every step.                                   *)

LEMMA AnswerKeepsTx ==
  ASSUME TypeOK, NEW r \in Requests, NEW rep, Answer(r, rep)
  PROVE  \A q \in Requests : req'[q].tx = req[q].tx
<1>1. CASE req[r].verb = "stream"
  <2>1. PICK code : Ends(r, code)
    BY <1>1 DEF Answer
  <2>2. PICK mid : mid = [req[r] EXCEPT !.at = "over"]
    OBVIOUS
  <2>3. PICK v : v = [mid EXCEPT !.end = code]
    OBVIOUS
  <2>4. req \in [Requests -> ReqType]
    BY DEF TypeOK, ReqType
  <2>5. mid \in ReqType /\ mid.tx = req[r].tx
    BY <2>2, <2>4, SMT DEF ReqType
  <2>6. v.tx = req[r].tx
    BY <2>3, <2>5, SMT DEF ReqType
  <2>7. req' = [req EXCEPT ![r] = v]
    BY <2>1, <2>2, <2>3, Zenon DEF Ends
  <2> QED BY <2>4, <2>6, <2>7, SMT
<1>2. CASE req[r].verb # "stream"
  BY <1>2 DEF Answer
<1> QED BY <1>1, <1>2

(* A step that neither the server nor the Checkout notices.                *)
LEMMA FlagsStay ==
  ASSUME FlagInv, UNCHANGED <<effect, tx, txOpen>>,
         \A q \in Requests : req'[q].tx = req[q].tx \/ effect[q] # "pending"
  PROVE  FlagInv'
BY DEF FlagInv, FlagOk

(* A step that concerns transaction t only.                                *)
LEMMA FlagsMove ==
  ASSUME FlagInv, NEW t \in Txs,
         \A u \in Txs : u # t => tx'[u] = tx[u],
         txOpen' \in {txOpen \cup {t}, txOpen \ {t}, txOpen},
         \A q \in Requests : req'[q].tx = req[q].tx,
         \A q \in Requests : req[q].tx # t => effect'[q] = effect[q],
         tx'[t] # "idle" => t \in txOpen',
         \A q \in Requests :
           req[q].tx = t /\ effect'[q] = "pending" => tx'[t] # "idle"
  PROVE  FlagInv'
<1>1. ASSUME NEW u \in Txs, u # t PROVE FlagOk(u)'
  <2>1. FlagOk(u) /\ tx'[u] = tx[u] /\ (u \in txOpen => u \in txOpen')
    BY <1>1 DEF FlagInv
  <2> QED BY <1>1, <2>1 DEF FlagOk
<1>2. FlagOk(t)'
  BY DEF FlagOk
<1> QED BY <1>1, <1>2 DEF FlagInv

(* The transaction is over: idle, and nothing of it pending.               *)
LEMMA FlagsEnd ==
  ASSUME TypeOK, FlagInv, NEW t \in Txs, NEW x \in {"durable", "undone"},
         NEW r \in Requests, req[r].tx = t,
         NEW y \in {"durable", "undone", "none"},
         tx' = [tx EXCEPT ![t] = "idle"],
         \/ effect' = Settle(t, x)
         \/ effect' = [Settle(t, x) EXCEPT ![r] = y],
         txOpen' \in {txOpen \cup {t}, txOpen \ {t}, txOpen},
         \A q \in Requests : req'[q].tx = req[q].tx
  PROVE  FlagInv'
<1>1. tx'[t] = "idle" /\ \A u \in Txs : u # t => tx'[u] = tx[u]
  BY SMT DEF TypeOK
<1>2. PICK st : st = Settle(t, x)
  OBVIOUS
<1>3. /\ st \in [Requests -> {"none", "pending", "durable", "undone"}]
      /\ \A q \in Requests : /\ req[q].tx # t => st[q] = effect[q]
                             /\ req[q].tx = t => st[q] # "pending"
  BY <1>2, SettleFacts
<1>4. \A q \in Requests : /\ req[q].tx # t => effect'[q] = effect[q]
                          /\ req[q].tx = t => effect'[q] # "pending"
  BY <1>2, <1>3, SMT
<1> QED BY <1>1, <1>4, FlagsMove

(* What the server made of a statement.                                    *)
LEMMA FlagsServed ==
  ASSUME TypeOK, FlagInv, NEW t \in Txs, NEW r \in Requests, req[r].tx = t,
         ServerOk(t, r) \/ ServerErr(t, r) \/ ServerLost(t, r),
         \A q \in Requests : req'[q].tx = req[q].tx
  PROVE  FlagInv'
<1>0. FlagOk(t)
  BY DEF FlagInv
<1>1. CASE ServerOk(t, r)
  <2>1. /\ tx' = tx /\ tx[t] # "failed"
        /\ effect' = [effect EXCEPT ![r] = IF tx[t] = "open" THEN "pending"
                                                             ELSE "durable"]
        /\ txOpen' \in {txOpen \cup {t}, txOpen \ {t}}
        /\ tx[t] # "idle" => txOpen' = txOpen \cup {t}
    BY <1>1 DEF ServerOk, Confirmed, Suspected
  <2>2. \A q \in Requests : q # r => effect'[q] = effect[q]
    BY <2>1, SMT DEF TypeOK
  <2>3. effect'[r] = "pending" => tx[t] # "idle"
    BY <2>1, SMT DEF TypeOK
  <2>4. tx'[t] # "idle" => t \in txOpen'
    BY <2>1
  <2>5. txOpen' \in {txOpen \cup {t}, txOpen \ {t}, txOpen}
    BY <2>1
  <2>6. \A q \in Requests :
          req[q].tx = t /\ effect'[q] = "pending" => tx'[t] # "idle"
    BY <1>0, <2>1, <2>2, <2>3 DEF FlagOk
  <2> QED BY <2>1, <2>2, <2>4, <2>5, <2>6, FlagsMove
<1>2. CASE ServerErr(t, r)
  <2>1. PICK after \in {"idle", "open", "failed"} :
          /\ tx' = [tx EXCEPT ![t] = after]
          /\ effect' = IF after = "idle" THEN Settle(t, "undone") ELSE effect
          /\ tx[t] # "open" => after = tx[t]
    BY <1>2, ErrorAssumption DEF ServerErr, TypeOK
  <2>2. txOpen' = txOpen \cup {t}
    BY <1>2 DEF ServerErr, Suspected
  <2>3. CASE after = "idle"
    BY <2>1, <2>2, <2>3, FlagsEnd
  <2>4. CASE after # "idle"
    <3>1. tx'[t] = after /\ \A u \in Txs : u # t => tx'[u] = tx[u]
      BY <2>1, SMT DEF TypeOK
    <3> QED BY <2>1, <2>2, <2>4, <3>1, FlagsMove
  <2> QED BY <2>3, <2>4
<1>3. CASE ServerLost(t, r)
  <2>1. PICK fate \in {"durable", "undone"} :
          effect' = [Settle(t, "undone") EXCEPT ![r] = fate]
    BY <1>3 DEF ServerLost
  <2>2. tx' = [tx EXCEPT ![t] = "idle"] /\ txOpen' = txOpen \cup {t}
    BY <1>3 DEF ServerLost, LinkDies, Suspected
  <2> QED BY <2>1, <2>2, FlagsEnd
<1> QED BY <1>1, <1>2, <1>3

(* Where a ROLLBACK, or a COMMIT that fails, leaves the transaction.       *)
LEMMA FlagsSuspected ==
  ASSUME TypeOK, FlagInv, NEW t \in Txs, NEW r \in Requests, req[r].tx = t,
         tx' = tx, txOpen' = Suspected(t),
         effect' = effect \/ effect' = [effect EXCEPT ![r] = "undone"],
         \A q \in Requests : req'[q].tx = req[q].tx
  PROVE  FlagInv'
<1>1. \A q \in Requests : effect'[q] = effect[q] \/ (q = r /\ effect'[q] = "undone")
  BY SMT DEF TypeOK
<1>2. txOpen' = txOpen \cup {t} /\ FlagOk(t)
  BY DEF Suspected, FlagInv
<1> QED BY <1>1, <1>2, FlagsMove DEF FlagOk

LEMMA FlagsEnded ==
  ASSUME CInv, FlagInv, NEW t \in Txs, Commit(t) \/ Rollback(t)
  PROVE  FlagInv'
<1>0. TypeOK /\ actor[t] = "run"
  BY DEF CInv, Commit, Rollback, Running
<1>1. PICK r \in Requests : r = cmd[t] /\ req[r].tx = t
  BY <1>0, ServesFacts
<1>2. \A q \in Requests : req'[q].tx = req[q].tx
  <2>1. \E rep : Answer(r, rep)
    BY <1>1 DEF Commit, Rollback
  <2> QED BY <1>0, <2>1, AnswerKeepsTx
<1>3. ASSUME tx' = [tx EXCEPT ![t] = "idle"], txOpen' = Confirmed(t)
      PROVE  txOpen' = txOpen \ {t}
  BY <1>0, <1>3, SMT DEF Confirmed, TypeOK
<1>4. CASE Commit(t)
  <2>1. CASE /\ effect' = IF tx[t] = "open"
                             THEN [Settle(t, "durable") EXCEPT ![r] = "durable"]
                             ELSE [Settle(t, "undone") EXCEPT ![r] = "undone"]
             /\ tx' = [tx EXCEPT ![t] = "idle"]
             /\ txOpen' = Confirmed(t)
    BY <1>0, <1>1, <1>2, <1>3, <2>1, FlagsEnd
  <2>2. CASE /\ tx' = [tx EXCEPT ![t] = "idle"]
             /\ effect' = [Settle(t, "undone") EXCEPT ![r] = "undone"]
             /\ txOpen' = Suspected(t)
    BY <1>0, <1>1, <1>2, <2>2, FlagsEnd DEF Suspected
  <2>3. CASE /\ UNCHANGED tx
             /\ effect' = [effect EXCEPT ![r] = "undone"]
             /\ txOpen' = Suspected(t)
    BY <1>0, <1>1, <1>2, <2>3, FlagsSuspected
  <2>4. CASE LinkDies(t) /\ \E fate \in {"durable", "undone"} :
                              effect' = [Settle(t, fate) EXCEPT ![r] = fate]
    BY <1>0, <1>1, <1>2, <2>4, FlagsEnd DEF LinkDies, Suspected
  <2> QED BY <1>1, <1>4, <2>1, <2>2, <2>3, <2>4 DEF Commit
<1>5. CASE Rollback(t)
  <2>1. CASE RollbackOk(t)
    BY <1>0, <1>1, <1>2, <1>3, <2>1, FlagsEnd DEF RollbackOk
  <2>2. CASE RollbackErr(t)
    BY <1>0, <1>1, <1>2, <2>2, FlagsSuspected DEF RollbackErr
  <2>3. CASE LinkDies(t) /\ effect' = Settle(t, "undone")
    BY <1>0, <1>1, <1>2, <2>3, FlagsEnd DEF LinkDies, Suspected
  <2> QED BY <1>5, <2>1, <2>2, <2>3 DEF Rollback
<1> QED BY <1>4, <1>5

LEMMA FlagsRun ==
  ASSUME CInv, FlagInv, NEW t \in Txs,
         \/ Savepoint(t) \/ Completes(t) \/ QueueNoEffect(t)
         \/ Cancelled(t) \/ Unreadable(t) \/ Drained(t)
  PROVE  FlagInv'
<1>0. TypeOK /\ actor[t] \in {"run", "stop"} /\ FlagOk(t)
  BY DEF CInv, FlagInv, Savepoint, Completes, QueueNoEffect, Cancelled,
         Unreadable, Drained, Running
<1>1. PICK r \in Requests : r = cmd[t] /\ req[r].tx = t
  BY <1>0, ServesFacts
<1>2. \A q \in Requests : req'[q].tx = req[q].tx
  <2>1. \E rep : Answer(r, rep)
    BY <1>1 DEF Savepoint, Completes, QueueNoEffect, Cancelled, Unreadable, Drained
  <2> QED BY <1>0, <2>1, AnswerKeepsTx
<1>3. CASE ServerOk(t, r) \/ ServerErr(t, r) \/ ServerLost(t, r)
  BY <1>0, <1>1, <1>2, <1>3, FlagsServed
<1>4. CASE Savepoint(t)
  <2>1. CASE /\ tx' = [tx EXCEPT ![t] = IF @ = "failed" THEN "open" ELSE @]
             /\ txOpen' = Confirmed(t)
             /\ UNCHANGED effect
    <3>1. /\ tx'[t] = "idle" <=> tx[t] = "idle"
          /\ \A u \in Txs : u # t => tx'[u] = tx[u]
      BY <1>0, <2>1, SMT DEF TypeOK
    <3>2. /\ txOpen' \in {txOpen \cup {t}, txOpen \ {t}, txOpen}
          /\ tx'[t] # "idle" => t \in txOpen'
      BY <2>1 DEF Confirmed
    <3> QED BY <1>0, <1>2, <2>1, <3>1, <3>2, FlagsMove DEF FlagOk
  <2>2. CASE LinkDies(t) /\ effect' = Settle(t, "undone")
    BY <1>0, <1>1, <1>2, <2>2, FlagsEnd DEF LinkDies, Suspected
  <2>3. CASE UNCHANGED <<effect, serverVars>>
    BY <1>2, <2>3, FlagsStay DEF serverVars
  <2> QED BY <1>1, <1>3, <1>4, <2>1, <2>2, <2>3 DEF Savepoint
<1>5. CASE QueueNoEffect(t)
  <2>1. UNCHANGED <<effect, tx>> /\ (txOpen' = txOpen \/ txOpen' = Confirmed(t))
    BY <1>5 DEF QueueNoEffect
  <2>2. /\ txOpen' \in {txOpen \cup {t}, txOpen \ {t}, txOpen}
        /\ tx'[t] # "idle" => t \in txOpen'
    BY <1>0, <2>1 DEF Confirmed, FlagOk
  <2> QED BY <1>0, <1>2, <2>1, <2>2, FlagsMove DEF FlagOk
<1>6. CASE Completes(t) \/ Cancelled(t) \/ Unreadable(t) \/ Drained(t)
  BY <1>1, <1>3, <1>6 DEF Completes, Cancelled, Unreadable, Drained
<1> QED BY <1>4, <1>5, <1>6

LEMMA FlagsReleased ==
  ASSUME CInv, FlagInv, NEW t \in Txs, Release(t) \/ Recycle(t)
  PROVE  FlagInv'
<1>0. TypeOK /\ FlagOk(t) /\ req' = req
  BY DEF CInv, FlagInv, Release, Recycle
<1>1. CASE UNCHANGED <<effect, serverVars>>
  BY <1>0, <1>1, FlagsStay DEF serverVars
<1>2. CASE RollbackErr(t)
  <2>1. UNCHANGED <<tx, effect>> /\ txOpen' = txOpen \cup {t}
    BY <1>2 DEF RollbackErr, Suspected
  <2> QED BY <1>0, <2>1, FlagsMove DEF FlagOk
<1>3. CASE RollbackOk(t) \/ Recycle(t)
  <2>1. tx' = [tx EXCEPT ![t] = "idle"] /\ effect' = Settle(t, "undone")
    BY <1>3 DEF RollbackOk, Recycle
  <2>2. tx'[t] = "idle" /\ \A u \in Txs : u # t => tx'[u] = tx[u]
    BY <1>0, <2>1, SMT DEF TypeOK
  <2>3. txOpen' = txOpen \ {t}
    BY <1>3, <2>2 DEF RollbackOk, Recycle, Confirmed
  <2>4. \A q \in Requests : /\ req[q].tx # t => effect'[q] = effect[q]
                            /\ req[q].tx = t => effect'[q] # "pending"
    BY <1>0, <2>1, SettleFacts
  <2> QED BY <1>0, <2>2, <2>3, <2>4, FlagsMove
<1> QED BY <1>1, <1>2, <1>3 DEF Release

(* The steps of handlers.                                                  *)
LEMMA FlagsHandled ==
  ASSUME CInv, FlagInv, NEW r \in Requests,
         \/ HandlerStep(r)
         \/ \E s \in Owners, verb \in Verbs, t \in Txs \cup {NoTx} :
              Request(r, s, verb, t)
  PROVE  FlagInv'
<1>0. TypeOK /\ ReqOk(r) /\ req \in [Requests -> ReqType]
  BY DEF CInv, ReqInv, TypeOK, ReqType
<1>1. CASE \E code : Ends(r, code) /\ UNCHANGED <<effect, serverVars>>
  <2>1. PICK code : Ends(r, code)
    BY <1>1
  <2>2. PICK mid : mid = [req[r] EXCEPT !.at = "over"]
    OBVIOUS
  <2>3. PICK v : v = [mid EXCEPT !.end = code]
    OBVIOUS
  <2>4. mid \in ReqType /\ mid.tx = req[r].tx
    BY <1>0, <2>2, SMT DEF ReqType
  <2>5. v.tx = req[r].tx
    BY <2>3, <2>4, SMT DEF ReqType
  <2>6. req' = [req EXCEPT ![r] = v]
    BY <2>1, <2>2, <2>3, Zenon DEF Ends
  <2>7. \A q \in Requests : req'[q].tx = req[q].tx
    BY <1>0, <2>5, <2>6, SMT
  <2> QED BY <1>1, <2>7, FlagsStay DEF serverVars
<1>2. CASE /\ req[r].at \in Early /\ UNCHANGED <<effect, tx, txOpen>>
           /\ \E v : req' = [req EXCEPT ![r] = v]
  <2>1. effect[r] = "none"
    BY <1>0, <1>2 DEF ReqOk
  <2>2. \A q \in Requests : q # r => req'[q] = req[q]
    BY <1>0, <1>2, SMT
  <2> QED BY <1>2, <2>1, <2>2, FlagsStay
<1>3. CASE \E t \in Txs : BeginOpens(r, t)
  <2>1. PICK t \in Txs : BeginOpens(r, t)
    BY <1>3
  <2>2. /\ tx' = [tx EXCEPT ![t] = "open"] /\ txOpen' = txOpen \cup {t}
        /\ effect' = effect /\ req[r].at = "checkout"
    BY <2>1 DEF BeginOpens
  <2>3. effect[r] = "none"
    BY <1>0, <2>2 DEF ReqOk, Early
  <2>4. \A q \in Requests : q # r => req'[q] = req[q]
    BY <1>0, <2>1, SMT DEF BeginOpens
  <2>5. tx'[t] = "open" /\ \A u \in Txs : u # t => tx'[u] = tx[u]
    BY <1>0, <2>2, SMT DEF TypeOK
  <2>6. ASSUME NEW u \in Txs PROVE FlagOk(u)'
    <3>1. FlagOk(u)
      BY DEF FlagInv
    <3>2. tx'[u] # "idle" => u \in txOpen'
      BY <3>1, <2>2, <2>5 DEF FlagOk
    <3>3. ASSUME NEW q \in Requests, req'[q].tx = u, effect'[q] = "pending"
          PROVE  tx'[u] # "idle"
      <4>1. q # r /\ req[q].tx = u /\ effect[q] = "pending"
        BY <3>3, <2>2, <2>3, <2>4
      <4> QED BY <4>1, <3>1, <2>5 DEF FlagOk
    <3> QED BY <3>2, <3>3 DEF FlagOk
  <2> QED BY <2>6 DEF FlagInv
<1>4. CASE \E err \in {"timeout", "lost", "sql"} : BeginFails(r, err)
  BY <1>1, <1>4 DEF BeginFails
<1>5. CASE Lookup(r)
  <2>1. CASE \E code : Ends(r, code)
    BY <1>1, <1>5, <2>1 DEF Lookup
  <2>2. CASE req' = [req EXCEPT ![r].at = "send"]
    BY <1>2, <1>5, <2>2 DEF Lookup, serverVars, Early
  <2> QED BY <1>5, <2>1, <2>2 DEF Lookup
<1>6. CASE Refuse(r) \/ Declare(r)
  BY <1>1, <1>6 DEF Refuse, Declare
<1>7. CASE Send(r)
  <2>1. CASE \E code : Ends(r, code)
    BY <1>1, <1>7, <2>1 DEF Send
  <2>2. CASE req' = [req EXCEPT ![r].at = "wait"]
    BY <1>2, <1>7, <2>2 DEF Send, serverVars, Early
  <2> QED BY <1>7, <2>1, <2>2 DEF Send
<1>8. CASE \E s \in Owners, verb \in Verbs, t \in Txs \cup {NoTx} :
             Request(r, s, verb, t)
  BY <1>2, <1>8 DEF Request, serverVars, Early
<1> QED BY <1>3, <1>4, <1>5, <1>6, <1>7, <1>8 DEF HandlerStep

LEMMA FlagsKept ==
  ASSUME CInv, FlagInv, [Next]_vars
  PROVE  FlagInv'
<1>1. CASE \E r \in Requests : HandlerStep(r)
  BY <1>1, FlagsHandled
<1>2. CASE \E r \in Requests, s \in Owners, verb \in Verbs, t \in Txs \cup {NoTx} :
             Request(r, s, verb, t)
  BY <1>2, FlagsHandled
<1>s. ASSUME UNCHANGED <<req, effect, serverVars>> PROVE FlagInv'
  BY <1>s, FlagsStay DEF serverVars
<1>3. CASE \E t \in Txs : ActorStep(t) \/ LoopDeadline(t) \/ Recycle(t)
  <2>1. PICK t \in Txs : ActorStep(t) \/ LoopDeadline(t) \/ Recycle(t)
    BY <1>3
  <2>2. CASE Commit(t) \/ Rollback(t)
    BY <2>2, FlagsEnded
  <2>3. CASE \/ Savepoint(t) \/ Completes(t) \/ QueueNoEffect(t)
             \/ Cancelled(t) \/ Unreadable(t) \/ Drained(t)
    BY <2>3, FlagsRun
  <2>4. CASE Release(t) \/ Recycle(t)
    BY <2>4, FlagsReleased
  <2>5. CASE LoopAbort(t) \/ LoopDeadline(t) \/ LoopSendersGone(t) \/ Take(t)
    BY <1>s, <2>5 DEF LoopAbort, LoopDeadline, LoopSendersGone, Take, reqVars
  <2>6. CASE \/ (\E end \in {"Abort", "Deadline"} : Interrupt(t, end))
             \/ Record(t) \/ Signal(t)
    BY <1>s, <2>6 DEF Interrupt, Record, Signal, reqVars
  <2>7. CASE Drain(t)
    <3>1. UNCHANGED <<effect, tx, txOpen>>
      BY <2>7 DEF Drain, serverVars
    <3>2. \A q \in Requests : req'[q].tx = req[q].tx
      BY <2>7, DrainFacts
    <3> QED BY <3>1, <3>2, FlagsStay
  <2> QED BY <2>1, <2>2, <2>3, <2>4, <2>5, <2>6, <2>7 DEF ActorStep
<1>4. CASE \E s \in Owners : AbortSession(s) \/ AbortDone(s) \/ AbortTimesOut(s)
  BY <1>s, <1>4 DEF AbortSession, AbortDone, AbortTimesOut, Purge, reqVars
<1>5. CASE Quiet \/ UNCHANGED vars
  BY <1>s, <1>5 DEF Quiet, vars, reqVars
<1> QED BY <1>1, <1>2, <1>3, <1>4, <1>5 DEF Next

(* When abort_session returns in time, every transaction it waited for has *)
(* let go of its connection and answered every command that reached its    *)
(* channel; what may still be open on the server, because the ROLLBACK of  *)
(* teardown failed or timed out, is in a connection that says tx_open.     *)
THEOREM AbortsMeanOver == Spec => AbortMeansOver
<1>0. Init => CInv /\ FlagInv
  <2>1. ASSUME Init PROVE FlagInv
    BY <2>1 DEF Init, FlagInv, FlagOk
  <2> QED BY <2>1, InitHolds
<1>1. CInv /\ FlagInv /\ [Next]_vars => CInv' /\ FlagInv'
  BY StepKeeps, FlagsKept
<1>2. ASSUME CInv, FlagInv, NEW s \in Owners, AbortDone(s), NEW t \in snapshot[s]
      PROVE  /\ ~ held[t]
             /\ \A r \in Requests : req[r].tx = t /\ req[r].at = "wait"
                                     => reply[r] # "empty"
             /\ \/ t \in txOpen
                \/ /\ tx[t] = "idle"
                   /\ \A r \in Requests : req[r].tx = t => effect[r] # "pending"
  <2>1. t \in Txs /\ actor[t] = "gone"
    BY <1>2 DEF CInv, TypeOK, AbortDone
  <2>2. held[t] = FALSE
    BY <1>2, <2>1 DEF CInv, ActorInv, ActorOk, Ending
  <2>3. ASSUME NEW r \in Requests, req[r].tx = t PROVE ~ Unanswered(r)
    <3>1. queue[t] = <<>>
      BY <1>2, <2>1 DEF CInv, QueueInv, QueueOk
    <3>2. \A i \in 1 .. Len(queue[t]) : FALSE
      BY <3>1, SMT
    <3>3. r \notin Buffered(t) /\ ~ Serves(t, r)
      BY <2>1, <3>2 DEF Buffered, Serves
    <3> QED BY <1>2, <2>3, <3>3 DEF CInv, QueueInv
  <2>4. FlagOk(t)
    BY <1>2, <2>1 DEF FlagInv
  <2> QED BY <2>2, <2>3, <2>4 DEF Unanswered, FlagOk
<1>3. CInv /\ FlagInv => \A s \in Owners : AbortDone(s) =>
        \A t \in snapshot[s] :
          /\ ~ held[t]
          /\ \A r \in Requests : req[r].tx = t /\ req[r].at = "wait"
                                  => reply[r] # "empty"
          /\ \/ t \in txOpen
             \/ /\ tx[t] = "idle"
                /\ \A r \in Requests : req[r].tx = t => effect[r] # "pending"
  BY <1>2
<1> QED BY <1>0, <1>1, <1>3, PTL DEF Spec, AbortMeansOver

(* Where an error aborts the block or leaves it open, a request that ends  *)
(* with a code its client may retry on was not applied, and after          *)
(* TxDeadline or a lost link nothing of its transaction is durable or      *)
(* becomes so, however handlers, actor, server and session interleave.     *)
THEOREM RetriesAreSafe ==
  ASSUME "idle" \notin TxAfterError
  PROVE  Spec => []RetryIsSafe
<1>1. Init => CInv /\ DInv
  BY InitHolds
<1>2. CInv /\ DInv /\ [Next]_vars => CInv' /\ DInv'
  BY StepKeeps
<1>3. ASSUME CInv, DInv PROVE RetryIsSafe
  <2>1. ASSUME NEW r \in Requests, req[r].end \in Retryable, req[r].tx \in Txs
        PROVE  /\ effect[r] # "durable"
               /\ req[r].end = "TxDeadline" \/ effect[r] # "none" =>
                    \A q \in Requests : req[q].tx = req[r].tx => effect[q] # "durable"
    BY <1>3, <2>1 DEF DInv, FateInv, FateOk, TrueFor, Doomed
  <2> QED BY <2>1 DEF RetryIsSafe
<1> QED BY <1>1, <1>2, <1>3, PTL DEF Spec

=============================================================================
