------------------------------ MODULE QueueLease ------------------------------
(* The sql queue store (ferro-queue/src/pg.rs, services/queue.rs): the jobs     *)
(* table, the lease each RESERVE takes, the token that fences ACK, RELEASE and  *)
(* EXTEND, the unreserve of what was not delivered, and the same verbs inside a *)
(* client's transaction.  PostgreSQL runs each statement at once on the rows it *)
(* locks (READ COMMITTED, row locks held to the end of a transaction).          *)
EXTENDS Integers, FiniteSets

CONSTANTS
  Jobs, Workers, None,
  LeaseS,              \* lease_s
  Ceiling,             \* PG_ATTEMPTS_CEILING
  Delays,              \* delay_s of ENQUEUE and RELEASE
  MaxTime, MaxIds      \* bounds: seconds on the database's clock, ids used

ASSUME QueueLeaseAssumption ==
  /\ None \notin Jobs \cup Workers \cup Int
  /\ LeaseS \in Nat /\ Ceiling \in Nat \ {0} /\ Delays \subseteq Nat
  /\ MaxTime \in Nat /\ MaxIds \in Nat

Ids == 1 .. MaxIds
Times == 0 .. MaxTime
NoRow == [job |-> None, attempts |-> 0, reserved |-> None, available |-> 0, created |-> 0]

VARIABLES
  now,                 \* the database's clock, in seconds
  rows,                \* the jobs table
  nextId,              \* its id sequence
  locks,               \* the transaction that holds each row
  undelivered,         \* reservations a statement took and nobody was handed
  unreserves,          \* unreserve statements sent and not yet run
  held,                \* the reservation each worker was handed
  unsure,              \* workers whose last verb on their job was not answered
  tx,                  \* the queue verb a worker's open transaction has run
  settled,             \* history: how each job left the queue
  commits              \* history: transactions committed with an ACK of the job

vars == <<now, rows, nextId, locks, undelivered, unreserves, held, unsure, tx, settled, commits>>
table == <<rows, nextId>>
history == <<settled, commits>>

Reservations ==
  [job : Jobs, id : Ids, attempts : 1 .. Ceiling, created : Times, at : Times]
Idle == [verb |-> "idle", id |-> 0, new |-> NoRow]

TypeOK ==
  /\ now \in Times
  /\ rows \in [Ids -> [job : Jobs \cup {None}, attempts : 0 .. Ceiling,
                       reserved : Times \cup {None}, available : Nat, created : Times]]
  /\ nextId \in 1 .. MaxIds + 1
  /\ locks \in [Ids -> Workers \cup {None}]
  /\ undelivered \subseteq Reservations /\ unreserves \subseteq Reservations
  /\ held \in [Workers -> Reservations \cup {None}]
  /\ unsure \subseteq Workers
  /\ \A w \in Workers : tx[w].verb \in {"idle", "ack", "release", "extend", "rollback"}
  /\ settled \in [Jobs -> {"no", "queued", "acked", "cleared"}]
  /\ commits \in [Jobs -> Nat]

Init ==
  /\ now = 0
  /\ rows = [i \in Ids |-> NoRow]
  /\ nextId = 1
  /\ locks = [i \in Ids |-> None]
  /\ undelivered = {} /\ unreserves = {}
  /\ held = [w \in Workers |-> None]
  /\ unsure = {}
  /\ tx = [w \in Workers |-> Idle]
  /\ settled = [j \in Jobs |-> "no"]
  /\ commits = [j \in Jobs |-> 0]

Present(i) == rows[i].job # None
Free(i) == locks[i] = None
Put(i, row) == rows' = [rows EXCEPT ![i] = row]

(* The delay rule: never early.                                                *)
AvailableAt(delay) == IF delay = 0 THEN now ELSE now + 1 + delay

Fresh(job, attempts, delay) ==
  [job |-> job, attempts |-> attempts, reserved |-> None,
   available |-> AvailableAt(delay), created |-> now]

(* The row a delivered token names: id, attempts and created_at, nothing else. *)
Fence(r) ==
  /\ Present(r.id)
  /\ rows[r.id].attempts = r.attempts
  /\ rows[r.id].created = r.created

LeaseDeadline(r) == r.at + LeaseS + 1

Tick ==
  /\ now < MaxTime
  /\ now' = now + 1
  /\ UNCHANGED <<table, locks, undelivered, unreserves, held, unsure, tx, history>>

-----------------------------------------------------------------------------
(* ENQUEUE, RESERVE and what becomes of a reservation.                         *)

Enqueue(j, delay) ==
  /\ settled[j] = "no"
  /\ nextId <= MaxIds
  /\ Put(nextId, Fresh(j, 0, delay))
  /\ nextId' = nextId + 1
  /\ settled' = [settled EXCEPT ![j] = "queued"]
  /\ UNCHANGED <<now, locks, undelivered, unreserves, held, unsure, tx, commits>>

(* A row a RESERVE may take: available, or its lease has expired; a row locked *)
(* by a transaction is skipped.                                                *)
Reservable(i) ==
  /\ Present(i) /\ Free(i)
  /\ rows[i].attempts < Ceiling
  /\ \/ rows[i].reserved = None /\ rows[i].available <= now
     \/ rows[i].reserved # None /\ rows[i].reserved < now - LeaseS

(* RESERVE takes the first such row, by id.                                    *)
Reserve ==
  /\ \E i \in Ids :
        /\ Reservable(i)
        /\ \A k \in Ids : k < i => ~ Reservable(k)
        /\ Put(i, [rows[i] EXCEPT !.reserved = now, !.attempts = @ + 1])
        /\ undelivered' = undelivered \cup
             {[job |-> rows[i].job, id |-> i, attempts |-> rows[i].attempts + 1, created |-> rows[i].created, at |-> now]}
  /\ UNCHANGED <<now, nextId, locks, unreserves, held, unsure, tx, history>>

(* The reservation is handed to a live session: hand_off under its liveness.   *)
Deliver(w, r) ==
  /\ r \in undelivered
  /\ held[w] = None /\ tx[w] = Idle
  /\ undelivered' = undelivered \ {r}
  /\ held' = [held EXCEPT ![w] = r]
  /\ UNCHANGED <<unsure, now, table, locks, unreserves, tx, settled, commits>>

(* It is not: an unreserve is sent, once.                                      *)
SendUnreserve(r) ==
  /\ r \in undelivered
  /\ undelivered' = undelivered \ {r}
  /\ unreserves' = unreserves \cup {r}
  /\ UNCHANGED <<now, table, locks, held, unsure, tx, history>>

(* The RESERVE's answer, or the unreserve, is lost: the job waits for its      *)
(* lease.                                                                      *)
Forget(r) ==
  /\ r \in undelivered \cup unreserves
  /\ undelivered' = undelivered \ {r}
  /\ unreserves' = unreserves \ {r}
  /\ UNCHANGED <<now, table, locks, held, unsure, tx, history>>

(* The unreserve runs: it undoes the reservation it names and no other.        *)
Unreserve(r) ==
  /\ r \in unreserves
  /\ Free(r.id)
  /\ unreserves' = unreserves \ {r}
  /\ IF Fence(r) /\ rows[r.id].reserved = r.at
     THEN Put(r.id, [rows[r.id] EXCEPT !.reserved = None, !.attempts = @ - 1])
     ELSE UNCHANGED rows
  /\ UNCHANGED <<now, nextId, locks, undelivered, held, unsure, tx, history>>

-----------------------------------------------------------------------------
(* The fenced verbs in autocommit.  A row locked by a transaction makes the    *)
(* statement wait; the reply may be lost, and the verb is then sent again.     *)

(* The verb is answered, and the worker is done with its job, or the answer is *)
(* lost and it does not know.                                                  *)
Settles(w) ==
  \/ held' = [held EXCEPT ![w] = None] /\ unsure' = unsure \ {w}
  \/ held' = held /\ unsure' = unsure \cup {w}

Holding(w) == held[w] # None /\ tx[w] = Idle /\ Free(held[w].id)

(* Mutant: ACK names the row by its id.                                        *)
AckById(w) ==
  /\ Holding(w)
  /\ LET r == held[w] IN
     IF Present(r.id)
     THEN Put(r.id, NoRow) /\ settled' = [settled EXCEPT ![rows[r.id].job] = "acked"]
     ELSE UNCHANGED <<rows, settled>>
  /\ Settles(w)
  /\ UNCHANGED <<now, nextId, locks, undelivered, unreserves, tx, commits>>

(* ACK: the row is deleted, or the worker is told gone or LeaseLost.           *)
Ack(w) ==
  /\ Holding(w)
  /\ LET r == held[w] IN
     IF Fence(r)
     THEN Put(r.id, NoRow) /\ settled' = [settled EXCEPT ![rows[r.id].job] = "acked"]
     ELSE UNCHANGED <<rows, settled>>
  /\ Settles(w)
  /\ UNCHANGED <<now, nextId, locks, undelivered, unreserves, tx, commits>>

(* Mutant: RELEASE inserts the job anew whether or not it deleted its row.     *)
ReleaseTwice(w, delay) ==
  /\ Holding(w)
  /\ nextId <= MaxIds
  /\ LET r == held[w] IN
     IF Present(r.id)
     THEN /\ rows' = [rows EXCEPT ![r.id] = IF Fence(r) THEN NoRow ELSE @,
                                  ![nextId] = Fresh(rows[r.id].job, rows[r.id].attempts, delay)]
          /\ nextId' = nextId + 1
     ELSE UNCHANGED <<rows, nextId>>
  /\ Settles(w)
  /\ UNCHANGED <<now, locks, undelivered, unreserves, tx, history>>

(* RELEASE: the row is deleted and the job inserted anew, under a new id.      *)
Release(w, delay) ==
  /\ Holding(w)
  /\ nextId <= MaxIds
  /\ LET r == held[w] IN
     IF Fence(r)
     THEN /\ rows' = [rows EXCEPT ![r.id] = NoRow,
                                  ![nextId] = Fresh(rows[r.id].job, rows[r.id].attempts, delay)]
          /\ nextId' = nextId + 1
     ELSE UNCHANGED <<rows, nextId>>
  /\ Settles(w)
  /\ UNCHANGED <<now, locks, undelivered, unreserves, tx, history>>

Extendable(r) == Fence(r) /\ rows[r.id].reserved # None

(* EXTEND: the lease starts again now; refused (LeaseLost) when nobody has one. *)
Extend(w) ==
  /\ Holding(w)
  /\ LET r == held[w] IN
     IF Extendable(r)
     THEN /\ Put(r.id, [rows[r.id] EXCEPT !.reserved = now])
          /\ held' \in {held, [held EXCEPT ![w].at = now]}
          /\ UNCHANGED unsure
     ELSE /\ held' = [held EXCEPT ![w] = None] /\ unsure' = unsure \ {w}
          /\ UNCHANGED rows
  /\ UNCHANGED <<now, nextId, locks, undelivered, unreserves, tx, history>>

(* CLEAR deletes the queue's rows, reserved ones included.                     *)
Clear ==
  /\ \A i \in Ids : Free(i)
  /\ \E i \in Ids : Present(i)
  /\ rows' = [i \in Ids |-> NoRow]
  /\ settled' = [j \in Jobs |-> IF settled[j] = "queued" THEN "cleared" ELSE settled[j]]
  /\ UNCHANGED <<now, nextId, locks, undelivered, unreserves, held, unsure, tx, commits>>

(* A worker drops its job: it crashed, or gave up.                             *)
Abandon(w) ==
  /\ held[w] # None /\ tx[w] = Idle
  /\ held' = [held EXCEPT ![w] = None] /\ unsure' = unsure \ {w}
  /\ UNCHANGED <<now, table, locks, undelivered, unreserves, tx, history>>

-----------------------------------------------------------------------------
(* The same verbs in the worker's transaction (serve_tx, TxVerb::decode).      *)

(* A transaction that has run its verb holds the rows it wrote.                *)
Begun(w, verb, new, written) ==
  /\ tx' = [tx EXCEPT ![w] = [verb |-> verb, id |-> held[w].id, new |-> new]]
  /\ locks' = [i \in Ids |-> IF i \in written THEN w ELSE locks[i]]

(* An unmatched fence is always LeaseLost: the worker must roll back.          *)
LostInTx(w) == Begun(w, "rollback", NoRow, {})

(* Mutant: an unmatched ACK answers "gone", and the transaction goes on.       *)
AckInTxGone(w) ==
  /\ Holding(w)
  /\ Begun(w, "ack", NoRow, IF Fence(held[w]) THEN {held[w].id} ELSE {})
  /\ UNCHANGED <<now, table, undelivered, unreserves, held, unsure, history>>

AckInTx(w) ==
  /\ Holding(w)
  /\ IF Fence(held[w]) THEN Begun(w, "ack", NoRow, {held[w].id}) ELSE LostInTx(w)
  /\ UNCHANGED <<now, table, undelivered, unreserves, held, unsure, history>>

(* The new row is written now and seen at COMMIT; its id is used up either way. *)
ReleaseInTx(w, delay) ==
  /\ Holding(w)
  /\ nextId <= MaxIds
  /\ LET r == held[w] IN
     IF Fence(r)
     THEN /\ Begun(w, "release", Fresh(rows[r.id].job, rows[r.id].attempts, delay), {r.id, nextId})
          /\ nextId' = nextId + 1
     ELSE LostInTx(w) /\ UNCHANGED nextId
  /\ UNCHANGED <<now, rows, undelivered, unreserves, held, unsure, history>>

ExtendInTx(w) ==
  /\ Holding(w)
  /\ LET r == held[w] IN
     IF Extendable(r)
     THEN Begun(w, "extend", [rows[r.id] EXCEPT !.reserved = now], {r.id})
     ELSE LostInTx(w)
  /\ UNCHANGED <<now, table, undelivered, unreserves, held, unsure, history>>

Unlocked(w) == [i \in Ids |-> IF locks[i] = w THEN None ELSE locks[i]]

(* COMMIT: the worker's business writes and the verb take effect together.  A  *)
(* worker whose answer is lost keeps its job and may run it all again.         *)
Commit(w) ==
  LET t == tx[w] IN
  /\ t.verb \in {"ack", "release", "extend"}
  /\ tx' = [tx EXCEPT ![w] = Idle]
  /\ locks' = Unlocked(w)
  /\ CASE t.verb = "ack" ->
            /\ rows' = [rows EXCEPT ![t.id] = NoRow]
            /\ settled' = [settled EXCEPT ![held[w].job] = "acked"]
            /\ commits' = [commits EXCEPT ![held[w].job] = @ + 1]
            /\ Settles(w)
       [] t.verb = "release" ->
            /\ rows' = [i \in Ids |-> IF i = t.id THEN NoRow
                                      ELSE IF locks[i] = w THEN t.new ELSE rows[i]]
            /\ Settles(w)
            /\ UNCHANGED <<settled, commits>>
       [] OTHER ->
            /\ rows' = [rows EXCEPT ![t.id] = t.new]
            /\ held' \in {held, [held EXCEPT ![w].at = t.new.reserved]}
            /\ UNCHANGED <<unsure, settled, commits>>
  /\ UNCHANGED <<now, nextId, undelivered, unreserves>>

(* ROLLBACK, asked for or by the loss of the session.                          *)
Rollback(w) ==
  /\ tx[w] # Idle
  /\ tx' = [tx EXCEPT ![w] = Idle]
  /\ locks' = Unlocked(w)
  /\ \/ held' = held /\ unsure' = unsure
     \/ held' = [held EXCEPT ![w] = None] /\ unsure' = unsure \ {w}
  /\ UNCHANGED <<now, table, undelivered, unreserves, history>>

Next ==
  \/ Tick \/ Reserve \/ Clear
  \/ \E j \in Jobs, d \in Delays : Enqueue(j, d)
  \/ \E r \in undelivered : SendUnreserve(r) \/ \E w \in Workers : Deliver(w, r)
  \/ \E r \in undelivered \cup unreserves : Forget(r)
  \/ \E r \in unreserves : Unreserve(r)
  \/ \E w \in Workers :
        \/ Ack(w) \/ Extend(w) \/ Abandon(w)
        \/ AckInTx(w) \/ ExtendInTx(w) \/ Commit(w) \/ Rollback(w)
        \/ \E d \in Delays : Release(w, d) \/ ReleaseInTx(w, d)

Spec == Init /\ [][Next]_vars

-----------------------------------------------------------------------------

(* pg.rs release, ack: a job that was enqueued and neither acknowledged nor    *)
(* cleared is in the table exactly once.                                       *)
NoJobLostOrDoubled ==
  \A j \in Jobs :
     Cardinality({i \in Ids : rows[i].job = j}) = IF settled[j] = "queued" THEN 1 ELSE 0

(* pg.rs ack_in_tx: business writes committed with an ACK are committed once,  *)
(* though the worker repeats a transaction whose answer was lost.              *)
EffectOnce == \A j \in Jobs : commits[j] <= 1

(* pg.rs the fence: until the deadline it was told, a worker's token is good:  *)
(* neither a stale holder's verb nor a late unreserve takes its job away (only *)
(* CLEAR does, or a verb of its own it got no answer to).                      *)
HolderKeepsItsJob ==
  \A w \in Workers :
     held[w] # None /\ w \notin unsure /\ now < LeaseDeadline(held[w]) =>
        Fence(held[w]) \/ settled[held[w].job] = "cleared"

=============================================================================
