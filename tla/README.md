# A formal model of ferro

ferro is a sidecar for PHP: short-lived PHP workers speak a framed protocol to
`ferrod`, which owns the pooled connections to PostgreSQL, MySQL and SQLite,
runs their transactions, an HTTP client and a job queue, and survives the
workers.  What makes it correct is mostly not visible in one function: it is
what happens when a worker disappears, a deadline fires, a statement fails half
way or two tasks meet in an order nobody wrote a test for.  That is what the
modules here are about.

## The system

| Component | State it keeps | Operations | Interacts with |
|---|---|---|---|
| **Pool** (`ferro-pool`) | semaphore, idle stack, the flags `tx_open`, `tainted`, `discard` of every connection | checkout, the instrumented statement entries, streaming and COPY handles, drop, reaper | backends below, every service above |
| **Transaction service** (`ferrod/src/tx`) | `TxTable` (active, tombstoned), one actor per transaction with its savepoint stack, deadlines and command queue | BEGIN, COMMIT, ROLLBACK, savepoints, EXEC in a transaction, session abort | pool, SQL service, session teardown |
| **SQL service and fates** (`services/sql.rs`, `services/fate.rs`) | none across requests; a deadline and a cancel token per request | autocommit EXEC and QUERY, streaming, fate classification | pool, transaction service |
| **Session** (`ferrod/src/session`) | in-flight registry, supervisors, writer queue, flow-control credit | handshake, request frames, CANCEL, WINDOW_UPDATE, PING, GOODBYE, teardown | all services |
| **COPY service** (`services/copy.rs`) | one transfer | COPY in and out under credit | pool, session |
| **Queue** (`ferro-queue`, `services/queue.rs`, `queue_waker.rs`) | rows of the jobs table, leases, wait sets, one sweep per queue in flight, wake hints | ENQUEUE, RESERVE (waiting or not), ACK, RELEASE, SIZE, sweep, hint, poll, unreserve | pool, transaction service |
| **HTTP engine** (`ferro-http`) | per-origin pools, in-flight exchanges, breaker, rate limits | send, stream body, fate classification | session |
| **Lifecycle** (`serve.rs`, `shutdown.rs`, `pools.rs`, `epoch.rs`) | listening sockets, drain flag, the pools of each DSN | start, drain, stop | everything |
| **Classifier** (`ferro-classify`, `pin.rs`) | none | lexing of statements for pin causes and transaction verbs | pool |
| **Backends** (`ferro-backend-*`) | driver connections | `PoolBackend` | pool |
| **PHP client** (`php/client`) | session, in-flight requests, retry budget, reconnect loop | exec, stream, transactions with re-run | the daemon's sessions |
| **Protocol, manifest, CLI, metrics** | codecs, generated constants, counters | encoding, code generation, admin | session |

### What is hard, and what makes each part correct

* **Pool.**  The pool never looks at a session; it has three flags it derives
  from what statements reported.  It is correct if the flags never claim less
  than the session holds, if what it hands out carries nothing of an earlier
  tenant, and if permits and connections are conserved although a checkout can
  be dropped at every `await`, dials fail and the reaper borrows connections.
* **Transactions and fates.**  Handler, actor and session are three tasks that
  meet over a bounded channel, a oneshot and a table.  They are correct if a
  request that ends with a retryable code was not applied and never will be, if
  every request ends, if the owner of a timed-out transaction is told so, and
  if an ended session leaves nothing behind.
* **Session.**  Exactly one END per request, after all its DATA; no id in use
  twice; a stream out of credit resumes or unwinds; teardown bounded.
* **COPY.**  As streams, in both directions; an aborted COPY never commits.
* **Queue.**  A job is held by one worker at a time, a stale token changes
  nothing, a job reserved for a waiter that vanished is given back, and a
  committed job is eventually offered to a waiting worker.
* **HTTP.**  The engine never sends twice, and says of a request that it was
  not sent only if it was not; limits hold and are given back.
* **PHP client.**  What a caller is told of its write is what the database did,
  through losses, reconnects, retries and re-run closures; and every call ends.
* **Lifecycle.**  Drain refuses new work, lets old work end, and ends itself.

`PROJECT.json` lists the places where these can go wrong as `hazards`, each with
the properties that cover it.

## Modules

| Module | Contents | Composes or uses |
|---|---|---|
| `Pool` | the connection pool | |
| `WaiterProofs` | of the pool: types, ownership, flags, hand-outs, permits, capacity; of the waker: types, jobs, hints | `Pool`, `QueueWaker` |
| `Fate` | `classify_fate` | |
| `TxService` | handlers, actors, transaction table, session abort | `Fate` |
| `TxServiceProofs` | types, deadlines told, aborts, retries | `TxService` |
| `Statement` | autocommit EXEC, streams and COPY TO STDOUT, out-of-band cancels | `Fate` |
| `StatementProofs` | types, true answers | `Statement` |
| `CopyIn` | COPY FROM STDIN under credit | `Fate` |
| `RequestStream` | what a client of a session may rely on (abstract) | |
| `Session` | reader loop, registry, supervisors, writer, teardown | implements `RequestStream` |
| `SessionProofs` | types, ids, cancels, the refinement | `Session`, `RequestStream` |
| `StreamFlow` | credit and byte cap of a session's streams | |
| `StreamFlowProofs` | types, conservation, wake-ups | `StreamFlow` |
| `QueueWaker` | waiting RESERVEs, their waker and the rows they reserve | |
| `QueueLease` | the jobs table: leases, tokens, verbs in and out of transactions | |
| `QueueLeaseProofs` | types, jobs, effects, holders | `QueueLease` |
| `HttpEngine` | one upstream: admission, breaker, pool, dials, exchanges | |
| `HttpEngineProofs` | types, fates, probe, connections, wake-ups, breaker | `HttpEngine` |
| `Client` | the PHP client: statements, transactions, retries, reconnects | |
| `ClientProofs` | what the client is told; and of its COPY: types, credit, retries | `Client`, `CopyIn` |

`MC<module>` is the instance of a module for TLC, with its symmetry or its
constants where a `.cfg` cannot say them.

The modules meet where the code's components meet, each side assuming what the
other shows.  `TxService` may leave a transaction open on the server behind its
actor, on a connection that says `tx_open`; that such a connection is rolled back
before it is handed out again is `HandsOutPristine` of `Pool`.
`Client` lets the engine answer a write "retryable" only if it was not applied:
that is `RetryIsSafe` of `TxService` and `AnswerIsTrue` of `Statement`.  `Session`
takes a DATA frame's credit for granted, which is `StreamFlow`.  `QueueWaker`
reserves and unreserves rows, `QueueLease` does everything with them.

### `Pool`

`permits` is the semaphore, `idle` the stack, `lease[a]` the connection that
caller or reaper `a` has out of the stack with the flags `tx_open`, `tainted`,
`discard`, and `pc[a]` the `await` it is at.  `server` and `link` are the truth
about each session, which the code cannot read: the transaction, the status
byte last reported, state left behind by `SET` or `PREPARE`, whether a response
is still owed, whether the socket is up, dying unnoticed, or closed.

One action per step between two `await`s: `Acquire`, `AcquireTimeout`, `Pop*`,
`Dial*`, `Recycle*`, `HandOut` are `checkout_declared`, and `AbandonCheckout` is
its future dropped at any of them.  `Exec` is every statement entry
(`exec`, `query` and the rest share the bookkeeping), with the rules of
`apply_tx_status` and `apply_classify` as operators of the same name;
`BeginTxWith`, `TxControl`, `EndTx` and `Discard` follow.  A stream or COPY is a
stage in which the caller holds a handle: `OpenHandle`, `HandleErrs`,
`FinishHandle`, `DropHandle`; `OpenAbandoned` is `open_streamed_raced` losing
its race after the statement was sent.  `DropCheckout` pushes the connection and
`ReleasePermit` gives the permit back as a second step, as in the code.
`Reap*` is `reap_once`.

Statements are abstracted to six kinds, by what they do to a session and what
the classifier says of them: `plain`, `mutating` (flagged), `hidden` (changes
the session although the classifier sees nothing), `opens`, `closes` and
`savepoint`.  Arming read-only is kept as a bit of the session: it only acts on
SQLite, where it is a pragma; on the other backends the step is a no-op.

### `Fate` and `TxService`

`Fate` is `classify_fate`: 57014 first (in a transaction, read-only, sent), then
the lost link, then the rest.

`TxService` has requests that each carry a verb, a session and a transaction.
`req[r].at` is where its handler is: `checkout` (in `begin_on_pool`), `lookup`
(`resolve_active`), `send` (the bounded channel), `wait` (its oneshot), `over`.
`actor[t]` is where the transaction's actor is: the outer `select`, running a
command, stopping an interrupted one, and then the fixed order of its end:
ROLLBACK and release, table, drain of the channel, `done`.  `table` and `order`
are `TxTable`; `session` and `snapshot` are `abort_session`.  `effect[r]` is the
truth about the statement on the server: none, pending in the transaction,
durable or undone.

A savepoint verb is abstracted to its outcomes; the contents of the stack are
not kept.  `stream` stands for a streamed EXEC and for COPY: both move their
`Responder` into the command, so that the actor and not the handler answers.
`TxAfterError` says what an error does to the transaction: aborts the block
(PostgreSQL), leaves it open (MySQL) or undoes it all (MySQL's 1213; see the
known disagreements).
`txOpen` is the set of transactions whose `Checkout` says `tx_open`, held or
back in the pool: `Confirmed` is `apply_tx_status` after an answer, `Suspected`
Rule A after an error.  `Release` is the teardown.  After COMMIT or ROLLBACK it
drops the `Checkout` as it is; after a deadline or an abort its ROLLBACK
succeeds, fails or runs into `teardown_timeout`.  In the last two cases the
transaction may stay open on the server, its effects pending, after the actor
has gone and `abort_session` has returned, and only `tx_open` tells.  `Recycle` is
what may end it then: the next checkout's ROLLBACK or eviction, or the death of
the link.  Nothing forces that step, as nothing forces another checkout.

### `QueueWaker`

`wk` is what the waker's lock and the slots' locks protect: per waiter its list
of queues, its slot (`arrival`, `busy`, `ended`, `offer`) and the permit of its
`Notify` (`bell`); per queue the FIFO, `in_flight` and `pending`; and the sweeps
that are under way.  The critical sections (`StartSweep`, `Trigger`, `Offer`, the
two arms of `complete`, `Delivers` and `Fails`) are functions of that record, so that
an action is one whole critical section.  The sweeps that one of them starts are a
list of calls made in turn (`Calls`, `InTurn`): for `complete` its queue's follow-up,
the arrivals at their next queues (`Onward`), and the triggers kept for the waiters
it has freed (`Awaited`); for the poll every queue that is due, in any order.

A handler is `Register`, then `Turn` (a turn of `Waiter::wait` under the slot's
lock) and `Wake` (its `select`, whose branches depend on the `busy` it saw), then
`Deregister` and `HandOff` under the session's liveness lock.  The waker's tasks
are `PollAll`, `Hint`, `Complete` and the unreserve statements.  `row` is the jobs
table as `reserve` and `unreserve` of `pg.rs` see it: `attempts`, `reserved_at`
(`stamp`, 0 for NULL) and the database's clock `now`.  `OtherReserves` is everyone
else who reserves: other daemons, stock workers, and statements the runner has
abandoned.  `made`, `delivered` and `returned` are history.

ACK and RELEASE are not in this module: they concern jobs that were delivered,
and are in `QueueLease`.
A row locked by another transaction is skipped by the statement; the model has
the cases in which that transaction reserves it, before or after.  An unreserve
that failed is one that `gaveUp` and never runs; one that was abandoned may run
at any later time.

### `Session` and `RequestStream`

`phase` is where the session task is; `sendAck`, `sendLoop`, `sendDown`, `sendFlush`
are `control_tx.send(..).await` with `held` in hand, `reserve` the await of
`reserve_owned`.  Each request has a handler task and a supervisor task.  The
channel's slots are the frames on it and the permits reserved for terminals
(`Permits`).  `SupervisorSends` and `SupervisorFrees` are two steps, because the
END is on the channel before `registry.remove` runs.  `Over` waits for the writer,
and the writer for its last `Sender`.  Handlers are the services: here they
stream, end, and heed their token or not.  Liveness timers of the protocol are on
the PHP side; the daemon has none once the handshake is over.

`RequestStream` says what the client sees: DATA, then at most one END, nothing for
a request it did not send, nothing after the close.  Its `asked` is the request
frames the reader has read, its `open` the writer's life, its `seen` the frames
written.

### `StreamFlow`

`send_stream_frame` in the steps the tasks can interleave at: `Debit`,
`DebitAgain`, `DebitPoll` are check, recheck after `notified()`, and poll of
`CreditCell::debit_or_wait`; `Reserve*` the same of `SessionCap`.  A release and
the notification after it are two steps (`releasing`, `updating`).  `NotifyOne`
stores a permit, `NotifyWaiters` does not: that difference is what
`NoLostWakeup` is about.

### `Statement`

`at[r]` is where a request's handler is, `serving[c]` the statement the server
runs on connection `c`, `cancels[c]` the cancel requests under way to it on
connections of their own.  `effect` is the truth.  `Begin` to `Execute` is the
prepare round trip of `query::run`: a driver future dropped in between never
executes.  A connection that goes back tainted is reset by its next checkout,
which queues behind the statement still running (`Checkout`).

### `CopyIn`

The handler (`run_copy_in`), the reader's `Registry::deliver`, the two
directions of the socket and a lawful client.  Credit is counted three times, as
in the code: in the engine's `InboundCell`, in `Regrant`, and by the client; the
bytes on the way are what makes them differ.  `server` is the COPY: `deciding` from
its end-of-data until its answer.

### `QueueLease`

`rows` is the jobs table, one action per statement of `pg.rs`; `Fence` is its
predicate on id, attempts and created_at, `LeaseDeadline` what a worker
was told.  A statement waits for the lock of its row (`Free`).  A worker may get
no answer to a verb that ran (`unsure`).  Inside a transaction (`AckInTx`,
`ReleaseInTx`, `ExtendInTx`, then `Commit` or `Rollback`) the row is locked and
changes at COMMIT.  `commits` counts the transactions that committed with an ACK.

### `HttpEngine`

`req[r].pc` is where `HttpEngine::run` is, `dial[r]` its detached `DialJob`,
which goes on when the request leaves and has a handle of its own on the ticket.
`tk[r].gen` is the period of the breaker in which the ticket was issued,
`period` the truth about it.  `Writes` is hyper's connection task, which can
write until `discard` has awaited it.  `wire` is which requests had a byte
accepted.  Waiting in `Pools::take` is `parked`, with `notify_waiters` as in the
code: it wakes those that are registered, and stores nothing.  `since` orders the
connections by their `idle_since`, so that a connection grows too idle for a
non-idempotent request only together with all that are idler (`Ages`); `Dies` is
the idle limit, the lifetime or the upstream's close.

`NoLostWakeup` has an exception that the code has: a request that pops the connection
on top uncovers the one below without announcing it.  A sleeper that could use that
one is woken by the next dial that ends, and there is one, since it sleeps only
because all dial places are taken.

### `Client`

`call[c].at` is where a call's PHP code stands, `turn` the call that blocks the
process: PHP interleaves only at an await, and a blocking call reads for
everyone (`Reading`).  `exec`, `begin`, `stmt`, `rollback`, `commit` are the requests; the
operators ending in `Ends` are the code after each terminal, including the
retry loops, the licence of idempotent statements and the closure's re-run.
`sess` is each session's two ends: `fatal` is an error END on id 0 not yet read,
`mute` a link that will never bring anything more.  `Silence` closes a session that
stayed mute, or whose buffered EXEC, in a transaction or not, outlived its
deadline and the grace after its CANCEL.  `ClassifyLoss` has no arm for a fate that
came with the loss (`$server` in `classifyLoss`): `nextFrameFor` never passes one.

## Runs

| Run | States | Shows |
|---|---|---|
| `pool` | 0.4 million | `FlagsCover`, `HandsOutPristine`: after any statements, half-read streams, abandoned opens and stale status bytes the flags admit what the session holds, and every hand-out is pristine.  `OnePlace`, `PermitsConserved`, `Capacity`: dropped futures, failed dials and the reaper neither share a connection nor lose a permit nor exceed `max_size`.  `CheckoutEnds`: a checkout ends although callers may hold on for ever |
| `tx_teardown` | 2.2 million | `RetryIsSafe`: no request that ends retryable was applied or will be.  `DeadlineIsTold`: a deadline is told as long as its tombstone lasts.  `AbortMeansOver`: when `abort_session` returned in time, its actors have let go of their connections and answered their requests, and what is still open on the server is on a connection that says `tx_open` |
| `tx_live` | 0.5 million | `EveryRequestEnds`, `SessionTxsEnd` |
| `waker_jobs` | 1.3 million | `DeliverXorUnreserve`: a reservation that a sweep brings back ends delivered or given back, never both, whoever vanishes meanwhile, and none is in a slot that no handler will look at |
| `waker_live` | 0.2 million | `ParkedIsServed`: a job and a parked waiter meet, by the poll if nothing else; `HandlerWakes`: neither an offer nor a drain finds a handler asleep for ever; `HintNotLost`: an announced job does not lie beside a waiter that was owed it and is free to take it, unless a sweep of its queue runs, although the waiter may be busy with its other queue when the hint comes |
| `session` | 0.5 million | `ImplementsRequestStream`, `IdNeverAmbiguous`, `CancelReaches`, `EndIsDelivered`, `SessionEnds` |
| `flow` | 0.1 million | `Conserved`: cap bytes and credit are conserved; `NoLostWakeup`; `StoppedUnwinds`: a stopped producer returns whatever the client does; `StreamsGetThrough`: with a client that reads and grants, both streams end |
| `copy_in` | 39 thousand | `LawfulClientSurvives`, `RetryIsSafe`, `CopyEnds` |
| `statements` | 0.2 million | `AnswerIsTrue`: although a cancel may hit the connection's next statement, success and retryable are told truthfully; `StoppedIsAnswered` |
| `leases` | 0.2 million | `NoJobLostOrDoubled`, `EffectOnce`, `HolderKeepsItsJob` |
| `http` | 1.5 million | `FateIsTrue`, `ProbeAccounted`, `ConnectionsConserved`, `NoLostWakeup`, `OpensOnFreshEvidence`, `FailureSeenFirst` |
| `client` | 0.75 million | `ToldIsTrue`, `CallsEnd` |

Each property of a passing run has a mutant in `PROJECT.json`: a definition with a
plausible bug for which TLC finds the property violated.

### Bounds

* `pool`: two callers and the reaper, `max_size` 1, so that each connection passes
  from one tenant to the other; two names, so that an evicted session is
  followed by a fresh one.  All six kinds of statement.  `CheckoutEnds` is
  checked here too, so without symmetry: with more permits one caller could for
  ever return connections that the other finds dead and evicts, which the code
  bounds only by the connections at hand.  The safety properties are proved for
  every size.
* `tx_teardown`: two sessions and two transactions, so that one tombstone evicts
  the other and one session asks for what is the other's; three requests, which
  are two BEGINs and a request that comes late, or a BEGIN, a running statement
  and one in the channel, which holds one and is then full.  Two statements
  followed by a COMMIT need a fourth: those are left to the theorem
  `RetriesAreSafe`.
* `tx_live`: BEGIN and two more, without savepoints, which wait as statements
  do; no symmetry, since the properties are temporal.
* `waker_jobs`: two waiters, two jobs and a sweep that takes both, so that jobs
  are shared out, passed on and left over; two reservations of a job, a lease of
  one tick and three ticks, so that a lease expires and is taken while an
  unreserve is under way.
* `waker_live`: one waiter on two queues and every kind of event; no symmetry.  Sweeps
  fail here too: with a single waiter `HintNotLost` does not need the theorem's
  hypothesis, since a failed sweep ends its batch.
  `Events` names the kinds of outside events an instance of `QueueWaker` has; each
  kind is in some instance.
* `session`: three request frames over two ids with two in flight, so that an id is
  reused while another is busy and a third request finds the registry full; a
  channel of three, so that frames and permits fill it.
* `flow`: two streams; a window of two bytes holds one large frame or two small,
  the cap of three less than both windows, a frame of three is above the
  codec's ceiling.
* `copy_in`: three frames or four bytes, chunks of nought to three bytes, six of
  them: frames and bytes run out separately, and the window is granted again
  more than once.
* `statements`: two requests and one connection, so that a cancel meant for one can
  hit the other.
* `leases`: one job, two workers, five seconds and three ids, so that leases expire,
  RELEASE changes the id, and a stale worker acts on the row of another.
* `http`: three requests, two connections, one dial at a time, a breaker that
  opens at one failure; one outside event (CANCEL, drain, age, death).
* `client`: a call that may try again (a read, a Future of one, an idempotent
  statement, a closure) beside one that may not, one in-flight slot, two
  attempts, two sessions; the third dial fails.

### Fairness

`Pool!FairSpec`: every step of a checkout is fair because each of its `await`s
has a timeout (acquire, dial, cleanup) or needs no answer; a dropped checkout
releases its permit synchronously.  Nothing is assumed of callers, sessions or
pings.

`TxService!FairSpec`: tasks are scheduled, timers fire, and the server answers
or its link dies.  Sessions and clients are owed nothing.

`QueueWaker!WakerFairSpec`: handlers are scheduled, the poll ticks, and a sweep's
statement ends, because `pg_runner` bounds it and abandons what does not answer.
Strong fairness says that a handler that can run does not meet a sweep in flight
every single time: sweeps of an idle queue are `POLL_MS` apart, while a runnable
task waits only for a scheduler.  Timers and clients are owed nothing, so the
properties do not rest on a deadline ending the wait.

`Session!CooperativeSpec`: the session's tasks are scheduled, the writer writes or
fails (a client that stops reading for ever is the socket's problem), and a
handler whose token has fired ends.  The services promise the last: it is
`EveryRequestEnds` and `StoppedIsAnswered` where the server answers.  `SessionEnds` needs it:
see the known disagreements.

`StreamFlow!FairSpec`: producers, the writer's dequeue and notifications are
scheduled, and a dead writer leads to the session's teardown.  Only
`StreamsGetThrough` asks something of the client, in its statement: that it reads
and grants back (`ClientReads`).

`CopyIn!FairSpec`: the handler's awaits end (the server answers or its link dies),
and the client goes on sending what it may.

`Statement!FairSpec`: only handlers, whose waits that matter have timers.  The
server and the cancels are owed nothing.

`Client!Fairness`: PHP code that has the process goes on, the reader reads what is
there, silence is noticed (a PING, the grace of a deadline), and an engine that
still answers PINGs answers its requests: the engine's liveness properties.  A
Future is never owed its `await`.

## Proofs

Each theorem holds for every value of the constants that satisfies the named
assumptions of its module: any sets of callers, connections, requests, sessions,
workers and jobs, any capacities, windows, leases and bounds.

| Module | Theorem | States |
|---|---|---|
| `WaiterProofs`, of `Pool` | `TypeCorrect` | `Spec => []TypeOK` |
| | `ExclusiveOwnership` | `Spec => []OnePlace` |
| | `FlagsNeverLie` | `Spec => []FlagsCover` |
| | `HandOutIsPristine` | `Spec => HandsOutPristine` |
| | `PermitsNeverLeak` | `Spec => []PermitsConserved` |
| | `NeverOverCapacity` | `Spec => []Capacity` |
| of `QueueWaker` | `WakerTypeCorrect` | `WakerSpec => []WakerTypeOK` |
| | `DeliveredXorUnreserved` | `WakerSpec => []DeliverXorUnreserve` |
| | `HintsNotLost` | `WakerSpec => []HintNotLost`, for `"failure" \notin Events \/ ListLen = 1` |
| `TxServiceProofs` | `TxTypeCorrect` | `Spec => []TypeOK` |
| | `DeadlinesAreTold` | `Spec => []DeadlineIsTold` |
| | `AbortsMeanOver` | `Spec => AbortMeansOver` |
| | `RetriesAreSafe` | `Spec => []RetryIsSafe`, for `"idle" \notin TxAfterError` |
| `SessionProofs` | `SessionTypeCorrect` | `Spec => []TypeOK` |
| | `IdsNeverAmbiguous` | `Spec => []IdNeverAmbiguous` |
| | `CancelAlwaysReaches` | `Spec => []CancelReaches` |
| | `SessionImplements` | `Spec => ImplementsRequestStream` |
| `StatementProofs` | `StatementTypeCorrect` | `Spec => []TypeOK` |
| | `AnswersAreTrue` | `Spec => []AnswerIsTrue` |
| `StreamFlowProofs` | `StreamFlowTypeCorrect` | `Spec => []TypeOK` |
| | `FlowConserved` | `Spec => []Conserved` |
| | `WakeupNotLost` | `Spec => []NoLostWakeup` |
| `QueueLeaseProofs` | `QueueTypeCorrect` | `Spec => []TypeOK` |
| | `JobsConserved` | `Spec => []NoJobLostOrDoubled` |
| | `EffectsOnce` | `Spec => []EffectOnce` |
| | `HoldersKeepTheirJobs` | `Spec => []HolderKeepsItsJob` |
| `HttpEngineProofs` | `HttpTypeCorrect` | `Spec => []TypeOK` |
| | `FatesAreTrue` | `Spec => []FateIsTrue` |
| | `ProbesAccounted` | `Spec => []ProbeAccounted` |
| | `ConnectionsAreConserved` | `Spec => []ConnectionsConserved` |
| | `NoWakeupIsLost` | `Spec => []NoLostWakeup` |
| | `OpensFreshly` | `Spec => OpensOnFreshEvidence` |
| | `FailuresSeenFirst` | `Spec => FailureSeenFirst` |
| `ClientProofs`, of `Client` | `ClientTypeCorrect` | `ClientSpec => []ClientTypeOK` |
| | `ToldTrue` | `ClientSpec => []ToldIsTrue` |
| of `CopyIn` | `CopyTypeCorrect` | `Spec => []TypeOK` |
| | `LawfulClientsSurvive` | `Spec => []LawfulClientSurvives` |
| | `RepeatingIsSafe` | `Spec => []RetryIsSafe` |

The assumptions are those the modules name: capacities positive, place holders
(`NoTx`, `None`) outside the sets they stand beside, in `Pool` callers finite and
distinct from the reaper and a reset profile the backends really answer, in
`QueueWaker` finitely many queues and jobs.
Two theorems have a hypothesis of their own, and are false without it (see the known
disagreements).  `RetriesAreSafe`: no error of the server ends the transaction behind
the actor's back, as MySQL's 1213 does.  `HintsNotLost`: no sweep fails, or each waiter
names one queue.  A failed sweep drops its queue's trigger, and a waiter busy in
another queue's sweep is not told.

### Pool

*Inductive invariant.*  `FlagsCover` speaks of connections on the stack and in a
caller's hands; during a recycle the flags are being acted on and say nothing.
`IInv` adds `StagesKnow`: what is known of the session at each stage, for
instance that after the rollback no transaction is left and after the reset no
state.  With it every action is one of a few shapes, each a lemma: a caller
changes its own lease (`UsesLease`), moves without one (`MovesWithout`), pops,
pushes, forgets, evicts or dials (`PopsTop`, `PushesLease`, `ForgetsLease`,
`EvictsTop`, `DialsFresh`).  The proof of each action names its shape.

*Permits.*  `ShiftConserves`: a step that adds one holder and takes one permit,
or the reverse, or neither, conserves the sum; `ActionsShift` says that every
action is one of the three.

*Capacity.*  `Capacity` alone is not inductive: a caller that found the stack
empty is about to dial.  `Bounded` counts the sessions and the callers at
`dial` together.  A caller gets to `dial` only with the stack empty, when every
session is leased by a permit holder other than itself.

### Waker

*Chains of calls.*  What `Only` and `InTurn` compute is a recursive function over a
sequence.  That there is one (`FilterExists`, `ChainExists`), and that what each call
keeps the whole chain keeps, is shown by taking the first position where it fails.
The facts are stated of the record under the lock: `LockInv` (a FIFO names registered
waiters once, a queue in flight has one sweep, a busy waiter is in some sweep's batch),
`Idle` (a trigger is kept only while nobody it could serve is free) and `Answered` (a
queue that somebody is owed has a sweep or a trigger).  `Frame` is what calls leave
alone.  `CallFacts` is one call, `DeliversFacts` all of `complete`.

*Jobs.*  `DeliverXorUnreserve` is nearly inductive: `Once` and `Apart` say the same of
each reservation.  It needs that a fresh one differs from all others (`RowsOk`), that
the chunks `complete` cuts are disjoint and cover what a sweep brought (`ChunksDisjoint`,
`GivenFacts`), and that a slot is filled only while its handler will look again
(`Handlers`, `Looked`).

*Hints.*  `HintNotLost` speaks of waiters that are free; the invariant has to cover
busy ones, because a waiter freed by one queue's sweep may be owed another.
`AllAnswered`: a queue with an announced job and no hint on its way has a sweep or a kept
trigger if anybody was owed it, busy or not.  `AllIdle`: a kept trigger has nobody free
beside it, so a free waiter means a sweep.  `Swept`: a sweep that is back, not full and
without a trigger left no announced job, so that its queue needs no follow-up.
The proof attempt corrected the property twice: it now asks for a sweep, where a kept
trigger had been enough, and `WasOwed` covers every waiter it is true of, where it had
been stated for lists of one queue.

### Transactions

Three invariants.  `CInv` is the control of the three
tasks: where a request is decides what it carries (`ReqInv`); a request waits
unanswered exactly while its command is in one channel, once, or with one actor
(`QueueInv`); an actor past its rollback holds no connection and knows why it
ended (`ActorInv`); `order` names each tombstone once (`OrderInv`); an entry is missing
from the table only because the session was purged, the end was no deadline, or younger
tombstones pushed it out (`TableInv`); and a request that was told "not found" was
told so for one of these reasons (`NotFoundInv`).  `DeadlinesAreTold` follows
from it.

`FlagInv`, beside it, ties the pool's flag to the server: a transaction that is not
idle there has `tx_open` on its connection, and an effect is pending only in such a
transaction.  It is kept by every answer because `apply_tx_status` reads the
server's own word, and by every error because Rule A then assumes the worst.  With
`CInv` it gives `AbortsMeanOver`, however the teardown's ROLLBACK went.

`DInv`, on top of `CInv`, says what the database holds: a live actor's transaction is there as long as
its link is (`LiveInv`), only a COMMIT makes anything durable (`DurableInv`), and a
reply or terminal that is retryable belongs to a request without effect or to a
transaction that is `Doomed`: nothing of it is durable, and its link is lost or its
actor is ending by abort or deadline, so that nothing will be (`FateInv`).  `RetryIsSafe`
is not inductive without the second half of `Doomed`.

Every action is one of a few shapes, each a lemma: a handler goes on or ends
(`HandlerMoves`, `HandlerEnds`), an actor moves without answering (`Moves`), or
concludes a command (`Finishes`, `Fated`).

### Session

`IInv` relates the session task's phase to what it holds (`HeldInv`), handlers to
supervisors (`TaskInv`), the registry to both (`RegistryInv`), and the frames on the
channel and on the wire to the life of their request (`FrameInv`).  `OrderInv`: an id
is taken again only when the END of its last request is written or on the channel
ahead of every frame of the next.  `IdNeverAmbiguous` is about what has been written and
needs that order on the channel.  The refinement maps each step of the writer to
the step of `RequestStream` that shows the frame, and everything else to a stutter.

### Statements

`IInv` says that nothing reaches the server before the driver call is polled
(`UnsentInv`), that what a session still runs is undecided and runs only there
(`ServeInv`), that an answer on the way agrees with the effect (`ReplyInv`), and that
the code of an abandoned statement, chosen before its drain, holds whatever the server
makes of it (`DrainInv`).  Cancels are not constrained at all: the theorem is that they
need not be.

### Streams

`Conserved` is about totals: the cap's bytes in use are those of the frames queued
and of the producers that hold some, and each stream's credit, what its producer took,
what is queued and what the client has not returned make up its window (`Granted`,
`Within`).  `Total` sums a weight over a sequence as the last of a function's partial sums.
`PartialExists` and `PartialUnique` show, by a least counterexample, that there is one
such function and no other; from there the total of a sequence after `Append`, after
`Tail`, or with one item's weight changed follows by exhibiting the new partial sums.

`NoLostWakeup` is not inductive: between its recheck and its poll a producer has not
seen what came meanwhile.  `CreditComes` and `RoomComes` say that a producer registered
with a `Notify`, parked or about to, whose notification has not come yet lacks what it waits
for, or the task that has just provided it is about to notify.

### COPY

The credit has two ledgers: the client's (what it has sent and the reader has not
read, what it may still send, and the grants on their way to it are at most the
engine's credit) and the engine's (the credit, what is queued or in hand, and what is
to be granted again are at most the window).
The bytes of a channel are a fold, which these provers cannot unfold.  The ledgers
are therefore stated with a witness: a function of remaining sums that starts with
the total, falls by each frame's size and ends at nought (`Adds`).  Adding a frame
or taking one off changes the witness at one end, and no induction is needed.

### Leases

`TableInv`: a queued job has one row, behind the id sequence, and an acknowledged one
has counted once.  `TokenInv`: a reservation, wherever it is (not delivered yet, in an
unreserve under way, in a worker's hands), names its own job's row or one that is
gone, with attempts no higher than the row's, and no two of them have id and
attempts in common.  `LockInv`: a locked row is the one its transaction's verb
names, its fence still holding, or the one its RELEASE will insert.  `LeaseInv`:
until its deadline a reservation is the row's, or the job was cleared; said of
reservations not yet delivered too, which `HolderKeepsItsJob` does not mention.
The proof found that the model's RELEASE in a
transaction could never happen (its lock was constrained twice); the run had
passed without it.  The action is repaired, and the run has it.

### HTTP

One invariant carries all seven theorems.  `HeldInv`: where a request is decides
which connections it carries, what its dial is doing, whether it has a dial place and
which handles there are on its ticket.  `GateInv`: the FIFO names each queued request
once, and at most `MAX_REQUESTS` are beyond it.  `ProbeInv`, `PeriodInv`: at most one
probe is open, exactly while `probing`; an undecided ordinary ticket is of an earlier
generation, or its request belongs to the present closed period.  `ApartInv`,
`CountInv`: what requests and dials hold is disjoint from each other and from the
stack, and finite, and the counters count it.  `WireInv`: from dispatch on a request
has been written exactly if its connection's tracker says so, which is what makes a
read of `sent` after the awaited discard final.  `SleepInv`: a sleeper not yet woken
sleeps because all dial places are taken, or because all connections are in use and
none is idle.

Every action is one of a few shapes, each a lemma: a request ends before dispatch
(`EndsEarly`) or with a connection (`EndsLaden`), goes on (`Goes`, `GoesOn`), takes
from the stack (`Takes`), hands back or closes (`HandsBack`, `Closes`), or only its dial
moves (`Dialling`).  What `decide` may answer is `DecisionFacts`.

The attempt to prove an earlier `NoLostWakeup`, which had no exception for an
uncovered connection, failed because it was false.  The counterexample needs room for
four connections (two idle, one being dialled, one more, or the sleeper would evict)
and five requests, beyond the run's instance; TLC finds it in a guided one: a
connection returned unused lies over a fresher one and grows too old, one request
dials, a non-idempotent one sleeps, and an idempotent one pops the old connection.

### The PHP client

The invariant follows a request of a call to wherever it is.  `Outstanding`: one that
the engine still has belongs to a call that waits for it with nothing on the wire and
nothing filed, to one that is over, or to an idempotent one that lost its session.
`Returning`, `Filed`: an answer on the wire or in the inbox is the only one, is for the
request the call waits for, and is true (`AnswerTrue`: success was applied, a definite error
was not and will not be).  `Once`: at most one request that writes is
outstanding, and only as long as nothing was applied.  `StaysClean`: wherever the client may
start over, nothing was applied and nothing outstanding can be; this is what the
COMMIT carve-out of `classifyLoss` and the `unsent` verdict buy.  `Closed`: only
writes outlive a closed session.  What the code after a terminal may do is one lemma per
kind of request (`Outcome`).

### Only model-checked

* Liveness: fairness and ENABLED are beyond this prover.

Every invariant and every safety property of an action that a run checks is stated by a
theorem.

## Known disagreements between comments and code

The models do what the code does.  These are the places where a comment, met while
modelling, says otherwise; none has a run of its own.

*Pool, transactions, waker*

* `health.rs:102` says the reaper "must never hold up a checkout"; its ping has no
  timeout and holds a permit, so with the other permits in use a checkout can
  wait out its whole timeout.
* `tx/mod.rs:448` says that after the purge "nothing leaks per session"; a BEGIN
  slower than the drain deadline registers after the purge and stays until its
  idle or `max_tx` deadline (`sql.rs:1697`).
* `fate.rs:35` says a lost statement in a transaction "will never commit"; after an
  error that ended the transaction at the server (MySQL 1213, `actor.rs:389`) the
  actor goes on and the next statement is durable by itself.  `RetryIsSafe` holds
  for servers that abort the block or leave it open, the values of `TxAfterError` in
  the run.
* `actor.rs:800` says a wedged upstream "must not keep the actor holding the pinned
  conn"; `run_interruptible` awaits the interrupted statement without a bound
  (`actor.rs:791`).
* `queue_waker.rs:11` says a hint that fires meanwhile "is never lost"; a waiter of
  two queues that is still arriving at the second is not owed the first
  (`queue_waker.rs:181`), and the job waits for the poll.  `HintNotLost` holds for
  the queue a waiter is arriving at and for the last of its list.  Nor may a sweep
  fail: it drops its queue's trigger (`queue_waker.rs:607`), and a waiter that is then
  busy in another queue's sweep is left with neither an answer nor a trigger, although
  `queue_waker.rs:497` says the trigger is kept for it.
* A stream left in the channel of an ended transaction is told `Protocol` or
  `TxDeadline`, the buffered statement beside it `TxNotFound`
  (`drain_buffered_on_teardown` says they agree); a QUEUE write whose result is
  unreadable is told `Unsupported`, where `TxQueueReply::RolledBack` says
  `TxDeadline`.

*Session and statements*

* `session/mod.rs:766` says the drain bounds the shutdown.  It bounds the
  supervisors; the task then awaits the writer, which ends when the last handler's
  `Responder` is dropped, so a handler that ignores its token keeps the session.
* `registry.rs:28` lets an id be reused after its END; the END is on the channel
  before the id is freed (`supervisor.rs:112`), so a client that reuses it at once
  may be refused.  Refused, never confused: `IdNeverAmbiguous`.
* GOODBYE is said to leave requests in flight unaffected; it leaves the loop, and
  the teardown cancels them all.
* A stop that wins against a statement is said to mean it was dispatched
  (`sql.rs:690`); with PostgreSQL the prepare round trip comes first
  (`query.rs:92`).  The fates are right either way.
* The checkout of a streamed autocommit EXEC is not raced with CANCEL or
  deadline (`sql.rs:983`), and a COPY's grant is not either (`responder.rs:294`).
* A write that was applied and whose result does not fit one frame is told
  `Unsupported` (`sql.rs:1964`).
* `credit_frames = 0` passes `Config::validate` and parks every stream.

*HTTP*

* `pool.rs:261` says that below a connection too idle for a non-idempotent request "the
  ones below it are idler still (LIFO)"; `return_unused` (`pool.rs:302`) pushes with the
  old `idle_since` over what was checked in meanwhile.  Such a request dials, or waits,
  beside a connection it could use, and the connection evicted as the idlest need not
  be it.  `HttpEngine` has these behaviours: they are why `NoLostWakeup` has its
  exception.
* A response head that arrives before the request was written is taken for its
  answer if the write happens before the check of `sent` (`engine/mod.rs:884`).

*PHP client*

* `begin()` checks `ownTx()` before a submit that may suspend on the stream guard:
  two fibers can pass, and the second overwrites `$this->tx`
  (`Connection.php:1342`).
* After an id-0 error END with nothing read afterwards a session is over but not
  poisoned: a caller that only writes is told "not sent" each time
  (`Connection.php:206`).
* The second attempt of an idempotent statement may answer with a definite error
  that masks the first attempt's `Indeterminate` (`Connection.php:1745`);
  `ToldIsTrue` excepts it.
* `reconnect()` in a retry closes the loop's current session even if another fiber
  has replaced it already.
* Discarded ids in flight count as free once the id counter wraps.
* A closure that calls `$tx->commit()` itself and loses the answer is run again
  like one that lost a statement.

## Not modelled

* *Savepoint stack*: its contents; `TxService` only knows whether the server has the
  savepoint.
* *Queue*: the verification of a store's table at first use, SIZE, the
  configuration rules.
* *HTTP*: what hold and rate limits compute (they only refuse here), addresses and
  DNS, TLS, decompression, body budgets.
* *PHP*: row streams and their guard, the HTTP client, connections without a
  reconnect loop, COPY's receiving half, the wrap of request ids.  The framework
  bridges adapt interfaces and keep no state that the engine depends on.
* *Lifecycle*: accept loop and start-up; the drain is an event of the modules that
  react to it.
* *Text and data*: codecs and generated constants (test vectors cover them), the
  classifier's lexer (its verdict is an input of `Pool`), conversion of rows and
  parameters, metrics, traces and logs, configuration and CLI, benchmarks.  These
  are a large part of the repository's lines and have no state to interleave.

## What is left

* The liveness properties (`CheckoutEnds`, `EveryRequestEnds`, `SessionTxsEnd`,
  `ParkedIsServed`, `HandlerWakes`, `EndIsDelivered`, `SessionEnds`, `StoppedUnwinds`,
  `StreamsGetThrough`, `CopyEnds`, `StoppedIsAnswered`, `CallsEnd`) are checked on the
  instances above and not proved.
* `TxService` does not have the contents of the savepoint stack, nor `Client` the
  receiving half of COPY.
