----------------------------- MODULE QueueWaker -----------------------------
(***************************************************************************)
(* The waker of ferro's job queue (services/queue_waker.rs) and the        *)
(* handler of a waiting RESERVE (services/queue.rs, serve_waiting).        *)
(*                                                                         *)
(* A waiting RESERVE holds no connection: it has a slot and sleeps.  The   *)
(* waker runs the statements, one per queue at a time, hands the jobs they *)
(* reserve to the slots, and unreserves what no live session takes.  What  *)
(* can go wrong is a job that is reserved and in nobody's hands, or in two *)
(* hands; a lease taken from the worker that holds it; or a waiter asleep  *)
(* next to a job.                                                          *)
(***************************************************************************)
EXTENDS Naturals, Sequences, FiniteSets, SequencesExt

CONSTANTS
  Waiters,          \* waiting RESERVEs; each has a session of its own
  Queues,           \* queues of the store
  Jobs,             \* rows of its table
  Events,           \* bound: the kinds of outside events that happen
  ListLen,          \* most queues a RESERVE names
  Clamp,            \* Waiter::clamp: jobs one waiter takes
  SweepCap,         \* Waker::cap: jobs one sweep reserves
  Lease,            \* lease_s, in ticks of the database's clock
  MaxTime,          \* bound: that clock
  MaxReservations,  \* bound: how often one row is reserved
  NoQueue

ASSUME BoundsAssumption ==
  /\ ListLen \in Nat \ {0} /\ Clamp \in Nat \ {0} /\ SweepCap \in Nat \ {0}
  /\ Lease \in Nat \ {0} /\ MaxTime \in Nat \ {0} /\ MaxReservations \in Nat
ASSUME NoQueueAssumption == NoQueue \notin Queues
ASSUME FiniteAssumption == IsFiniteSet(Queues) /\ IsFiniteSet(Jobs)
ASSUME EventsAssumption ==
  Events \subseteq {"timer", "cancel", "teardown", "drain", "failure", "elsewhere"}

VARIABLES
  wk,         \* what the waker's lock and the slots' locks protect
  at,         \* where each waiter's handler is
  saw,        \* Waiter::wait: the `busy' it went to sleep with
  hand,       \* the jobs the handler took out of its slot
  clock,      \* each waiter: inside its wait, past wait_end, past hard_end
  cancel,     \* its cancel token
  live,       \* Liveness of its session
  draining,   \* the daemon's drain
  row,        \* the table
  now,        \* the database's clock
  hints,      \* queues whose wake hint is on its way
  undo,       \* unreserve statements that have not run yet
  made,       \* history: reservations a sweep brought back
  delivered,  \* history: those handed to a live session's writer
  returned    \* history: those whose unreserve is over

handlerVars == <<at, saw, hand>>
worldVars == <<clock, cancel, live, draining>>
tableVars == <<row, now>>
undoVars == <<hints, undo>>
history == <<made, delivered, returned>>
wakerVars == <<wk, handlerVars, worldVars, tableVars, undoVars, history>>

(* What a RESERVE may ask for: distinct queues, in priority order.         *)
Lists == {s \in UNION {[1..n -> Queues] : n \in 1..ListLen} : IsInjective(s)}

(* The members of seq that are in set, in their order.                     *)
Only(seq, set) ==
  LET only[i \in 0..Len(seq)] ==
        IF i = 0 THEN <<>>
        ELSE IF seq[i] \in set THEN Append(only[i - 1], seq[i]) ELSE only[i - 1]
  IN only[Len(seq)]

NoSlot == [arrival |-> 1, busy |-> FALSE, ended |-> "no", offer |-> <<>>]

WakerInit ==
  /\ wk = [list     |-> [w \in Waiters |-> <<>>],
           slot     |-> [w \in Waiters |-> NoSlot],
           bell     |-> [w \in Waiters |-> FALSE],
           fifo     |-> [q \in Queues |-> <<>>],
           inFlight |-> [q \in Queues |-> FALSE],
           pending  |-> [q \in Queues |-> FALSE],
           sweeps   |-> {}]
  /\ at = [w \in Waiters |-> "new"]
  /\ saw = [w \in Waiters |-> FALSE]
  /\ hand = [w \in Waiters |-> <<>>]
  /\ clock = [w \in Waiters |-> "wait"]
  /\ cancel = [w \in Waiters |-> FALSE]
  /\ live = [w \in Waiters |-> TRUE]
  /\ draining = FALSE
  /\ row = [j \in Jobs |-> [queue |-> NoQueue, attempts |-> 0, stamp |-> 0,
                            n |-> 0, hinted |-> FALSE]]
  /\ now = 1
  /\ hints = {}
  /\ undo = {}
  /\ made = {}
  /\ delivered = {}
  /\ returned = {}

-----------------------------------------------------------------------------
(* The critical sections of the waker, as functions of its state k.        *)

Owed(k, w, q) ==
  LET s == k.slot[w] IN
  /\ s.ended = "no"
  /\ clock[w] = "wait"
  /\ s.arrival > Len(k.list[w]) \/ k.list[w][s.arrival] = q

Eligible(k, w, q) == ~ k.slot[w].busy /\ Owed(k, w, q)

(* A queue nobody waits on, with nothing in flight, is forgotten.          *)
Known(k, q) == k.fifo[q] # <<>> \/ k.inFlight[q]
Forgotten(k) ==
  [k EXCEPT !.pending = [q \in Queues |-> k.pending[q] /\ Known(k, q)]]

(* The longest prefix of eligible waiters that fits the cap, at least one. *)
Batch(k, q) ==
  LET can == Only(k.fifo[q], {w \in Waiters : Eligible(k, w, q)})
      most == IF SweepCap < Clamp THEN 1 ELSE SweepCap \div Clamp
  IN SubSeq(can, 1, IF Len(can) < most THEN Len(can) ELSE most)

(* start_sweep_locked.  A trigger is kept if a sweep of another queue has  *)
(* the waiter that is owed this one.                                       *)
StartSweep(k, q) ==
  LET batch == Batch(k, q)
      members == ToSet(batch)
  IN
  IF batch = <<>>
    THEN [k EXCEPT !.pending[q] = \E w \in ToSet(k.fifo[q]) :
                                    k.slot[w].busy /\ Owed(k, w, q)]
    ELSE [k EXCEPT
            !.pending[q] = FALSE,
            !.inFlight[q] = TRUE,
            !.slot = [w \in Waiters |-> [k.slot[w] EXCEPT
                                           !.busy = @ \/ w \in members]],
            !.sweeps = @ \cup {[queue |-> q, batch |-> batch, jobs |-> <<>>,
                                is |-> "sent"]}]

Trigger(k, q) ==
  IF ~ Known(k, q) THEN k
  ELSE IF k.inFlight[q] THEN [k EXCEPT !.pending[q] = TRUE]
  ELSE StartSweep(k, q)

(* A kept trigger runs once its queue has nothing in flight.               *)
Deferred(k, q) == IF k.pending[q] /\ ~ k.inFlight[q] THEN StartSweep(k, q)
                                                    ELSE k

(* Calls made one after the other under the waker's lock.                  *)
Calls(how, queues) ==
  [i \in 1..Len(queues) |-> [how |-> how, queue |-> queues[i]]]
Call(k, c) ==
  CASE c.how = "start" -> StartSweep(k, c.queue)
    [] c.how = "trigger" -> Trigger(k, c.queue)
    [] c.how = "deferred" -> Deferred(k, c.queue)
InTurn(k, calls) ==
  LET after[i \in 0..Len(calls)] ==
        IF i = 0 THEN k ELSE Call(after[i - 1], calls[i])
  IN after[Len(calls)]

(* Mutant: the handlers are not woken.                                     *)
OfferSilent(k, offers) ==
  [k EXCEPT !.slot = [w \in Waiters |->
     IF w \in DOMAIN offers /\ k.slot[w].ended = "no"
     THEN [k.slot[w] EXCEPT !.ended = "Offered", !.offer = offers[w]]
     ELSE k.slot[w]]]

(* Waiter::offer to each of some waiters: only into slots nobody has       *)
(* finished.                                                               *)
Offer(k, offers) ==
  LET to == {w \in DOMAIN offers : k.slot[w].ended = "no"} IN
  [k EXCEPT
     !.slot = [w \in Waiters |->
        IF w \in to
        THEN [k.slot[w] EXCEPT !.ended = "Offered", !.offer = offers[w]]
        ELSE k.slot[w]],
     !.bell = [w \in Waiters |-> k.bell[w] \/ w \in to]]

(* The batch of a sweep that came back is free for other sweeps.           *)
Freed(k, s) ==
  [k EXCEPT !.slot = [w \in Waiters |->
              [k.slot[w] EXCEPT !.busy = @ /\ w \notin ToSet(s.batch)]],
            !.sweeps = @ \ {s}]

(* Mutant: waiters that finished meanwhile are served as well.             *)
TakersFinished(k, s) ==
  s.batch \o Only(k.fifo[s.queue],
                  {w \in Waiters \ ToSet(s.batch) : Eligible(k, w, s.queue)})

(* Whom the jobs of a sweep go to: those of its batch that nobody has      *)
(* finished are served first, then others of the queue.                    *)
Takers(k, s) ==
  Only(s.batch, {w \in Waiters : k.slot[w].ended = "no"})
  \o Only(k.fifo[s.queue],
          {w \in Waiters \ ToSet(s.batch) : Eligible(k, w, s.queue)})
Chunk(jobs, i) ==
  SubSeq(jobs, (i - 1) * Clamp + 1,
         IF i * Clamp < Len(jobs) THEN i * Clamp ELSE Len(jobs))
Served(k, s) == {i \in 1..Len(Takers(k, s)) : Chunk(s.jobs, i) # <<>>}
Leftovers(k, s) ==
  SubSeq(s.jobs, Clamp * Len(Takers(k, s)) + 1, Len(s.jobs))

Given(k, s) ==
  LET takers == Takers(k, s)
      who == {takers[i] : i \in Served(k, s)}
  IN Offer(Freed(k, s),
           [w \in who |-> Chunk(s.jobs, CHOOSE i \in Served(k, s) : takers[i] = w)])

(* The waiters of its batch that a sweep left without jobs go on to their  *)
(* next queue.                                                             *)
Left(k, s) == Only(s.batch, {w \in Waiters : Given(k, s).slot[w].ended = "no"})
At(k, w, q) ==
  LET a == k.slot[w].arrival IN a <= Len(k.list[w]) /\ k.list[w][a] = q
EmptyHanded(k, who, q) ==
  [k EXCEPT !.slot = [w \in Waiters |->
              [k.slot[w] EXCEPT !.arrival = IF w \in who /\ At(k, w, q) THEN @ + 1
                                                                       ELSE @]],
            !.bell = [w \in Waiters |-> k.bell[w] \/ w \in who]]

(* The queue is free; a full sweep asks for another.                       *)
Done(k, s) ==
  LET q == s.queue IN
  [EmptyHanded(Given(k, s), ToSet(Left(k, s)), q) EXCEPT
     !.inFlight[q] = FALSE,
     !.pending[q] = @ \/ Len(s.jobs) >= Clamp * Len(s.batch)]

(* The queues whose turn it now is for waiters that went on.               *)
Onward(k, s) ==
  LET moved == Done(k, s).slot
      on == Only(Left(k, s),
                 {w \in Waiters : /\ moved[w].arrival # k.slot[w].arrival
                                  /\ moved[w].arrival <= Len(k.list[w])})
  IN [i \in 1..Len(on) |-> k.list[on[i]][moved[on[i]].arrival]]

(* Mutant: triggers kept for a waiter that was busy are not run.           *)
AwaitedForgotten(k, s) == {}

(* The queues a freed waiter may be owed.                                  *)
Awaited(k, s) ==
  (UNION {ToSet(k.list[w]) : w \in ToSet(Left(k, s))}) \ {s.queue}

(* complete, Ok: hand the jobs out, free the queue, then the follow-up a   *)
(* trigger left, the arrivals at their next queue, and the triggers kept   *)
(* for waiters this sweep has freed.                                       *)
Delivers(k, s) ==
  Forgotten(InTurn(Done(k, s),
    Calls("deferred", <<s.queue>>)
    \o Calls("trigger", Onward(k, s))
    \o Calls("deferred", SetToSeq(Awaited(k, s)))))

(* complete, Err: the batch is told, and the queue's other idle waiters    *)
(* ask again; nothing is sent a second time.                               *)
Fails(k, s) ==
  LET q == s.queue
      free == [Freed(k, s) EXCEPT
                 !.bell = [w \in Waiters |-> k.bell[w] \/ w \in ToSet(s.batch)],
                 !.inFlight[q] = FALSE,
                 !.pending[q] = FALSE]
      told == ToSet(s.batch) \cup {w \in ToSet(k.fifo[q]) : ~ free.slot[w].busy}
  IN Offer(free, [w \in told |-> <<>>])

-----------------------------------------------------------------------------
(* The handler: serve_waiting and Waiter::wait.                            *)

(* register, then sweep.                                                   *)
Register(w, list) ==
  LET k == [wk EXCEPT !.list[w] = list,
                      !.fifo = [q \in Queues |->
                         IF q \in ToSet(list) THEN Append(wk.fifo[q], w)
                                              ELSE wk.fifo[q]]]
  IN
  /\ at[w] = "new"
  /\ ~ draining
  /\ wk' = Trigger(k, Head(list))
  /\ at' = [at EXCEPT ![w] = "loop"]
  /\ UNCHANGED <<saw, hand, worldVars, tableVars, undoVars, history>>

(* How a turn of the loop that finds no offer ends the wait, if it does.   *)
Verdict(w) ==
  LET busy == wk.slot[w].busy
      late == clock[w] = "due" \/ (~ busy /\ clock[w] = "late")
  IN
  IF cancel[w] THEN IF live[w] THEN "Cancelled" ELSE "Teardown"
  ELSE IF late THEN "Deadline"
  ELSE IF ~ busy /\ draining THEN "Drained"
  ELSE "no"

(* Under the slot's lock: take the offer, finish the slot, or go to sleep. *)
Turn(w) ==
  /\ at[w] = "loop"
  /\ IF wk.slot[w].ended = "Offered"
       THEN /\ hand' = [hand EXCEPT ![w] = wk.slot[w].offer]
            /\ wk' = [wk EXCEPT !.slot[w].offer = <<>>]
            /\ at' = [at EXCEPT ![w] = "leave"]
            /\ UNCHANGED saw
       ELSE /\ wk' = [wk EXCEPT !.slot[w].ended = Verdict(w)]
            /\ at' = [at EXCEPT ![w] = IF Verdict(w) = "no" THEN "asleep"
                                                            ELSE "leave"]
            /\ saw' = [saw EXCEPT ![w] = wk.slot[w].busy /\ Verdict(w) = "no"]
            /\ UNCHANGED hand
  /\ UNCHANGED <<worldVars, tableVars, undoVars, history>>

(* The select of wait: what it listens to depends on the `busy' it saw.    *)
Wake(w) ==
  /\ at[w] = "asleep"
  /\ \/ wk.bell[w] /\ wk' = [wk EXCEPT !.bell[w] = FALSE]
     \/ /\ \/ clock[w] = "due"
           \/ ~ saw[w] /\ clock[w] = "late"
           \/ cancel[w]
           \/ ~ saw[w] /\ draining
        /\ UNCHANGED wk
  /\ at' = [at EXCEPT ![w] = "loop"]
  /\ saw' = [saw EXCEPT ![w] = FALSE]
  /\ UNCHANGED <<hand, worldVars, tableVars, undoVars, history>>

(* The guard is dropped; a terminal without jobs is declared.              *)
Deregister(w) ==
  /\ at[w] = "leave"
  /\ wk' = Forgotten([wk EXCEPT !.fifo =
              [q \in Queues |-> Only(wk.fifo[q], Waiters \ {w})]])
  /\ at' = [at EXCEPT ![w] = IF hand[w] = <<>> THEN "over" ELSE "handoff"]
  /\ UNCHANGED <<saw, hand, worldVars, tableVars, undoVars, history>>

(* Waker::unreserve: one statement, spawned.                               *)
Unreserve(jobs) ==
  undo' = IF jobs = <<>> THEN undo
          ELSE undo \cup {[jobs |-> ToSet(jobs), gaveUp |-> FALSE]}

(* hand_off_jobs: under the liveness lock, delivered or unreserved.        *)
HandOff(w) ==
  /\ at[w] = "handoff"
  /\ IF live[w]
       THEN delivered' = delivered \cup ToSet(hand[w]) /\ UNCHANGED undo
       ELSE Unreserve(hand[w]) /\ UNCHANGED delivered
  /\ hand' = [hand EXCEPT ![w] = <<>>]
  /\ at' = [at EXCEPT ![w] = "over"]
  /\ UNCHANGED <<wk, saw, worldVars, tableVars, hints, made, returned>>

-----------------------------------------------------------------------------
(* The waker's tasks.                                                      *)

(* Mutant: the poll looks at arriving waiters only.                        *)
PollArriving ==
  LET due == {q \in Queues : /\ ~ wk.inFlight[q]
                             /\ \E w \in ToSet(wk.fifo[q]) :
                                  /\ Eligible(wk, w, q)
                                  /\ wk.slot[w].arrival <= Len(wk.list[w])}
  IN
  /\ due # {}
  /\ \E order \in SetToSeqs(due) : wk' = InTurn(wk, Calls("start", order))
  /\ UNCHANGED <<handlerVars, worldVars, tableVars, undoVars, history>>

(* poll_all: every POLL_MS, the queues that are due, in any order.         *)
PollAll ==
  LET due == {q \in Queues : /\ ~ wk.inFlight[q]
                             /\ \E w \in ToSet(wk.fifo[q]) : Eligible(wk, w, q)}
  IN
  /\ due # {}
  /\ \E order \in SetToSeqs(due) : wk' = InTurn(wk, Calls("start", order))
  /\ UNCHANGED <<handlerVars, worldVars, tableVars, undoVars, history>>

(* A local wake hint, some time after the commit it announces.             *)
Hint(q) ==
  /\ q \in hints
  /\ hints' = hints \ {q}
  /\ wk' = Trigger(wk, q)
  /\ UNCHANGED <<handlerVars, worldVars, tableVars, undo, history>>

(* A sweep's task calls complete.                                          *)
Complete(s) ==
  /\ \/ s.is = "back" /\ wk' = Delivers(wk, s) /\ Unreserve(Leftovers(wk, s))
     \/ s.is = "failed" /\ wk' = Fails(wk, s) /\ UNCHANGED undo
  /\ UNCHANGED <<handlerVars, worldVars, tableVars, hints, history>>

-----------------------------------------------------------------------------
(* The database: pg.rs's statements on the jobs table.                     *)

(* Pending, or its lease is over.                                          *)
Ready(j, q) ==
  /\ row[j].queue = q
  /\ row[j].stamp = 0 \/ row[j].stamp + Lease < now
  /\ row[j].n < MaxReservations

(* A reservation is known by job, attempts and stamp; n only tells the     *)
(* model which one it is.                                                  *)
Reservation(j) == [job |-> j, attempts |-> row[j].attempts + 1, stamp |-> now,
                   n |-> row[j].n + 1]
Reserved(taken) ==
  [j \in Jobs |-> IF j \in taken
                    THEN [row[j] EXCEPT !.attempts = @ + 1, !.stamp = now,
                                        !.n = @ + 1, !.hinted = FALSE]
                    ELSE row[j]]

(* reserve ... LIMIT k.                                                    *)
SweepRuns(s) ==
  LET ready == {j \in Jobs : Ready(j, s.queue)}
      limit == Clamp * Len(s.batch)
      size == IF Cardinality(ready) < limit THEN Cardinality(ready) ELSE limit
  IN
  /\ s.is = "sent"
  /\ \E taken \in {x \in SUBSET ready : Cardinality(x) = size} :
       LET found == {Reservation(j) : j \in taken} IN
       /\ row' = Reserved(taken)
       /\ made' = made \cup found
       /\ wk' = [wk EXCEPT !.sweeps = (@ \ {s}) \cup
                   {[s EXCEPT !.is = "back", !.jobs = SetToSeq(found)]}]
  /\ UNCHANGED <<handlerVars, worldVars, now, undoVars, delivered, returned>>

(* The runner errs: no checkout, an error, or a statement it abandons.     *)
(* What an abandoned one still reserves is OtherReserves.                  *)
SweepFails(s) ==
  /\ "failure" \in Events
  /\ s.is = "sent"
  /\ wk' = [wk EXCEPT !.sweeps = (@ \ {s}) \cup {[s EXCEPT !.is = "failed"]}]
  /\ UNCHANGED <<handlerVars, worldVars, tableVars, undoVars, history>>

(* Another daemon, a stock worker, an abandoned sweep.                     *)
OtherReserves(j) ==
  /\ "elsewhere" \in Events
  /\ \E q \in Queues : Ready(j, q)
  /\ row' = Reserved({j})
  /\ UNCHANGED <<wk, handlerVars, worldVars, now, undoVars, history>>

(* unreserve's WHERE clause.                                               *)
Fence(r) == row[r.job].attempts = r.attempts /\ row[r.job].stamp = r.stamp

(* The restored rows' queues are hinted, if the task still listens.        *)
UnreserveRuns(u) ==
  LET back == {r \in u.jobs : Fence(r)}
      ids == {r.job : r \in back}
  IN
  /\ row' = [j \in Jobs |-> IF j \in ids
                THEN [row[j] EXCEPT !.attempts = @ - 1, !.stamp = 0,
                                    !.hinted = ~ u.gaveUp]
                ELSE row[j]]
  /\ hints' = IF u.gaveUp THEN hints
                          ELSE hints \cup {row[j].queue : j \in ids}
  /\ undo' = undo \ {u}
  /\ returned' = returned \cup u.jobs
  /\ UNCHANGED <<wk, handlerVars, worldVars, now, made, delivered>>

(* The task gives up on a statement that may yet run, or never will.       *)
UnreserveGivesUp(u) ==
  /\ "failure" \in Events
  /\ ~ u.gaveUp
  /\ undo' = (undo \ {u}) \cup {[u EXCEPT !.gaveUp = TRUE]}
  /\ UNCHANGED <<wk, handlerVars, worldVars, tableVars, hints, history>>

(* A job is committed: by this daemon, with a hint, or elsewhere.          *)
Arrive(j, q, hinted) ==
  /\ hinted \/ "elsewhere" \in Events
  /\ row[j].queue = NoQueue
  /\ row' = [row EXCEPT ![j].queue = q, ![j].hinted = hinted]
  /\ hints' = IF hinted THEN hints \cup {q} ELSE hints
  /\ UNCHANGED <<wk, handlerVars, worldVars, now, undo, history>>

Tick ==
  /\ now < MaxTime
  /\ now' = now + 1
  /\ UNCHANGED <<wk, handlerVars, worldVars, row, undoVars, history>>

-----------------------------------------------------------------------------
(* Sessions, clients, timers, the operator.                                *)

Passes(w) ==
  /\ "timer" \in Events
  /\ at[w] \notin {"new", "over"}
  /\ clock[w] # "due"
  /\ clock' = [clock EXCEPT ![w] = IF @ = "wait" THEN "late" ELSE "due"]
  /\ UNCHANGED <<wk, handlerVars, cancel, live, draining, tableVars, undoVars,
                 history>>

SessionEnds(w) ==
  /\ "teardown" \in Events
  /\ live[w]
  /\ at[w] # "over"
  /\ live' = [live EXCEPT ![w] = FALSE]
  /\ UNCHANGED <<wk, handlerVars, clock, cancel, draining, tableVars, undoVars,
                 history>>

(* A client's CANCEL, or cancel_all of a session that has ended.           *)
Cancel(w) ==
  /\ "cancel" \in Events \/ ~ live[w]
  /\ ~ cancel[w]
  /\ at[w] \notin {"new", "over"}
  /\ cancel' = [cancel EXCEPT ![w] = TRUE]
  /\ UNCHANGED <<wk, handlerVars, clock, live, draining, tableVars, undoVars,
                 history>>

BeginDrain ==
  /\ "drain" \in Events
  /\ ~ draining
  /\ draining' = TRUE
  /\ UNCHANGED <<wk, handlerVars, clock, cancel, live, tableVars, undoVars,
                 history>>

-----------------------------------------------------------------------------
HandlerStep(w) == Turn(w) \/ Wake(w) \/ Deregister(w) \/ HandOff(w)
SweepStep == \E s \in wk.sweeps : SweepRuns(s) \/ SweepFails(s) \/ Complete(s)

(* Every RESERVE has its answer, or never comes.                           *)
Quiet ==
  /\ \A w \in Waiters : at[w] \in {"new", "over"}
  /\ UNCHANGED wakerVars

WakerNext ==
  \/ \E w \in Waiters :
       \/ \E list \in Lists : Register(w, list)
       \/ HandlerStep(w)
       \/ Passes(w) \/ SessionEnds(w) \/ Cancel(w)
  \/ PollAll \/ SweepStep
  \/ \E q \in Queues : Hint(q)
  \/ \E u \in undo : UnreserveRuns(u) \/ UnreserveGivesUp(u)
  \/ \E j \in Jobs : OtherReserves(j)
  \/ \E j \in Jobs, q \in Queues, hinted \in BOOLEAN : Arrive(j, q, hinted)
  \/ Tick \/ BeginDrain \/ Quiet

WakerSpec == WakerInit /\ [][WakerNext]_wakerVars

(* No sweep stays where it is: the runner bounds its statement and its     *)
(* task is scheduled.  (Weak fairness of the sweep's steps: each one takes *)
(* its queue's sweep out of the stage it was in.)                          *)
SweepsMove ==
  \A q \in Queues, stage \in {"sent", "back", "failed"} :
    []<>(\A s \in wk.sweeps : s.queue = q => s.is # stage)

(* Handlers are scheduled and the poll ticks; a handler that can run runs  *)
(* now and then between two sweeps, which are POLL_MS apart, rather than   *)
(* always during one.  Nothing is assumed of a waiter's timers or of its   *)
(* client.                                                                 *)
WakerFairSpec ==
  /\ WakerSpec
  /\ SweepsMove
  /\ WF_wakerVars(PollAll)
  /\ \A w \in Waiters : /\ WF_wakerVars(HandlerStep(w))
                        /\ SF_wakerVars(Turn(w) /\ ~ wk.slot[w].busy)
                        /\ SF_wakerVars(Wake(w) /\ ~ wk.slot[w].busy)

-----------------------------------------------------------------------------
(* Properties.                                                             *)

Rows == [queue : Queues \cup {NoQueue}, attempts : 0..MaxReservations,
         stamp : 0..MaxTime, n : 0..MaxReservations, hinted : BOOLEAN]
Reservations == [job : Jobs, attempts : 1..MaxReservations, stamp : 1..MaxTime,
                 n : 1..MaxReservations]

SlotStates ==
  [arrival : 1..(ListLen + 1), busy : BOOLEAN,
   ended : {"no", "Offered", "Deadline", "Cancelled", "Teardown", "Drained"},
   offer : Seq(Reservations)]
SweepStates ==
  [queue : Queues, batch : Seq(Waiters), jobs : Seq(Reservations),
   is : {"sent", "back", "failed"}]
WakerStates ==
  [list : [Waiters -> Lists \cup {<<>>}], slot : [Waiters -> SlotStates],
   bell : [Waiters -> BOOLEAN], fifo : [Queues -> Seq(Waiters)],
   inFlight : [Queues -> BOOLEAN], pending : [Queues -> BOOLEAN],
   sweeps : SUBSET SweepStates]

(* Every variable has its type.                                            *)
WakerTypeOK ==
  /\ wk \in WakerStates
  /\ at \in [Waiters -> {"new", "loop", "asleep", "leave", "handoff", "over"}]
  /\ saw \in [Waiters -> BOOLEAN]
  /\ hand \in [Waiters -> Seq(Reservations)]
  /\ clock \in [Waiters -> {"wait", "late", "due"}]
  /\ cancel \in [Waiters -> BOOLEAN] /\ live \in [Waiters -> BOOLEAN]
  /\ draining \in BOOLEAN
  /\ row \in [Jobs -> Rows]
  /\ now \in 1..MaxTime
  /\ hints \subseteq Queues
  /\ undo \subseteq [jobs : SUBSET Reservations, gaveUp : BOOLEAN]
  /\ made \subseteq Reservations /\ delivered \subseteq Reservations
  /\ returned \subseteq Reservations

(* Where the reservations that sweeps brought back are: with a sweep that  *)
(* has not handed them out, in a slot, with a handler, in an unreserve.    *)
InSweep(s) == ToSet(s.jobs)
InSlot(w) == ToSet(wk.slot[w].offer)
InHand(w) == ToSet(hand[w])
Places ==
  <<UNION {InSweep(s) : s \in wk.sweeps}, UNION {InSlot(w) : w \in Waiters},
    UNION {InHand(w) : w \in Waiters}, UNION {u.jobs : u \in undo},
    delivered, returned>>

(* "Deliver xor unreserve": every reservation a sweep brought back is in   *)
(* exactly one place -- a sweep, a slot, a handler's hand, an unreserve    *)
(* statement -- until it is delivered to a live session or given back, and *)
(* none is forgotten, whatever ends its waiter: one in a slot has a        *)
(* handler that will look.                                                 *)
DeliverXorUnreserve ==
  LET places == Places IN
  /\ UNION {places[i] : i \in 1..6} = made
  /\ \A i, j \in 1..6 : i # j => places[i] \cap places[j] = {}
  /\ \A s, t \in wk.sweeps : s # t => InSweep(s) \cap InSweep(t) = {}
  /\ \A u, v \in undo : u # v => u.jobs \cap v.jobs = {}
  /\ \A w, v \in Waiters :
       w # v => InSlot(w) \cap InSlot(v) = {} /\ InHand(w) \cap InHand(v) = {}
  /\ \A w \in Waiters : InSlot(w) # {} => at[w] \in {"loop", "asleep"}

(* A job that was announced and that nobody has reserved since.            *)
Lies(j, q) ==
  /\ row[j].queue = q /\ row[j].stamp = 0 /\ row[j].hinted
  /\ row[j].n < MaxReservations

(* A waiter was owed q whenever a trigger of q came: it is at q, or parked *)
(* after q.  One that parks after another queue was not, while it went     *)
(* through its list.                                                       *)
WasOwed(k, w, q) == k.slot[w].arrival <= Len(k.list[w]) \/ Last(k.list[w]) = q

(* "a hint that fires meanwhile is never lost": with no hint on its way, a *)
(* job that was announced does not lie next to a waiter of its queue that  *)
(* could take it, unless a sweep of the queue runs.  (A trigger kept for a *)
(* busy waiter is not enough: it has to run when the waiter is free.)      *)
HintNotLost ==
  \A q \in Queues :
    /\ q \notin hints
    /\ \E j \in Jobs : Lies(j, q)
    /\ \E w \in ToSet(wk.fifo[q]) : Eligible(wk, w, q) /\ WasOwed(wk, w, q)
    => wk.inFlight[q]

(* A job that is ready and a waiter parked on its queue do not stay so:    *)
(* hinted or not, the poll finds it.                                       *)
ParkedIsServed ==
  \A w \in Waiters, q \in Queues :
    LET lying == /\ w \in ToSet(wk.fifo[q])
                 /\ wk.slot[w].arrival > Len(wk.list[w])
                 /\ Owed(wk, w, q)
                 /\ \E j \in Jobs : Ready(j, q)
    IN lying ~> ~ lying

(* An offer is taken at once, not at a deadline, since whoever deposits it *)
(* has woken the handler; and a drain ends every wait as soon as the sweep *)
(* that serves it is back, although a waiter that saw itself busy does not *)
(* listen for it.                                                          *)
HandlerWakes ==
  \A w \in Waiters :
    /\ wk.slot[w].ended = "Offered" ~> at[w] = "over"
    /\ draining /\ at[w] # "new" ~> at[w] = "over"

=============================================================================
