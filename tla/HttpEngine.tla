----------------------------- MODULE HttpEngine -----------------------------
(***************************************************************************)
(* The HTTP service's engine (ferro-http/src/engine): requests to ONE      *)
(* upstream, from admission to their terminals.  A request passes the      *)
(* drain, the circuit breaker, the request gate and the connection pool,   *)
(* is handed to hyper on a reused or a freshly dialled connection, and is  *)
(* classified by how far it got.  Three things run beside it: its dial,    *)
(* DETACHED from it (it may leave and the dial goes on, with a handle on   *)
(* the request's breaker ticket); hyper's connection task, which writes    *)
(* whatever the request is doing until it has been aborted and awaited;    *)
(* and the other requests.                                                 *)
(*                                                                         *)
(* Durations are abstract: a deadline, the queue's and the dial's bounds   *)
(* and the breaker's open time may each run out at any moment.  The hold,  *)
(* the rate bucket and the body budgets are one step that may refuse.      *)
(***************************************************************************)
EXTENDS Naturals, Sequences, FiniteSets

CONSTANTS
  Requests,        \* each is served once
  Conns,           \* identities for connections
  MaxConnections,  \* MAX_CONNECTIONS: dialled, idle and in use
  MaxDials,        \* MAX_DIALS
  MaxRequests,     \* MAX_REQUESTS: slots of the gate
  MaxQueued,       \* MAX_QUEUED
  Failures,        \* BREAKER_FAILURES
  Counts,          \* the BREAKER_COUNTS classes an upstream may be given
  MaxEvents,       \* bound: CANCELs, the drain, connections growing old
  NoConn

ASSUME HttpAssumption ==
  /\ MaxConnections \in Nat \ {0}
  /\ MaxDials \in Nat \ {0}
  /\ MaxRequests \in Nat \ {0}
  /\ MaxQueued \in Nat
  /\ Failures \in Nat \ {0}
  /\ MaxEvents \in Nat
  /\ Counts \subseteq {"connect", "timeout", "5xx"}
  /\ NoConn \notin Conns

VARIABLES
  counts,   \* this upstream's BREAKER_COUNTS
  brk,      \* Breaker: its state, its count, whether its open time is up
  tk,       \* BreakerTicket per request: kind, generation, handles
  period,   \* history: requests (re)admitted in the present closed period
  req,      \* per request: where `run` is, and what it holds
  queue,    \* RequestGate: the FIFO of waiting requests
  woken,    \* requests whose `notified()` future has fired
  dial,     \* per request: its detached dial task
  slot,     \* requests whose dial still holds its DialSlot
  live,     \* SubShared.live
  dialing,  \* SubShared.dialing
  idle,     \* the sub-pool's idle stack, its top last
  conn,     \* per connection: its age and its write tracker
  since,    \* connections by their idle_since, the idlest first
  wire,     \* history: requests of which the socket took a byte
  drain,    \* DrainView: no, draining, or past FERRO_HTTP_DRAIN_MS
  events    \* CANCELs, drains and ageings so far

vars == <<counts, brk, tk, period, req, queue, woken, dial, slot, live,
          dialing, idle, conn, since, wire, drain, events>>

pools == <<live, dialing, idle, conn, since, woken>>
breaker == <<brk, tk, period>>

(***************************************************************************)
(* State.                                                                  *)
(***************************************************************************)
NoTicket == [probe |-> FALSE, gen |-> 0, recorded |-> TRUE, handles |-> {}]

NoWhy == [phase |-> "none", event |-> "none"]

NewConn == [age |-> "fresh", sent |-> FALSE]

Waiting == {"take", "drop", "parked", "got", "slot", "dialing",
            "ready", "dispatched", "body", "closing"}

Init ==
  /\ counts \in Counts
  /\ brk = [st |-> "closed", failures |-> 0, due |-> FALSE,
            probing |-> FALSE, gen |-> 0]
  /\ tk = [r \in Requests |-> NoTicket]
  /\ period = {}
  /\ req = [r \in Requests |->
              [pc |-> "new", idem |-> FALSE, conn |-> NoConn, stop |-> FALSE,
               closed |-> {}, why |-> NoWhy, told |-> "none"]]
  /\ queue = << >>
  /\ woken = {}
  /\ dial = [r \in Requests |-> [st |-> "none", conn |-> NoConn]]
  /\ slot = {}
  /\ live = 0
  /\ dialing = 0
  /\ idle = << >>
  /\ conn = [c \in Conns |-> NewConn]
  /\ since = << >>
  /\ wire = {}
  /\ drain = "no"
  /\ events = 0

Stack == {idle[i] : i \in DOMAIN idle}

\* A connection that exists: idle, with a request, or with a dial.
InUse == Stack \cup {req[r].conn : r \in Requests}
               \cup (UNION {req[r].closed : r \in Requests})
               \cup {dial[r].conn : r \in Requests}

\* Stop.token: a CANCEL, or the drain cap; `drained` says which.
Stopped(r) == req[r].stop \/ drain = "capped"

\* before_dispatch_stop / after_head_stop
StopEvent == IF drain = "capped" THEN "drain" ELSE "cancel"

(***************************************************************************)
(* fate.rs: a failed request's terminal, from how far it got.              *)
(***************************************************************************)
Classify(phase, event, idem) ==
  CASE phase \in {"before", "unsent"} /\ event = "cancel" -> "cancelled"
    [] phase = "before" /\ event = "policy"               -> "forbidden"
    [] phase \in {"before", "unsent"} /\ event \notin {"cancel", "policy"} -> "unsent"
    [] phase = "sent" /\ ~idem                            -> "unconfirmed"
    [] phase = "sent" /\ idem /\ event = "cancel"         -> "cancelled"
    [] phase = "sent" /\ idem /\ event = "deadline"       -> "timeout"
    [] phase = "sent" /\ idem /\ event \notin {"cancel", "deadline"} -> "lost"
    [] phase = "head" /\ event = "cancel"                 -> "cancelled"
    [] phase = "head" /\ event = "deadline"               -> "timeout"
    [] phase = "head" /\ event = "decode"                 -> "incomplete"
    [] phase = "head" /\ event \notin {"cancel", "deadline", "decode"}
         -> IF idem THEN "lost" ELSE "incomplete"

\* TrackState::sent: the SOCKET - below TLS, where there is TLS - has accepted
\* a byte since the tracker was armed.
Sent(c) == conn[c].sent

(***************************************************************************)
(* limits.rs: the breaker.  A ticket is shared by the request and its      *)
(* dial; the first record wins, and the last handle's drop records Other.  *)
(***************************************************************************)
\* SettleAnyPeriod: evidence of an earlier closed period counts as well.
SettleAnyPeriod(b, t, outcome) ==
  IF t.probe
  THEN CASE outcome = "success" -> [b EXCEPT !.st = "closed", !.failures = 0, !.probing = FALSE]
         [] outcome = "counted" -> [b EXCEPT !.st = "open", !.due = FALSE, !.probing = FALSE]
         [] outcome = "other"   -> [b EXCEPT !.probing = FALSE]
  ELSE IF b.st # "closed" \/ outcome = "other" THEN b
  ELSE IF outcome = "success" THEN [b EXCEPT !.failures = 0]
  ELSE IF b.failures + 1 < Failures THEN [b EXCEPT !.failures = @ + 1]
  ELSE [b EXCEPT !.st = "open", !.failures = 0, !.due = FALSE, !.gen = @ + 1]

\* Breaker::settle
Settle(b, t, outcome) ==
  IF t.probe
  THEN CASE outcome = "success" -> [b EXCEPT !.st = "closed", !.failures = 0, !.probing = FALSE]
         [] outcome = "counted" -> [b EXCEPT !.st = "open", !.due = FALSE, !.probing = FALSE]
         [] outcome = "other"   -> [b EXCEPT !.probing = FALSE]
  ELSE IF t.gen # b.gen \/ b.st # "closed" \/ outcome = "other" THEN b
  ELSE IF outcome = "success" THEN [b EXCEPT !.failures = 0]
  ELSE IF b.failures + 1 < Failures THEN [b EXCEPT !.failures = @ + 1]
  ELSE [b EXCEPT !.st = "open", !.failures = 0, !.due = FALSE, !.gen = @ + 1]

\* TicketInner::record_at, on a breaker and one of its tickets
RecordAt(p, outcome) ==
  IF p.t.recorded \/ outcome = "none" THEN p
  ELSE [b |-> Settle(p.b, p.t, outcome), t |-> [p.t EXCEPT !.recorded = TRUE]]

\* DropSilently: the last handle goes without a word.
DropSilently(p, h) == [p EXCEPT !.t.handles = @ \ {h}]

\* A handle is dropped (Drop for TicketInner when it is the last one).
DropHandle(p, h) ==
  LET t == [p.t EXCEPT !.handles = @ \ {h}] IN
  IF t.handles # {} THEN [b |-> p.b, t |-> t]
  ELSE [b |-> RecordAt([b |-> p.b, t |-> t], "other").b, t |-> NoTicket]

\* The breaker and r's ticket become p.
Breaks(r, p) ==
  /\ brk' = p.b
  /\ tk' = [tk EXCEPT ![r] = p.t]
  /\ period' = IF p.b.st = "closed" THEN period \ {q \in {r} : p.t = NoTicket} ELSE {}

\* failure_outcome: a sent request unanswered for BREAKER_TIMEOUT_MS (`long`).
FailureOutcome(phase, event, long) ==
  IF phase = "sent" /\ event = "deadline" /\ counts # "connect" /\ long
  THEN "counted" ELSE "other"

\* dial_outcome: an established connection is the answer under `connect` only.
DialOutcome(d) ==
  CASE d = "up"      -> IF counts = "connect" THEN "success" ELSE "none"
    [] d = "down"    -> "counted"
    [] d = "refused" -> "none"

\* head_outcome: a 502, 503 or 504 is counted under connect+timeout+5xx.
HeadOutcome(bad) == IF counts = "5xx" /\ bad THEN "counted" ELSE "success"

\* BreakerTicket::recheck
Recheck(r) == tk[r].probe \/ brk.st = "closed"

\* ...which moves an ordinary ticket to the present closed period.
Rechecked(r) ==
  IF tk[r].probe THEN UNCHANGED breaker
  ELSE /\ tk' = [tk EXCEPT ![r].gen = brk.gen]
       /\ period' = period \cup {r}
       /\ UNCHANGED brk

(***************************************************************************)
(* pool.rs: the sub-pool.                                                  *)
(***************************************************************************)
\* notify_waiters: every request waiting in `take` is woken.
NotifyWaiters == woken' = woken \cup {r \in Requests : req[r].pc = "parked"}

\* Drop for ConnSlot: n connections are closed.
Close(n) == live' = live - n /\ NotifyWaiters

Gone(cs) ==
  /\ conn' = [c \in Conns |-> IF c \in cs THEN NewConn ELSE conn[c]]
  /\ since' = SelectSeq(since, LAMBDA c : c \notin cs)

\* PutBackQuietly: a returned connection is not announced.
PutBackQuietly(c) == idle' = Append(idle, c) /\ UNCHANGED woken

\* put_back; checkin makes the connection fresh, return_unused does not.
PutBack(c) == idle' = Append(idle, c) /\ NotifyWaiters

Checkin(c) ==
  /\ PutBack(c)
  /\ since' = Append(SelectSeq(since, LAMBDA d : d # c), c)
  /\ conn' = [conn EXCEPT ![c].age = IF @ = "dead" THEN @ ELSE "fresh"]

ReturnUnused(c) == PutBack(c) /\ UNCHANGED <<conn, since>>

\* What Pools::decide does for r.  The dead connections on top of the stack are
\* popped to be closed; of the next one, `kept`, r may or may not be given use.
Kept == CHOOSE k \in 0..Len(idle) :
          /\ k > 0 => conn[idle[k]].age # "dead"
          /\ \A i \in k + 1..Len(idle) : conn[idle[i]].age = "dead"

Usable(r, c) == conn[c].age = "fresh" \/ (conn[c].age = "old" /\ req[r].idem)

Decision(r) ==
  CASE Kept > 0 /\ Usable(r, idle[Kept])          -> "idle"
    [] Kept < Len(idle) /\ ~(Kept > 0 /\ Usable(r, idle[Kept])) -> "again"
    [] /\ Kept = Len(idle) /\ ~(Kept > 0 /\ Usable(r, idle[Kept]))
       /\ live < MaxConnections /\ dialing < MaxDials -> "dial"
    [] /\ Kept = Len(idle) /\ Kept > 0 /\ ~Usable(r, idle[Kept])
       /\ live >= MaxConnections                   -> "evict"
    [] OTHER                                       -> "wait"

(***************************************************************************)
(* `run`, to its end: the ticket's handle, the gate's slot and everything  *)
(* else the request holds are released when it returns.                    *)
(***************************************************************************)
Ended(r, told) ==
  req' = [req EXCEPT ![r] = [@ EXCEPT !.pc = "done", !.conn = NoConn, !.stop = FALSE,
                                      !.closed = {}, !.why = NoWhy, !.told = told]]

Finish(r, phase, event) ==
  /\ Ended(r, Classify(phase, event, req[r].idem))
  /\ Breaks(r, DropHandle([b |-> brk, t |-> tk[r]], "req"))

Goto(r, pc) == req' = [req EXCEPT ![r].pc = pc]

(***************************************************************************)
(* Admission.                                                              *)
(***************************************************************************)
\* (a) The drain and (b) the breaker refuse: nothing was taken.
Refuse(r) ==
  /\ req[r].pc = "new"
  /\ \/ drain # "no"
     \/ brk.st = "open" /\ ~brk.due
     \/ brk.st = "half" /\ brk.probing
  /\ Ended(r, "unsent")
  /\ UNCHANGED <<counts, breaker, queue, dial, slot, pools, wire, drain, events>>

\* Breaker::admit: an ordinary ticket, or the one probe of a half-open breaker.
Admit(r) ==
  /\ req[r].pc = "new"
  /\ drain = "no"
  /\ \/ /\ brk.st = "closed"
        /\ UNCHANGED brk
        /\ tk' = [tk EXCEPT ![r] = [probe |-> FALSE, gen |-> brk.gen,
                                    recorded |-> FALSE, handles |-> {"req"}]]
        /\ period' = period \cup {r}
     \/ /\ (brk.st = "open" /\ brk.due) \/ (brk.st = "half" /\ ~brk.probing)
        /\ brk' = [brk EXCEPT !.st = "half", !.due = FALSE, !.probing = TRUE]
        /\ tk' = [tk EXCEPT ![r] = [probe |-> TRUE, gen |-> 0,
                                    recorded |-> FALSE, handles |-> {"req"}]]
        /\ UNCHANGED period
  /\ \E idem \in BOOLEAN : req' = [req EXCEPT ![r] = [@ EXCEPT !.pc = "admitted", !.idem = idem]]
  /\ UNCHANGED <<counts, queue, dial, slot, pools, wire, drain, events>>

\* (b) the Retry-After hold, (c) the rate limit, (d) the body budget refuse,
\* or the request is stopped while it waits for its token.
LimitRefuses(r) ==
  /\ req[r].pc = "admitted"
  /\ Finish(r, "before", IF Stopped(r) THEN StopEvent ELSE "limit")
  /\ UNCHANGED <<counts, queue, dial, slot, pools, wire, drain, events>>

\* (e) RequestGate::acquire: a slot, a place in the queue, or queue_full.
SlotsHeld == Cardinality({r \in Requests : req[r].pc \in Waiting})

Acquire(r) ==
  /\ req[r].pc = "admitted"
  /\ \/ /\ SlotsHeld < MaxRequests /\ queue = << >>
        /\ Goto(r, "take")
        /\ UNCHANGED <<queue, breaker>>
     \/ /\ SlotsHeld >= MaxRequests \/ queue # << >>
        /\ Len(queue) < MaxQueued
        /\ queue' = Append(queue, r)
        /\ Goto(r, "queued")
        /\ UNCHANGED breaker
     \/ /\ SlotsHeld >= MaxRequests \/ queue # << >>
        /\ Len(queue) >= MaxQueued
        /\ Finish(r, "before", "limit")
        /\ UNCHANGED queue
  /\ UNCHANGED <<counts, dial, slot, pools, wire, drain, events>>

\* The semaphore hands a freed slot to the head of its queue.
Granted(r) ==
  /\ req[r].pc = "queued"
  /\ SlotsHeld < MaxRequests
  /\ Head(queue) = r
  /\ queue' = Tail(queue)
  /\ Goto(r, "take")
  /\ UNCHANGED <<counts, breaker, dial, slot, pools, wire, drain, events>>

\* A waiter's place in the semaphore's queue goes with its future.
LeaveQueue(r) ==
  \/ \E i \in DOMAIN queue :
       /\ queue[i] = r
       /\ queue' = SubSeq(queue, 1, i - 1) \o SubSeq(queue, i + 1, Len(queue))
  \/ (\A i \in DOMAIN queue : queue[i] # r) /\ UNCHANGED queue

\* A CANCEL or the drain cap, or QUEUE_TIMEOUT_MS or the deadline, ends a wait.
GiveUp(r) ==
  /\ \/ req[r].pc \in {"queued", "parked"}
     \/ req[r].pc = "take" /\ Stopped(r)
  /\ \/ Stopped(r) /\ Finish(r, "before", StopEvent)
     \/ Finish(r, "before", "deadline")
  /\ LeaveQueue(r)
  /\ woken' = woken \ {r}
  /\ UNCHANGED <<counts, dial, slot, live, dialing, idle, conn, since, wire, drain, events>>

(***************************************************************************)
(* Pools::take: register for `changed` and decide under the lock, close    *)
(* what was found stale, and wait if there was nothing.  The future is     *)
(* created before the decision, so what is freed after it wakes r.         *)
(***************************************************************************)
Decide(r) ==
  LET dead == {idle[i] : i \in Kept + 1..Len(idle)} IN
  /\ \/ req[r].pc = "take" /\ ~Stopped(r)
     \/ req[r].pc = "parked" /\ r \in woken
  /\ woken' = woken \ {r}
  /\ CASE Decision(r) = "idle" ->
            /\ idle' = SubSeq(idle, 1, Kept - 1)
            /\ req' = [req EXCEPT ![r] = [@ EXCEPT !.pc = IF dead = {} THEN "got" ELSE "drop",
                                                   !.conn = idle[Kept],
                                                   !.closed = dead]]
            /\ UNCHANGED <<live, dialing, slot>>
       [] Decision(r) = "again" ->
            /\ idle' = SubSeq(idle, 1, Kept)
            /\ req' = [req EXCEPT ![r] = [@ EXCEPT !.pc = "drop", !.closed = dead]]
            /\ UNCHANGED <<live, dialing, slot>>
       [] Decision(r) = "dial" ->
            /\ live' = live + 1
            /\ dialing' = dialing + 1
            /\ slot' = slot \cup {r}
            /\ Goto(r, "slot")
            /\ UNCHANGED idle
       [] Decision(r) = "evict" ->
            /\ idle' = Tail(idle)
            /\ req' = [req EXCEPT ![r] = [@ EXCEPT !.pc = "drop", !.closed = {Head(idle)}]]
            /\ UNCHANGED <<live, dialing, slot>>
       [] Decision(r) = "wait" ->
            Goto(r, "parked") /\ UNCHANGED <<live, dialing, slot, idle>>
  /\ UNCHANGED <<counts, breaker, queue, dial, conn, since, wire, drain, events>>

\* What was popped is dropped outside the lock, and frees its places; then r
\* goes on with the connection it was handed, or decides again.
DropClosed(r) ==
  /\ req[r].pc = "drop"
  /\ req' = [req EXCEPT ![r] = [@ EXCEPT !.closed = {},
                 !.pc = IF req[r].conn = NoConn THEN "take" ELSE "got"]]
  /\ Close(Cardinality(req[r].closed))
  /\ Gone(req[r].closed)
  /\ UNCHANGED <<counts, breaker, queue, dial, slot, dialing, idle, wire, drain, events>>

(***************************************************************************)
(* The breaker is asked again before every send.                           *)
(***************************************************************************)
UseIdle(r) ==
  /\ req[r].pc = "got"
  /\ \/ /\ Recheck(r)
        /\ Rechecked(r)
        /\ Goto(r, "ready")
        /\ UNCHANGED pools
     \/ /\ ~Recheck(r)
        /\ ReturnUnused(req[r].conn)
        /\ Finish(r, "before", "breaker")
        /\ UNCHANGED <<live, dialing>>
  /\ UNCHANGED <<counts, queue, dial, slot, wire, drain, events>>

\* spawn_dial, with a second handle on the ticket; or the slot is given back.
StartDial(r) ==
  /\ req[r].pc = "slot"
  /\ \/ /\ Recheck(r)
        /\ UNCHANGED brk
        /\ tk' = [tk EXCEPT ![r] = [@ EXCEPT !.handles = {"req", "dial"},
                                             !.gen = IF tk[r].probe THEN 0 ELSE brk.gen]]
        /\ period' = IF tk[r].probe THEN period ELSE period \cup {r}
        /\ dial' = [dial EXCEPT ![r].st = "running"]
        /\ Goto(r, "dialing")
        /\ UNCHANGED <<slot, pools>>
     \/ /\ ~Recheck(r)
        /\ slot' = slot \ {r}
        /\ dialing' = dialing - 1
        /\ Close(1)
        /\ Finish(r, "before", "breaker")
        /\ UNCHANGED <<dial, idle, conn, since>>
  /\ UNCHANGED <<counts, queue, wire, drain, events>>

(***************************************************************************)
(* The detached dial: it connects or fails within the engine's own bound,  *)
(* records what that says of the upstream, and only then frees its places, *)
(* drops its ticket and answers - or, its requester gone, pools.           *)
(***************************************************************************)
Dials(r, st, c) == dial' = [dial EXCEPT ![r] = [st |-> st, conn |-> c]]

\* DialConnectsFrees: the connection's place goes with the dial's.
DialConnectsFrees(r) ==
  /\ dial[r].st = "running"
  /\ \E c \in Conns \ InUse :
       /\ Dials(r, "up", c)
       /\ conn' = [conn EXCEPT ![c] = NewConn]
       /\ since' = Append(since, c)
  /\ slot' = slot \ {r}
  /\ dialing' = dialing - 1
  /\ Close(1)
  /\ UNCHANGED <<counts, breaker, req, queue, idle, wire, drain, events>>

DialConnects(r) ==
  /\ dial[r].st = "running"
  /\ \E c \in Conns \ InUse :
       /\ Dials(r, "up", c)
       /\ conn' = [conn EXCEPT ![c] = NewConn]
       /\ since' = Append(since, c)
  /\ slot' = slot \ {r}
  /\ dialing' = dialing - 1
  /\ NotifyWaiters
  /\ UNCHANGED <<counts, breaker, req, queue, live, idle, wire, drain, events>>

\* DialFailsFrees: a failed dial's places are free before it has reported.
DialFailsFrees(r) ==
  /\ dial[r].st = "running"
  /\ \E st \in {"down", "refused"} : Dials(r, st, NoConn)
  /\ slot' = slot \ {r}
  /\ dialing' = dialing - 1
  /\ Close(1)
  /\ UNCHANGED <<counts, breaker, req, queue, idle, conn, since, wire, drain, events>>

\* DNS, TCP, or the handshake fails; or the address or the certificate is refused.
DialFails(r) ==
  /\ dial[r].st = "running"
  /\ \E st \in {"down", "refused"} : Dials(r, st, NoConn)
  /\ UNCHANGED <<counts, breaker, req, queue, slot, pools, wire, drain, events>>

DialRecords(r) ==
  /\ dial[r].st \in {"up", "down", "refused"}
  /\ Breaks(r, RecordAt([b |-> brk, t |-> tk[r]], DialOutcome(dial[r].st)))
  /\ dial' = [dial EXCEPT ![r].st =
               CASE @ = "up" -> "upTold" [] @ = "down" -> "downTold" [] @ = "refused" -> "refusedTold"]
  /\ UNCHANGED <<counts, req, queue, slot, pools, wire, drain, events>>

DialEnds(r) ==
  /\ dial[r].st \in {"upTold", "downTold", "refusedTold"}
  /\ Breaks(r, DropHandle([b |-> brk, t |-> tk[r]], "dial"))
  /\ slot' = slot \ {r}
  /\ dialing' = IF r \in slot THEN dialing - 1 ELSE dialing
  /\ live' = IF r \in slot THEN live - 1 ELSE live
  /\ IF req[r].pc = "dialing"
     THEN /\ dial' = [dial EXCEPT ![r].st =
                       CASE @ = "upTold" -> "answer" [] @ = "downTold" -> "lost"
                         [] @ = "refusedTold" -> "policy"]
          /\ (IF r \in slot THEN NotifyWaiters ELSE UNCHANGED woken)
          /\ UNCHANGED <<idle, conn, since>>
     ELSE /\ Dials(r, "over", NoConn)
          /\ IF dial[r].conn # NoConn THEN Checkin(dial[r].conn)
             ELSE NotifyWaiters /\ UNCHANGED <<idle, conn, since>>
  /\ UNCHANGED <<counts, req, queue, wire, drain, events>>

\* The requester receives the dial's answer.
Dialled(r) ==
  /\ req[r].pc = "dialing"
  /\ \/ /\ dial[r].st = "answer"
        /\ req' = [req EXCEPT ![r] = [@ EXCEPT !.pc = "ready", !.conn = dial[r].conn]]
        /\ UNCHANGED breaker
     \/ /\ dial[r].st \in {"lost", "policy"}
        /\ Finish(r, "before", dial[r].st)
  /\ Dials(r, "over", NoConn)
  /\ UNCHANGED <<counts, queue, slot, pools, wire, drain, events>>

\* ...or ends waiting for it (`rescue`): an answer that has come all the same
\* is pooled, and one still to come the dial task will pool.
LeaveDial(r) ==
  /\ req[r].pc = "dialing"
  /\ \/ Stopped(r) /\ Finish(r, "before", StopEvent)
     \/ Finish(r, "before", "deadline")
  /\ IF dial[r].st \in {"answer", "lost", "policy"}
     THEN /\ Dials(r, "over", NoConn)
          /\ IF dial[r].st = "answer" THEN Checkin(dial[r].conn)
             ELSE UNCHANGED <<idle, conn, since, woken>>
     ELSE UNCHANGED <<dial, idle, conn, since, woken>>
  /\ UNCHANGED <<counts, queue, slot, live, dialing, wire, drain, events>>

(***************************************************************************)
(* Dispatch: a stop or the deadline is honoured before the request is      *)
(* given to hyper; then the tracker is armed and hyper's task writes.      *)
(***************************************************************************)
NotDispatched(r) ==
  /\ req[r].pc = "ready"
  /\ \/ Stopped(r) /\ Finish(r, "before", StopEvent)
     \/ ~Stopped(r) /\ Finish(r, "before", "deadline")
  /\ ReturnUnused(req[r].conn)
  /\ UNCHANGED <<counts, queue, dial, slot, live, dialing, wire, drain, events>>

Dispatch(r) ==
  /\ req[r].pc = "ready"
  /\ ~Stopped(r)
  /\ conn' = [conn EXCEPT ![req[r].conn].sent = FALSE]
  /\ since' = SelectSeq(since, LAMBDA c : c # req[r].conn)
  /\ Goto(r, "dispatched")
  /\ UNCHANGED <<counts, breaker, queue, dial, slot, live, dialing, idle, woken, wire,
                 drain, events>>

\* hyper's connection task writes, whatever `run` is doing, until it is gone.
Writes(r) ==
  /\ req[r].pc \in {"dispatched", "closing"}
  /\ ~Sent(req[r].conn)
  /\ conn' = [conn EXCEPT ![req[r].conn].sent = TRUE]
  /\ wire' = wire \cup {r}
  /\ UNCHANGED <<counts, breaker, req, queue, dial, slot, live, dialing, idle, since,
                 woken, drain, events>>

\* DiscardReadsFirst: `sent` is read before the task has been stopped.
DiscardReadsFirst(r, phase, event) ==
  /\ req' = [req EXCEPT ![r] = [@ EXCEPT !.pc = "closing",
               !.why = [phase |-> IF phase # "open" THEN phase
                                  ELSE IF Sent(req[r].conn) THEN "sent" ELSE "unsent",
                        event |-> event]]]
  /\ UNCHANGED <<counts, queue, dial, slot, pools, wire, drain, events>>

\* The connection is to be discarded, and why: HttpConn::discard begins.
Discard(r, phase, event) ==
  /\ req' = [req EXCEPT ![r] = [@ EXCEPT !.pc = "closing",
                                         !.why = [phase |-> phase, event |-> event]]]
  /\ UNCHANGED <<counts, queue, dial, slot, pools, wire, drain, events>>

\* The exchange fails, is stopped, or runs out of time before a head.
NoHead(r) ==
  /\ req[r].pc = "dispatched"
  /\ \/ Discard(r, "open", "link")
     \/ Discard(r, "open", "deadline")
     \/ Stopped(r) /\ Discard(r, "open", StopEvent)
  /\ UNCHANGED breaker

\* A head comes.  While nothing was sent it is no answer: the upstream spoke
\* first.  A 101 or an oversize one is malformed; any other is recorded, and the
\* body follows unless the response is already too long.
HeadArrives(r) ==
  /\ req[r].pc = "dispatched"
  /\ \/ ~Sent(req[r].conn) /\ Discard(r, "open", "link") /\ UNCHANGED breaker
     \/ Sent(req[r].conn) /\ Discard(r, "sent", "link") /\ UNCHANGED breaker
     \/ /\ Sent(req[r].conn)
        /\ \E bad \in BOOLEAN : Breaks(r, RecordAt([b |-> brk, t |-> tk[r]], HeadOutcome(bad)))
        /\ \/ Discard(r, "head", "decode")
           \/ /\ Goto(r, "body")
              /\ UNCHANGED <<counts, queue, dial, slot, pools, wire, drain, events>>

\* The body (or handing it on) fails, stalls, or is stopped.
BodyFails(r) ==
  /\ req[r].pc = "body"
  /\ \/ \E event \in {"link", "decode", "deadline"} : Discard(r, "head", event)
     \/ Stopped(r) /\ Discard(r, "head", StopEvent)
  /\ UNCHANGED breaker

\* The body ends: the connection is pooled before the terminal is declared, or
\* discarded if it closes or is not ready again.
BodyEnds(r) ==
  /\ req[r].pc = "body"
  /\ Ended(r, "done")
  /\ Breaks(r, DropHandle([b |-> brk, t |-> tk[r]], "req"))
  /\ \/ Checkin(req[r].conn) /\ UNCHANGED live
     \/ Close(1) /\ Gone({req[r].conn}) /\ UNCHANGED idle
  /\ UNCHANGED <<counts, queue, dial, slot, dialing, wire, drain, events>>

\* The task has been aborted AND awaited: only now is `sent` final.
Discarded(r) ==
  LET sent  == Sent(req[r].conn)
      phase == CASE req[r].why.phase # "open" -> req[r].why.phase
                 [] req[r].why.phase = "open" -> IF sent THEN "sent" ELSE "unsent"
  IN /\ req[r].pc = "closing"
     /\ Ended(r, Classify(phase, req[r].why.event, req[r].idem))
     /\ \E long \in BOOLEAN :
          LET out == FailureOutcome(phase, req[r].why.event, long)
              rec == IF out = "counted" THEN RecordAt([b |-> brk, t |-> tk[r]], out)
                     ELSE [b |-> brk, t |-> tk[r]]
          IN Breaks(r, DropHandle(rec, "req"))
     /\ Close(1)
     /\ Gone({req[r].conn})
     /\ UNCHANGED <<counts, queue, dial, slot, dialing, idle, wire, drain, events>>

(***************************************************************************)
(* Around the requests.                                                    *)
(***************************************************************************)
\* The breaker's open time is up: its next `admit` makes it half-open.
OpenElapses ==
  /\ brk.st = "open"
  /\ ~brk.due
  /\ brk' = [brk EXCEPT !.due = TRUE]
  /\ UNCHANGED <<counts, tk, period, req, queue, dial, slot, pools, wire, drain, events>>

\* A CANCEL for a request that is being served.
CancelArrives(r) ==
  /\ events < MaxEvents
  /\ req[r].pc \notin {"new", "done", "gone"}
  /\ ~req[r].stop
  /\ events' = events + 1
  /\ req' = [req EXCEPT ![r].stop = TRUE]
  /\ UNCHANGED <<counts, breaker, queue, dial, slot, pools, wire, drain>>

\* The daemon begins to drain, and FERRO_HTTP_DRAIN_MS later ends what is left.
Drains ==
  /\ \/ drain = "no" /\ events < MaxEvents /\ drain' = "draining" /\ events' = events + 1
     \/ drain = "draining" /\ drain' = "capped" /\ UNCHANGED events
  /\ UNCHANGED <<counts, breaker, req, queue, dial, slot, pools, wire>>

\* H1_UNSAFE_REUSE_MAX_IDLE_MS passes for c, and for all that are idler.
Ages(c) ==
  /\ events < MaxEvents
  /\ conn[c].age = "fresh"
  /\ \E k \in DOMAIN since :
       /\ since[k] = c
       /\ LET idler == {since[i] : i \in 1..k} IN
          conn' = [d \in Conns |-> IF d \in idler /\ conn[d].age = "fresh"
                                  THEN [conn[d] EXCEPT !.age = "old"] ELSE conn[d]]
  /\ events' = events + 1
  /\ UNCHANGED <<counts, breaker, req, queue, dial, slot, live, dialing, idle, since,
                 woken, wire, drain>>

\* An idle connection reaches its idle limit or its lifetime, or the upstream
\* closes it.
Dies(c) ==
  /\ events < MaxEvents
  /\ c \in Stack
  /\ conn[c].age # "dead"
  /\ conn' = [conn EXCEPT ![c].age = "dead"]
  /\ events' = events + 1
  /\ UNCHANGED <<counts, breaker, req, queue, dial, slot, live, dialing, idle, since,
                 woken, wire, drain>>

\* The handler declares the terminal it was given.
Declare(r) ==
  /\ req[r].pc = "done"
  /\ req' = [req EXCEPT ![r] = [@ EXCEPT !.pc = "gone", !.idem = FALSE, !.told = "none"]]
  /\ wire' = wire \ {r}
  /\ UNCHANGED <<counts, breaker, queue, dial, slot, pools, drain, events>>

Done ==
  /\ \A r \in Requests : req[r].pc = "gone" /\ dial[r].st \in {"none", "over"}
  /\ UNCHANGED vars

Step(r) ==
  \/ Refuse(r) \/ Admit(r) \/ LimitRefuses(r) \/ Acquire(r) \/ Granted(r)
  \/ GiveUp(r) \/ Decide(r) \/ DropClosed(r)
  \/ UseIdle(r) \/ StartDial(r) \/ Dialled(r) \/ LeaveDial(r)
  \/ NotDispatched(r) \/ Dispatch(r) \/ NoHead(r) \/ HeadArrives(r)
  \/ BodyFails(r) \/ BodyEnds(r) \/ Discarded(r) \/ Declare(r)

DialStep(r) ==
  DialConnects(r) \/ DialFails(r) \/ DialRecords(r) \/ DialEnds(r)

Next ==
  \/ \E r \in Requests : Step(r) \/ DialStep(r) \/ Writes(r) \/ CancelArrives(r)
  \/ \E c \in Conns : Ages(c) \/ Dies(c)
  \/ OpenElapses
  \/ Drains
  \/ Done

Spec == Init /\ [][Next]_vars

(***************************************************************************)
(* Properties.                                                             *)
(***************************************************************************)
TypeOK ==
  /\ brk \in [st : {"closed", "open", "half"}, failures : 0..Failures - 1,
              due : BOOLEAN, probing : BOOLEAN, gen : Nat]
  /\ \A r \in Requests :
       /\ req[r].conn \in Conns \cup {NoConn}
       /\ req[r].told \in {"none", "unsent", "cancelled", "forbidden", "unconfirmed",
                           "timeout", "lost", "incomplete", "done"}
       /\ tk[r].handles \subseteq {"req", "dial"}
  /\ live \in 0..MaxConnections
  /\ dialing \in 0..MaxDials
  /\ SlotsHeld <= MaxRequests
  /\ Len(queue) <= MaxQueued

\* What a client is told is what happened on the wire (fate.rs; the engine
\* reads `sent` only after HttpConn::discard): a request said to be unsent, or
\* refused, had no byte accepted by the socket and none will follow; and one
\* said to be unconfirmed, timed out, incomplete or done did leave.
FateIsTrue ==
  \A r \in Requests :
    /\ req[r].told \in {"unsent", "forbidden"} => r \notin wire
    /\ req[r].told \in {"unconfirmed", "timeout", "lost", "incomplete", "done"}
         => r \in wire
    /\ req[r].told = "unconfirmed" => ~req[r].idem
    /\ req[r].told = "lost" => req[r].idem

\* The half-open breaker's one probe slot is held exactly while one probe's
\* outcome is open and somebody - the request, or the dial it left behind -
\* still holds its ticket: never two probes, never a slot no one will release.
ProbeAccounted ==
  LET probes == {r \in Requests : tk[r].probe /\ ~tk[r].recorded}
  IN /\ Cardinality(probes) = IF brk.st = "half" /\ brk.probing THEN 1 ELSE 0
     /\ \A r \in probes : tk[r].handles # {}

\* A closed breaker opens only on the outcome of a request let through in this
\* closed period: stragglers of an earlier one cannot trip it (TicketKind::Closed
\* carries the generation).
OpensOnFreshEvidence ==
  [][brk.st = "closed" /\ brk'.st = "open"
       => \E r \in period : ~tk[r].recorded /\ tk'[r].recorded]_vars

\* Every connection is in one place only, and SubShared.live and .dialing count
\* the connections and the dials there are, requesters gone or not.
ConnectionsConserved ==
  /\ live = Cardinality(InUse \ {NoConn}) + Cardinality(slot)
  /\ dialing = Cardinality(slot)
  /\ Cardinality(Stack) = Len(idle)
  /\ \A r, q \in Requests :
       /\ req[r].conn # NoConn =>
            /\ req[r].conn \notin Stack
            /\ req[r].conn # dial[q].conn
            /\ r # q => req[r].conn # req[q].conn
       /\ dial[r].conn # NoConn =>
            /\ dial[r].conn \notin Stack
            /\ r # q => dial[r].conn # dial[q].conn

\* A request asleep in Pools::take, its wake-up not on the way, could not be given
\* a dial, nor room made for one; and a connection only while MAX_DIALS dials are
\* under way, each of which wakes it when it ends (the pop that uncovers a usable
\* connection is not announced).
NoLostWakeup ==
  \A r \in Requests :
    req[r].pc = "parked" /\ r \notin woken =>
      \/ Decision(r) \in {"wait", "again"}
      \/ Decision(r) = "idle" /\ dialing >= MaxDials

\* A freed dial place is never used in ignorance of the failure that freed it
\* (spawn_dial records before it drops the slot): when an ordinary dial starts,
\* the failures counted and those still to be counted whose places are already
\* free leave the breaker closed.
FailureSeenFirst ==
  [][\A r \in Requests :
       dial[r].st = "none" /\ dial'[r].st = "running" /\ ~tk[r].probe
         => brk.failures + Cardinality({q \in period : dial[q].st = "down" /\ q \notin slot})
              < Failures]_vars
=============================================================================
