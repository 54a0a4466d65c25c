-------------------------- MODULE HttpEngineProofs --------------------------
(***************************************************************************)
(* Proofs about HttpEngine: what a client is told of its request is what   *)
(* happened on the wire, connections, dials, slots and the breaker's probe *)
(* are accounted for, and no wake-up is lost, for any requests, any        *)
(* connections and any limits.                                             *)
(***************************************************************************)
EXTENDS HttpEngine, TLAPS, FiniteSetTheorems, WellFoundedInduction

-----------------------------------------------------------------------------
(* Types.                                                                  *)

Pcs == Waiting \cup {"new", "admitted", "queued", "done", "gone"}
Tolds == {"none", "unsent", "cancelled", "forbidden", "unconfirmed", "timeout", "lost",
          "incomplete", "done"}
StopEvents == {"cancel", "drain"}
Whys == [phase : {"none", "open", "sent", "head"},
         event : {"none", "link", "deadline", "decode"} \cup StopEvents]
ReqType == [pc : Pcs, idem : BOOLEAN, conn : Conns \cup {NoConn}, stop : BOOLEAN,
            closed : SUBSET Conns, why : Whys, told : Tolds]
Running == {"running", "down", "refused", "downTold", "refusedTold"}
Connected == {"up", "upTold"}
Answered == {"answer", "lost", "policy"}
DialType == [st : Running \cup Connected \cup Answered \cup {"none", "over"},
             conn : Conns \cup {NoConn}]
ConnType == [age : {"fresh", "old", "dead"}, sent : BOOLEAN]
Breaker == [st : {"closed", "open", "half"}, failures : 0..Failures - 1,
            due : BOOLEAN, probing : BOOLEAN, gen : Nat]
Ticket == [probe : BOOLEAN, gen : Nat, recorded : BOOLEAN, handles : SUBSET {"req", "dial"}]

BreakerTypes == brk \in Breaker /\ tk \in [Requests -> Ticket] /\ period \in SUBSET Requests
RequestTypes ==
  /\ counts \in {"connect", "timeout", "5xx"}
  /\ req \in [Requests -> ReqType]
  /\ dial \in [Requests -> DialType]
  /\ drain \in {"no", "draining", "capped"}
PoolTypes ==
  /\ slot \in SUBSET Requests /\ woken \in SUBSET Requests
  /\ live \in Int /\ dialing \in Int
  /\ idle \in Seq(Conns) /\ conn \in [Conns -> ConnType]
Types == BreakerTypes /\ RequestTypes /\ PoolTypes

-----------------------------------------------------------------------------
(* Where a request is decides what it holds, what its dial is doing and    *)
(* which handles there are on its ticket.                                  *)

Carrying == {"got", "ready", "dispatched", "body", "closing"}
Undialled == {"new", "admitted", "queued", "take", "drop", "parked", "got", "slot"}
Over == {"new", "done", "gone"}
Held(r) ==
  /\ req[r].pc \in Carrying => req[r].conn # NoConn
  /\ req[r].conn # NoConn => req[r].pc \in Carrying \cup {"drop"}
  /\ req[r].closed # {} => req[r].pc = "drop"
  /\ req[r].conn \notin req[r].closed
  /\ req[r].told # "none" => req[r].pc = "done"
  /\ req[r].pc \in Undialled => dial[r].st = "none"
  /\ req[r].pc \in Carrying => dial[r].st \in {"none", "over"}
  /\ req[r].pc = "dialing" => dial[r].st \notin {"none", "over"}
  /\ dial[r].st \in Answered => req[r].pc = "dialing"
  /\ dial[r].conn # NoConn <=> dial[r].st \in Connected \cup {"answer"}
  /\ r \in slot <=> req[r].pc = "slot" \/ dial[r].st \in Running
  /\ "req" \in tk[r].handles <=> req[r].pc \notin Over
  /\ "dial" \in tk[r].handles <=> dial[r].st \in Running \cup Connected
  /\ tk[r].handles = {} => tk[r] = NoTicket
HeldInv == \A r \in Requests : Held(r)

(* The gate: a request is queued exactly while it is in the FIFO, once,    *)
(* and no more than MAX_REQUESTS are beyond it.                            *)
Beyond == {r \in Requests : req[r].pc \in Waiting}
GateInv ==
  /\ queue \in Seq(Requests)
  /\ Len(queue) <= MaxQueued
  /\ \A r \in Requests : req[r].pc = "queued" <=> \E i \in 1..Len(queue) : queue[i] = r
  /\ \A i, j \in 1..Len(queue) : queue[i] = queue[j] => i = j
  /\ IsFiniteSet(Beyond) /\ Cardinality(Beyond) <= MaxRequests

-----------------------------------------------------------------------------
(* The breaker: its one probe, and tickets of the present closed period.   *)

Probing(r) == tk[r].probe /\ ~tk[r].recorded
ProbeInv ==
  /\ \A r, q \in Requests : Probing(r) /\ Probing(q) => r = q
  /\ brk.probing <=> \E r \in Requests : Probing(r)
  /\ brk.probing => brk.st = "half"
Undecided(r) == ~tk[r].probe /\ ~tk[r].recorded
PeriodInv ==
  \A r \in Requests : Undecided(r) =>
    /\ tk[r].gen <= brk.gen
    /\ brk.st # "closed" => tk[r].gen < brk.gen
    /\ tk[r].gen = brk.gen => r \in period
BreakerInv == ProbeInv /\ PeriodInv

-----------------------------------------------------------------------------
(* Connections: each is in one place, and all of them are counted.         *)

Mine(r) == ({req[r].conn, dial[r].conn} \cup req[r].closed) \ {NoConn}
Owned == InUse \ {NoConn}
ApartInv ==
  /\ \A i, j \in 1..Len(idle) : idle[i] = idle[j] => i = j
  /\ \A r \in Requests : Mine(r) \cap Stack = {}
  /\ \A r, q \in Requests : r # q => Mine(r) \cap Mine(q) = {}
CountInv ==
  /\ IsFiniteSet(Owned) /\ IsFiniteSet(slot)
  /\ live = Cardinality(Owned) + Cardinality(slot)
  /\ dialing = Cardinality(slot)
  /\ live <= MaxConnections /\ dialing <= MaxDials

-----------------------------------------------------------------------------
(* The wire: a request has been written exactly if its tracker says so.    *)

Unsent == Undialled \cup {"dialing", "ready"}
Wired(r) ==
  /\ req[r].pc \in Unsent => r \notin wire
  /\ req[r].pc \in {"dispatched", "body", "closing"} =>
       (r \in wire <=> conn[req[r].conn].sent)
  /\ req[r].pc = "body" => r \in wire
  /\ req[r].pc = "closing" =>
       /\ req[r].why.phase # "none" /\ req[r].why.event # "none"
       /\ req[r].why.phase = "open" => req[r].why.event # "decode"
       /\ req[r].why.phase # "open" => r \in wire
  /\ req[r].told \in {"unsent", "forbidden"} => r \notin wire
  /\ req[r].told \in {"unconfirmed", "timeout", "lost", "incomplete", "done"}
       => r \in wire
  /\ req[r].told = "unconfirmed" => ~req[r].idem
  /\ req[r].told = "lost" => req[r].idem
WireInv == \A r \in Requests : Wired(r)

-----------------------------------------------------------------------------
(* A sleeper waits for a dial to end, or for anything at all to come back. *)

Asleep(r) == req[r].pc = "parked" /\ r \notin woken
Stuck ==
  \/ live < MaxConnections /\ dialing >= MaxDials
  \/ live >= MaxConnections /\ idle = << >>
SleepInv == \A r \in Requests : Asleep(r) => Stuck

IInv ==
  Types /\ HeldInv /\ GateInv /\ BreakerInv /\ ApartInv /\ CountInv /\ WireInv /\ SleepInv
-----------------------------------------------------------------------------
(* The breaker and its tickets.                                            *)

Outcomes == {"success", "counted", "other"}

(* Breaker::settle: a probe closes or opens the breaker or gives its slot  *)
(* back; another ticket matters only to the closed period it is of.        *)
LEMMA SettleFacts ==
  ASSUME NEW b \in Breaker, NEW t \in Ticket, NEW o \in Outcomes
  PROVE  /\ Settle(b, t, o) \in Breaker
         /\ t.probe => /\ Settle(b, t, o).probing = FALSE
                       /\ Settle(b, t, o).gen = b.gen
                       /\ Settle(b, t, o).st \in {b.st, "closed", "open"}
         /\ ~t.probe =>
              \/ Settle(b, t, o) = b
              \/ /\ b.st = "closed" /\ t.gen = b.gen
                 /\ Settle(b, t, o).probing = b.probing
                 /\ \/ Settle(b, t, o).st = "closed" /\ Settle(b, t, o).gen = b.gen
                    \/ Settle(b, t, o).st = "open" /\ Settle(b, t, o).gen = b.gen + 1
<1> DEFINE s == Settle(b, t, o)
<1>0. Failures \in Nat \ {0}
  BY HttpAssumption
<1>1. CASE t.probe
  <2>1. CASE o = "success"
    <3>1. s = [b EXCEPT !.st = "closed", !.failures = 0, !.probing = FALSE]
      BY <1>1, <2>1, Zenon DEF Settle
    <3> HIDE DEF s
    <3>2. s.st = "closed" /\ s.failures = 0 /\ s.probing = FALSE /\ s.gen = b.gen
          /\ s.due = b.due
      BY <3>1 DEF Breaker
    <3>3. 0 \in 0..Failures - 1
      BY <1>0
    <3>4. s \in Breaker
      BY <3>1, <3>3 DEF Breaker
    <3> QED BY <1>1, <3>2, <3>4 DEF s
  <2>2. CASE o = "counted"
    <3>1. s = [b EXCEPT !.st = "open", !.due = FALSE, !.probing = FALSE]
      BY <1>1, <2>2, Zenon DEF Settle
    <3> QED BY <1>0, <1>1, <3>1 DEF Breaker
  <2>3. CASE o = "other"
    <3>1. s = [b EXCEPT !.probing = FALSE]
      BY <1>1, <2>3, Zenon DEF Settle
    <3> QED BY <1>0, <1>1, <3>1 DEF Breaker
  <2> QED BY <2>1, <2>2, <2>3 DEF Outcomes
<1>2. CASE ~t.probe /\ (t.gen # b.gen \/ b.st # "closed" \/ o = "other")
  <2>1. s = b
    BY <1>2, Zenon DEF Settle
  <2> QED BY <1>2, <2>1
<1>3. CASE ~t.probe /\ ~(t.gen # b.gen \/ b.st # "closed" \/ o = "other")
  <2>1. CASE o = "success"
    <3>1. s = [b EXCEPT !.failures = 0]
      BY <1>3, <2>1, Zenon DEF Settle
    <3> QED BY <1>0, <1>3, <3>1 DEF Breaker
  <2>2. CASE o # "success" /\ b.failures + 1 < Failures
    <3>1. s = [b EXCEPT !.failures = @ + 1]
      BY <1>3, <2>2, Zenon DEF Settle
    <3> QED BY <1>0, <1>3, <2>2, <3>1 DEF Breaker
  <2>3. CASE o # "success" /\ ~(b.failures + 1 < Failures)
    <3>1. s = [b EXCEPT !.st = "open", !.failures = 0, !.due = FALSE, !.gen = @ + 1]
      BY <1>3, <2>3, Zenon DEF Settle
    <3> HIDE DEF s
    <3>2. s.st = "open" /\ s.gen = b.gen + 1 /\ s.probing = b.probing
      BY <3>1 DEF Breaker
    <3>3. 0 \in 0..Failures - 1
      BY <1>0
    <3>4. s \in Breaker
      <4>1. PICK c \in Breaker : c = [b EXCEPT !.st = "open", !.failures = 0, !.due = FALSE]
        BY <3>3 DEF Breaker
      <4>2. s = [c EXCEPT !.gen = @ + 1]
        BY <3>1, <4>1 DEF Breaker
      <4>3. PICK n \in Nat : n = c.gen + 1
        BY DEF Breaker
      <4>4. s = [c EXCEPT !.gen = n]
        BY <4>2, <4>3
      <4> QED BY <4>4 DEF Breaker
    <3> QED BY <1>3, <3>2, <3>4 DEF s
  <2> QED BY <2>1, <2>2, <2>3
<1> QED BY <1>1, <1>2, <1>3

(* What recording and dropping do to the breaker b and the ticket t: the   *)
(* outcome of an open ticket is settled once, and stays.                   *)
Settles(b, t, s, u) ==
  \/ s = b /\ u.probe = t.probe /\ u.gen = t.gen /\ u.recorded = t.recorded
  \/ s = b /\ t.recorded /\ u.recorded
  \/ ~t.recorded /\ u.recorded /\ \E o \in Outcomes : s = Settle(b, t, o)

LEMMA RecordFacts ==
  ASSUME NEW b \in Breaker, NEW t \in Ticket, NEW o \in Outcomes \cup {"none"}
  PROVE  \E s \in Breaker, u \in Ticket :
           /\ RecordAt([b |-> b, t |-> t], o) = [b |-> s, t |-> u]
           /\ u.handles = t.handles /\ u.probe = t.probe /\ u.gen = t.gen
           /\ Settles(b, t, s, u)
           /\ t.recorded \/ o = "none" => s = b /\ u = t
<1> DEFINE p == [b |-> b, t |-> t]
<1>1. p.b = b /\ p.t = t
  OBVIOUS
<1>2. CASE t.recorded \/ o = "none"
  <2>1. RecordAt(p, o) = [b |-> b, t |-> t]
    BY <1>1, <1>2, Zenon DEF RecordAt
  <2> QED BY <1>2, <2>1 DEF Settles
<1>3. CASE ~(t.recorded \/ o = "none")
  <2> DEFINE s == Settle(b, t, o)
  <2>1. PICK u : u = [t EXCEPT !.recorded = TRUE]
    OBVIOUS
  <2>2. RecordAt(p, o) = [b |-> s, t |-> u]
    BY <1>1, <1>3, <2>1, Zenon DEF RecordAt
  <2>3. u \in Ticket /\ u.handles = t.handles /\ u.probe = t.probe /\ u.gen = t.gen /\ u.recorded
    BY <2>1 DEF Ticket
  <2>4. o \in Outcomes
    BY <1>3
  <2>5. s \in Breaker
    BY <2>4, SettleFacts
  <2> QED BY <1>3, <2>2, <2>3, <2>4, <2>5 DEF Settles
<1> QED BY <1>2, <1>3

(* Drop for TicketInner: the last handle gone, the ticket is settled.      *)
LEMMA DropFacts ==
  ASSUME NEW b \in Breaker, NEW t \in Ticket, NEW h \in {"req", "dial"}
  PROVE  \E s \in Breaker, u \in Ticket :
           /\ DropHandle([b |-> b, t |-> t], h) = [b |-> s, t |-> u]
           /\ u.handles = t.handles \ {h}
           /\ u.handles = {} => u = NoTicket
           /\ Settles(b, t, s, u)
           /\ s.st = "open" => b.st = "open"
<1> DEFINE p == [b |-> b, t |-> t]
<1>1. p.b = b /\ p.t = t
  OBVIOUS
<1>2. PICK v : v = [t EXCEPT !.handles = @ \ {h}]
  OBVIOUS
<1>3. v \in Ticket /\ v.handles = t.handles \ {h} /\ v.recorded = t.recorded
      /\ v.probe = t.probe /\ v.gen = t.gen
  BY <1>2 DEF Ticket
<1>4. CASE v.handles # {}
  <2>1. DropHandle(p, h) = [b |-> b, t |-> v]
    BY <1>1, <1>2, <1>4, Zenon DEF DropHandle
  <2> QED BY <1>3, <1>4, <2>1 DEF Settles
<1>5. CASE v.handles = {}
  <2>1. DropHandle(p, h) = [b |-> RecordAt([b |-> b, t |-> v], "other").b, t |-> NoTicket]
    BY <1>1, <1>2, <1>5, Zenon DEF DropHandle
  <2>2. NoTicket \in Ticket /\ NoTicket.handles = {} /\ NoTicket.recorded
    BY DEF NoTicket, Ticket
  <2>3. CASE t.recorded
    <3>1. RecordAt([b |-> b, t |-> v], "other") = [b |-> b, t |-> v]
      <4>1. [b |-> b, t |-> v].t.recorded
        BY <1>3, <2>3
      <4> QED BY <4>1, Zenon DEF RecordAt
    <3>2. DropHandle(p, h) = [b |-> b, t |-> NoTicket]
      BY <2>1, <3>1
    <3> QED BY <1>3, <1>5, <2>2, <2>3, <3>2 DEF Settles
  <2>4. CASE ~t.recorded
    <3> DEFINE s == Settle(b, v, "other")
    <3>1. RecordAt([b |-> b, t |-> v], "other").b = s
      <4> DEFINE w == [b |-> b, t |-> v]
      <4>1. w.b = b /\ w.t = v /\ ~w.t.recorded
        BY <1>3, <2>4
      <4>2. RecordAt(w, "other") = [b |-> s, t |-> [v EXCEPT !.recorded = TRUE]]
        BY <4>1, Zenon DEF RecordAt
      <4> QED BY <4>2
    <3>2. s = Settle(b, t, "other")
      BY <1>3, Zenon DEF Settle
    <3>3. "other" \in Outcomes
      BY DEF Outcomes
    <3>4. s \in Breaker
      BY <1>3, <3>3, SettleFacts
    <3>5. s.st = b.st
      <4>1. CASE v.probe
        <5>1. s = [b EXCEPT !.probing = FALSE]
          BY <4>1, Zenon DEF Settle
        <5> QED BY <5>1 DEF Breaker
      <4>2. CASE ~v.probe
        <5>1. s = b
          BY <4>2, Zenon DEF Settle
        <5> QED BY <5>1
      <4> QED BY <4>1, <4>2
    <3>6. DropHandle(p, h) = [b |-> s, t |-> NoTicket]
      BY <2>1, <3>1
    <3> QED BY <1>3, <1>5, <2>2, <2>4, <3>2, <3>3, <3>4, <3>5, <3>6 DEF Settles
  <2> QED BY <2>3, <2>4
<1> QED BY <1>4, <1>5

(* A closed breaker opens only on a ticket of its present period.          *)
FreshStep ==
  brk.st = "closed" /\ brk'.st = "open"
    => \E r \in period : ~tk[r].recorded /\ tk'[r].recorded
BreakerOk == BreakerTypes' /\ BreakerInv' /\ FreshStep

(* r's ticket is left with the handles hs, and is none without any.        *)
Handles(r, hs) ==
  \E u \in Ticket : /\ tk' = [tk EXCEPT ![r] = u]
                    /\ u.handles = hs
                    /\ hs = {} => u = NoTicket

LEMMA BreakerQuiet ==
  ASSUME BreakerTypes, BreakerInv, UNCHANGED breaker
  PROVE  BreakerOk /\ tk' = tk
  BY DEF BreakerOk, BreakerTypes, BreakerInv, ProbeInv, PeriodInv, FreshStep, breaker,
         Probing, Undecided

LEMMA BreaksKeep ==
  ASSUME BreakerTypes, BreakerInv, NEW r \in Requests, NEW s \in Breaker, NEW u \in Ticket,
         Breaks(r, [b |-> s, t |-> u]), Settles(brk, tk[r], s, u)
  PROVE  BreakerOk /\ tk' = [tk EXCEPT ![r] = u]
<1> DEFINE t == tk[r]
<1>1. brk' = s /\ tk' = [tk EXCEPT ![r] = u]
      /\ period' = IF s.st = "closed" THEN period \ {q \in {r} : u = NoTicket} ELSE {}
  BY DEF Breaks
<1>2. /\ brk \in Breaker /\ t \in Ticket /\ tk \in [Requests -> Ticket]
      /\ tk'[r] = u /\ \A q \in Requests \ {r} : tk'[q] = tk[q]
  BY <1>1 DEF BreakerTypes
<1>3. BreakerTypes'
  BY <1>1 DEF BreakerTypes
<1>4. u = NoTicket => u.recorded
  BY DEF NoTicket
<1>5. CASE s = brk /\ (u.recorded \/ (u.probe = t.probe /\ u.gen = t.gen /\ u.recorded = t.recorded))
                   /\ (u.recorded => t.recorded)
  <2>1. \A q \in Requests : Probing(q)' <=> Probing(q)
    <3> TAKE q \in Requests
    <3>1. CASE q # r
      BY <1>2, <3>1 DEF Probing
    <3>2. CASE q = r
      BY <1>2, <1>5, <3>2, Zenon DEF Probing
    <3> QED BY <3>1, <3>2
  <2>2. ProbeInv'
    BY <1>1, <1>5, <2>1 DEF BreakerInv, ProbeInv
  <2>3. \A q \in Requests : Undecided(q)' => Undecided(q) /\ tk'[q].gen = tk[q].gen
    <3> TAKE q \in Requests
    <3>1. CASE q # r
      BY <1>2, <3>1 DEF Undecided
    <3>2. CASE q = r
      BY <1>2, <1>5, <3>2, Zenon DEF Undecided
    <3> QED BY <3>1, <3>2
  <2>4. \A q \in Requests : Undecided(q)' /\ q \in period /\ s.st = "closed" => q \in period'
    BY <1>1, <1>2, <1>4 DEF Undecided
  <2>5. PeriodInv'
    <3> SUFFICES ASSUME NEW q \in Requests, Undecided(q)'
                 PROVE  /\ tk'[q].gen <= brk'.gen
                        /\ brk'.st # "closed" => tk'[q].gen < brk'.gen
                        /\ tk'[q].gen = brk'.gen => q \in period'
      BY DEF PeriodInv
    <3>1. tk'[q].gen = tk[q].gen /\ Undecided(q) /\ tk[q] \in Ticket
      BY <1>2, <2>3
    <3>2. tk[q].gen \in Nat /\ brk.gen \in Nat
      BY <1>2, <3>1 DEF Ticket, Breaker
    <3> QED BY <1>1, <1>5, <2>4, <3>1, <3>2 DEF BreakerInv, PeriodInv
  <2>6. FreshStep
    BY <1>1, <1>5 DEF FreshStep
  <2> QED BY <1>1, <1>3, <2>2, <2>5, <2>6 DEF BreakerOk, BreakerInv
<1>6. CASE ~t.recorded /\ u.recorded /\ \E o \in Outcomes : s = Settle(brk, t, o)
  <2>1. PICK o \in Outcomes : s = Settle(brk, t, o)
    BY <1>6
  <2>2. \A q \in Requests : q # r => (Probing(q)' <=> Probing(q)) /\ (Undecided(q)' <=> Undecided(q))
    BY <1>2 DEF Probing, Undecided
  <2>3. ~Probing(r)' /\ ~Undecided(r)'
    BY <1>2, <1>6 DEF Probing, Undecided
  <2>4. CASE t.probe
    <3>1. s.probing = FALSE /\ s.gen = brk.gen /\ s.st \in {brk.st, "closed", "open"}
      <4> HIDE DEF t
      <4>1. t.probe => /\ Settle(brk, t, o).probing = FALSE
                       /\ Settle(brk, t, o).gen = brk.gen
                       /\ Settle(brk, t, o).st \in {brk.st, "closed", "open"}
        BY <1>2, SettleFacts
      <4> QED BY <2>1, <2>4, <4>1
    <3>2. Probing(r) /\ brk.st = "half" /\ \A q \in Requests : Probing(q) => q = r
      BY <1>6, <2>4 DEF BreakerInv, ProbeInv, Probing
    <3>3. ProbeInv'
      BY <1>1, <2>2, <2>3, <3>1, <3>2 DEF ProbeInv
    <3>4. PeriodInv'
      <4> SUFFICES ASSUME NEW q \in Requests, Undecided(q)'
                   PROVE  /\ tk'[q].gen <= brk'.gen
                          /\ brk'.st # "closed" => tk'[q].gen < brk'.gen
                          /\ tk'[q].gen = brk'.gen => q \in period'
        BY DEF PeriodInv
      <4>1. q # r /\ Undecided(q) /\ tk'[q].gen = tk[q].gen
        BY <1>2, <2>2, <2>3
      <4>2. tk'[q].gen < brk'.gen
        BY <1>1, <3>1, <3>2, <4>1 DEF BreakerInv, PeriodInv
      <4>3. tk'[q].gen \in Nat /\ brk'.gen \in Nat
        BY <1>3 DEF BreakerTypes, Ticket, Breaker
      <4> QED BY <4>2, <4>3
    <3>5. FreshStep
      BY <3>2 DEF FreshStep
    <3> QED BY <1>1, <1>3, <3>3, <3>4, <3>5 DEF BreakerOk, BreakerInv
  <2>5. CASE ~t.probe
    <3>1. \/ s = brk
          \/ /\ brk.st = "closed" /\ t.gen = brk.gen /\ s.probing = brk.probing
             /\ \/ s.st = "closed" /\ s.gen = brk.gen
                \/ s.st = "open" /\ s.gen = brk.gen + 1
      <4> HIDE DEF t
      <4>1. ~t.probe =>
              \/ Settle(brk, t, o) = brk
              \/ /\ brk.st = "closed" /\ t.gen = brk.gen
                 /\ Settle(brk, t, o).probing = brk.probing
                 /\ \/ Settle(brk, t, o).st = "closed" /\ Settle(brk, t, o).gen = brk.gen
                    \/ Settle(brk, t, o).st = "open" /\ Settle(brk, t, o).gen = brk.gen + 1
        BY <1>2, SettleFacts, Zenon
      <4> QED BY <2>1, <2>5, <4>1
    <3>2. Undecided(r) /\ ~Probing(r)
      BY <1>6, <2>5 DEF Undecided, Probing
    <3>3. brk.gen \in Nat /\ s.gen \in Nat /\ \A q \in Requests : tk[q].gen \in Nat
      BY <1>2 DEF Breaker, Ticket
    <3>4. \A q \in Requests : Probing(q)' <=> Probing(q)
      BY <2>2, <2>3, <3>2
    <3>5. brk.st = "closed" => brk.probing = FALSE
      BY <1>2 DEF BreakerInv, ProbeInv, Breaker
    <3>6. ProbeInv'
      BY <1>1, <3>1, <3>4, <3>5 DEF BreakerInv, ProbeInv
    <3>7. PeriodInv'
      <4> SUFFICES ASSUME NEW q \in Requests, Undecided(q)'
                   PROVE  /\ tk'[q].gen <= brk'.gen
                          /\ brk'.st # "closed" => tk'[q].gen < brk'.gen
                          /\ tk'[q].gen = brk'.gen => q \in period'
        BY DEF PeriodInv
      <4>1. q # r /\ Undecided(q) /\ tk'[q].gen = tk[q].gen
        BY <1>2, <2>2, <2>3
      <4>2. /\ tk[q].gen <= brk.gen
            /\ brk.st # "closed" => tk[q].gen < brk.gen
            /\ tk[q].gen = brk.gen => q \in period
        BY <4>1 DEF BreakerInv, PeriodInv
      <4>3. s.st = "closed" /\ q \in period => q \in period'
        BY <1>1, <4>1
      <4>4. s.st # "closed" => tk[q].gen < s.gen
        BY <3>1, <3>3, <4>2
      <4> QED BY <1>1, <3>1, <3>3, <4>1, <4>2, <4>3, <4>4
    <3>8. FreshStep
      <4> SUFFICES ASSUME brk.st = "closed", brk'.st = "open"
                   PROVE  r \in period /\ ~tk[r].recorded /\ tk'[r].recorded
        BY DEF FreshStep
      <4>1. t.gen = brk.gen
        BY <1>1, <3>1
      <4> QED BY <1>2, <1>6, <3>2, <4>1 DEF BreakerInv, PeriodInv
    <3> QED BY <1>1, <1>3, <3>6, <3>7, <3>8 DEF BreakerOk, BreakerInv
  <2> QED BY <2>4, <2>5
<1> QED BY <1>1, <1>5, <1>6 DEF Settles

LEMMA Drops ==
  ASSUME BreakerTypes, BreakerInv, NEW r \in Requests, NEW h \in {"req", "dial"},
         Breaks(r, DropHandle([b |-> brk, t |-> tk[r]], h))
  PROVE  BreakerOk /\ Handles(r, tk[r].handles \ {h})
<1>1. brk \in Breaker /\ tk[r] \in Ticket
  BY DEF BreakerTypes
<1>2. PICK s \in Breaker, u \in Ticket :
         /\ DropHandle([b |-> brk, t |-> tk[r]], h) = [b |-> s, t |-> u]
         /\ u.handles = tk[r].handles \ {h}
         /\ u.handles = {} => u = NoTicket
         /\ Settles(brk, tk[r], s, u)
  BY <1>1, DropFacts, Zenon
<1>3. Breaks(r, [b |-> s, t |-> u])
  BY <1>2, Zenon
<1>4. BreakerOk /\ tk' = [tk EXCEPT ![r] = u]
  BY <1>2, <1>3, BreaksKeep
<1> QED BY <1>2, <1>4 DEF Handles

LEMMA Records ==
  ASSUME BreakerTypes, BreakerInv, NEW r \in Requests, NEW o \in Outcomes \cup {"none"},
         tk[r].handles = {} => tk[r] = NoTicket,
         Breaks(r, RecordAt([b |-> brk, t |-> tk[r]], o))
  PROVE  BreakerOk /\ Handles(r, tk[r].handles)
<1>1. brk \in Breaker /\ tk[r] \in Ticket
  BY DEF BreakerTypes
<1>2. PICK s \in Breaker, u \in Ticket :
         /\ RecordAt([b |-> brk, t |-> tk[r]], o) = [b |-> s, t |-> u]
         /\ u.handles = tk[r].handles
         /\ Settles(brk, tk[r], s, u)
         /\ tk[r].recorded \/ o = "none" => s = brk /\ u = tk[r]
  BY <1>1, RecordFacts, Zenon
<1>3. Breaks(r, [b |-> s, t |-> u])
  BY <1>2, Zenon
<1>4. BreakerOk /\ tk' = [tk EXCEPT ![r] = u]
  BY <1>2, <1>3, BreaksKeep
<1>5. u.handles = {} => u = NoTicket
  BY <1>2 DEF NoTicket
<1> QED BY <1>2, <1>4, <1>5 DEF Handles

(* A failure is recorded, and then the request's handle dropped.           *)
LEMMA RecordDrops ==
  ASSUME BreakerTypes, BreakerInv, NEW r \in Requests,
         Breaks(r, DropHandle(RecordAt([b |-> brk, t |-> tk[r]], "counted"), "req"))
  PROVE  BreakerOk /\ Handles(r, tk[r].handles \ {"req"})
<1>1. brk \in Breaker /\ tk[r] \in Ticket /\ "counted" \in Outcomes \cup {"none"}
  BY DEF BreakerTypes, Outcomes
<1>2. PICK s \in Breaker, u \in Ticket :
         /\ RecordAt([b |-> brk, t |-> tk[r]], "counted") = [b |-> s, t |-> u]
         /\ u.handles = tk[r].handles
         /\ Settles(brk, tk[r], s, u)
  BY <1>1, RecordFacts, Zenon
<1>3. u.recorded
  <2> DEFINE p == [b |-> brk, t |-> tk[r]]
  <2>1. p.t = tk[r] /\ p.b = brk
    OBVIOUS
  <2>2. CASE tk[r].recorded
    <3>1. RecordAt(p, "counted") = p
      BY <2>1, <2>2, Zenon DEF RecordAt
    <3> QED BY <1>2, <2>2, <3>1
  <2>3. CASE ~tk[r].recorded
    <3>1. PICK v : v = [tk[r] EXCEPT !.recorded = TRUE]
      OBVIOUS
    <3>2. RecordAt(p, "counted") = [b |-> Settle(brk, tk[r], "counted"), t |-> v]
      BY <2>1, <2>3, <3>1, Zenon DEF RecordAt
    <3> QED BY <1>1, <1>2, <3>1, <3>2 DEF Ticket
  <2> QED BY <2>2, <2>3
<1>4. PICK a \in Breaker, w \in Ticket :
         /\ DropHandle([b |-> s, t |-> u], "req") = [b |-> a, t |-> w]
         /\ w.handles = u.handles \ {"req"}
         /\ w.handles = {} => w = NoTicket
         /\ Settles(s, u, a, w)
  BY <1>2, DropFacts, Zenon
<1>5. Breaks(r, [b |-> a, t |-> w])
  BY <1>2, <1>4, Zenon
<1>6. a = s /\ w.recorded
  BY <1>1, <1>3, <1>4 DEF Settles
<1>7. Settles(brk, tk[r], a, w)
  <2>1. CASE tk[r].recorded
    BY <1>2, <1>6, <2>1, Zenon DEF Settles
  <2>2. CASE ~tk[r].recorded
    BY <1>2, <1>3, <1>6, <2>2 DEF Settles
  <2> QED BY <2>1, <2>2
<1>8. BreakerOk /\ tk' = [tk EXCEPT ![r] = w]
  BY <1>4, <1>5, <1>7, BreaksKeep
<1> QED BY <1>2, <1>4, <1>8 DEF Handles

(* A ticket of the present closed period, whatever it was before.          *)
LEMMA Joins ==
  ASSUME BreakerTypes, BreakerInv, NEW r \in Requests, NEW u \in Ticket, brk.st = "closed",
         ~tk[r].probe, ~u.probe, u.gen = brk.gen,
         tk' = [tk EXCEPT ![r] = u], brk' = brk, period' = period \cup {r}
  PROVE  BreakerOk
<1>1. /\ brk \in Breaker /\ tk \in [Requests -> Ticket]
      /\ tk'[r] = u /\ \A q \in Requests \ {r} : tk'[q] = tk[q]
  BY DEF BreakerTypes
<1>2. BreakerTypes'
  BY DEF BreakerTypes
<1>3. ~Probing(r) /\ ~Probing(r)'
  BY <1>1 DEF Probing
<1>4. \A q \in Requests : Probing(q)' <=> Probing(q)
  BY <1>1, <1>3 DEF Probing
<1>5. ProbeInv'
  BY <1>4 DEF BreakerInv, ProbeInv
<1>6. PeriodInv'
  <2> SUFFICES ASSUME NEW q \in Requests, Undecided(q)'
               PROVE  /\ tk'[q].gen <= brk.gen
                      /\ tk'[q].gen = brk.gen => q \in period'
    BY DEF PeriodInv
  <2>1. CASE q = r
    BY <1>1, <2>1 DEF Breaker
  <2>2. CASE q # r
    BY <1>1, <2>2 DEF BreakerInv, PeriodInv, Undecided
  <2> QED BY <2>1, <2>2
<1>7. FreshStep
  BY DEF FreshStep
<1> QED BY <1>2, <1>5, <1>6, <1>7 DEF BreakerOk, BreakerInv

(* A probe is admitted while there is none.                                *)
LEMMA Probes ==
  ASSUME BreakerTypes, BreakerInv, NEW r \in Requests, NEW u \in Ticket,
         brk.st \in {"open", "half"}, ~brk.probing, u.probe, ~u.recorded,
         brk' = [brk EXCEPT !.st = "half", !.due = FALSE, !.probing = TRUE],
         tk' = [tk EXCEPT ![r] = u], period' = period
  PROVE  BreakerOk
<1>1. /\ brk \in Breaker /\ tk \in [Requests -> Ticket]
      /\ tk'[r] = u /\ \A q \in Requests \ {r} : tk'[q] = tk[q]
  BY DEF BreakerTypes
<1>2. brk' \in Breaker /\ brk'.st = "half" /\ brk'.probing = TRUE /\ brk'.gen = brk.gen
  BY <1>1 DEF Breaker
<1>3. BreakerTypes'
  BY <1>2 DEF BreakerTypes
<1>4. \A q \in Requests : ~Probing(q)
  BY <1>1 DEF BreakerInv, ProbeInv
<1>5. \A q \in Requests : Probing(q)' <=> q = r
  BY <1>1, <1>4 DEF Probing
<1>6. ProbeInv'
  BY <1>2, <1>5 DEF ProbeInv
<1>7. PeriodInv'
  <2> SUFFICES ASSUME NEW q \in Requests, Undecided(q)'
               PROVE  /\ tk'[q].gen <= brk'.gen
                      /\ brk'.st # "closed" => tk'[q].gen < brk'.gen
                      /\ tk'[q].gen = brk'.gen => q \in period'
    BY DEF PeriodInv
  <2>1. q # r
    BY <1>1 DEF Undecided
  <2> QED BY <1>1, <1>2, <2>1 DEF BreakerInv, PeriodInv, Undecided
<1>8. FreshStep
  BY <1>2 DEF FreshStep
<1> QED BY <1>3, <1>6, <1>7, <1>8 DEF BreakerOk, BreakerInv

-----------------------------------------------------------------------------
(* What a step of request r, or of its dial, leaves alone.                 *)

Others(r) ==
  \A q \in Requests \ {r} :
    /\ req'[q] = req[q] /\ dial'[q] = dial[q] /\ tk'[q] = tk[q]
    /\ q \in slot' <=> q \in slot

LEMMA HeldKeeps ==
  ASSUME HeldInv, NEW r \in Requests, Others(r), Held(r)'
  PROVE  HeldInv'
<1> SUFFICES ASSUME NEW q \in Requests, q # r PROVE Held(q)'
  BY DEF HeldInv
<1>1. req'[q] = req[q] /\ dial'[q] = dial[q] /\ tk'[q] = tk[q] /\ (q \in slot' <=> q \in slot)
  BY DEF Others
<1>2. Held(q)
  BY DEF HeldInv
<1> QED BY <1>1, <1>2 DEF Held

(* A step that neither enters the gate nor touches its queue.              *)
LEMMA GateKeeps ==
  ASSUME GateInv, NEW r \in Requests, Others(r), queue' = queue,
         req'[r].pc \in Waiting => req[r].pc \in Waiting,
         req'[r].pc = "queued" <=> req[r].pc = "queued"
  PROVE  GateInv'
<1>1. Beyond' \subseteq Beyond
  BY DEF Beyond, Others
<1>2. IsFiniteSet(Beyond') /\ Cardinality(Beyond') <= Cardinality(Beyond)
      /\ Cardinality(Beyond') \in Nat /\ Cardinality(Beyond) \in Nat
  BY <1>1, FS_Subset, FS_CardinalityType DEF GateInv
<1>3. MaxRequests \in Nat
  BY HttpAssumption
<1>4. \A q \in Requests : req'[q].pc = "queued" <=> req[q].pc = "queued"
  BY DEF Others
<1> QED BY <1>2, <1>3, <1>4 DEF GateInv

(* One request more beyond the gate.                                       *)
LEMMA GateAdmits ==
  ASSUME GateInv, NEW r \in Requests, Others(r), SlotsHeld < MaxRequests,
         req[r].pc \notin Waiting
  PROVE  IsFiniteSet(Beyond') /\ Cardinality(Beyond') <= MaxRequests
<1>1. Beyond' \subseteq Beyond \cup {r} /\ r \notin Beyond
  BY DEF Beyond, Others
<1>2. IsFiniteSet(Beyond \cup {r}) /\ Cardinality(Beyond \cup {r}) = Cardinality(Beyond) + 1
  BY <1>1, FS_AddElement DEF GateInv
<1>3. IsFiniteSet(Beyond') /\ Cardinality(Beyond') <= Cardinality(Beyond \cup {r})
      /\ Cardinality(Beyond') \in Nat /\ Cardinality(Beyond) \in Nat
  BY <1>1, <1>2, FS_Subset, FS_CardinalityType DEF GateInv
<1>4. Cardinality(Beyond) < MaxRequests
  BY DEF SlotsHeld, Beyond
<1>5. MaxRequests \in Nat
  BY HttpAssumption
<1> QED BY <1>2, <1>3, <1>4, <1>5

-----------------------------------------------------------------------------
(* Connections.                                                            *)

LEMMA OwnedIs ==
  ASSUME RequestTypes, PoolTypes
  PROVE  /\ Owned = Stack \cup UNION {Mine(q) : q \in Requests}
         /\ Stack \subseteq Conns
         /\ Owned \subseteq Conns
         /\ \A q \in Requests : Mine(q) \subseteq Owned
<1>1. Stack \subseteq Conns /\ NoConn \notin Stack
  BY HttpAssumption DEF PoolTypes, Stack
<1>2. \A q \in Requests : req[q] \in ReqType /\ dial[q] \in DialType
  BY DEF RequestTypes
<1>3. \A q \in Requests : Mine(q) \subseteq Conns
  BY <1>2 DEF Mine, ReqType, DialType
<1>4. Owned = Stack \cup UNION {Mine(q) : q \in Requests}
  <2>a. PICK A : A = UNION {req[q].closed : q \in Requests}
    OBVIOUS
  <2>b. PICK B : B = {req[q].conn : q \in Requests}
    OBVIOUS
  <2>c. PICK C : C = {dial[q].conn : q \in Requests}
    OBVIOUS
  <2>d. InUse = Stack \cup B \cup A \cup C
    BY <2>a, <2>b, <2>c DEF InUse
  <2>e. /\ \A c : c \in A <=> \E q \in Requests : c \in req[q].closed
        /\ \A c : c \in B <=> \E q \in Requests : c = req[q].conn
        /\ \A c : c \in C <=> \E q \in Requests : c = dial[q].conn
    BY <2>a, <2>b, <2>c
  <2>1. \A c : c \in InUse <=> \/ c \in Stack
                               \/ \E q \in Requests : c = req[q].conn
                               \/ \E q \in Requests : c \in req[q].closed
                               \/ \E q \in Requests : c = dial[q].conn
    BY <2>d, <2>e
  <2>2. \A c : c \in UNION {Mine(q) : q \in Requests} <=> \E q \in Requests : c \in Mine(q)
    OBVIOUS
  <2>3. \A c : c \in Owned <=> c \in Stack \/ \E q \in Requests : c \in Mine(q)
    BY <1>1, <2>1 DEF Owned, Mine
  <2> QED BY <2>2, <2>3
<1> QED BY <1>1, <1>3, <1>4

LEMMA OwnedIsNext ==
  ASSUME RequestTypes', PoolTypes'
  PROVE  Owned' = Stack' \cup UNION {Mine(q)' : q \in Requests}
<1>1. NoConn \notin Stack'
  BY HttpAssumption DEF PoolTypes, Stack
<1>a. PICK A : A = UNION {req'[q].closed : q \in Requests}
  OBVIOUS
<1>b. PICK B : B = {req'[q].conn : q \in Requests}
  OBVIOUS
<1>c. PICK C : C = {dial'[q].conn : q \in Requests}
  OBVIOUS
<1>d. InUse' = Stack' \cup B \cup A \cup C
  BY <1>a, <1>b, <1>c DEF InUse
<1>e. /\ \A c : c \in A <=> \E q \in Requests : c \in req'[q].closed
      /\ \A c : c \in B <=> \E q \in Requests : c = req'[q].conn
      /\ \A c : c \in C <=> \E q \in Requests : c = dial'[q].conn
  BY <1>a, <1>b, <1>c
<1>2. \A c : c \in InUse' <=> \/ c \in Stack'
                              \/ \E q \in Requests : c = req'[q].conn
                              \/ \E q \in Requests : c \in req'[q].closed
                              \/ \E q \in Requests : c = dial'[q].conn
  BY <1>d, <1>e
<1>3. \A c : c \in UNION {Mine(q)' : q \in Requests} <=> \E q \in Requests : c \in Mine(q)'
  OBVIOUS
<1>4. \A c : c \in Owned' <=> c \in Stack' \/ \E q \in Requests : c \in Mine(q)'
  BY <1>1, <1>2 DEF Owned, Mine
<1> QED BY <1>3, <1>4

(* Of r's connections and the idle ones, those in gone are closed and      *)
(* those in new are added.                                                 *)
LEMMA Shifts ==
  ASSUME RequestTypes, PoolTypes, RequestTypes', PoolTypes', ApartInv,
         NEW r \in Requests, Others(r), NEW gone, NEW new,
         \A i, j \in 1..Len(idle') : idle'[i] = idle'[j] => i = j,
         Stack' \cup Mine(r)' = ((Stack \cup Mine(r)) \ gone) \cup new,
         Stack' \cap Mine(r)' = {},
         gone \subseteq Stack \cup Mine(r), new \cap Owned = {}
  PROVE  ApartInv' /\ Owned' = (Owned \ gone) \cup new
<1>1. \A q \in Requests \ {r} : Mine(q)' = Mine(q)
  BY DEF Mine, Others
<1>2. /\ Owned = Stack \cup UNION {Mine(q) : q \in Requests}
      /\ \A q \in Requests : Mine(q) \subseteq Owned
  BY OwnedIs
<1>3. Owned' = Stack' \cup UNION {Mine(q)' : q \in Requests}
  BY OwnedIsNext
<1> DEFINE rest == UNION {Mine(q) : q \in Requests \ {r}}
<1>4. Owned = Stack \cup Mine(r) \cup rest
  BY <1>2
<1>5. Owned' = Stack' \cup Mine(r)' \cup rest
  BY <1>1, <1>3
<1>6. rest \cap (Stack \cup Mine(r)) = {}
  BY DEF ApartInv
<1>7. Owned' = (Owned \ gone) \cup new
  <2> HIDE DEF rest
  <2> QED BY <1>4, <1>5, <1>6
<1>8. \A q \in Requests \ {r} : Mine(q) \cap (Stack' \cup Mine(r)') = {}
  <2> TAKE q \in Requests \ {r}
  <2>1. Mine(q) \cap (Stack \cup Mine(r)) = {} /\ Mine(q) \subseteq Owned
    BY <1>2 DEF ApartInv
  <2> QED BY <2>1
<1>9. ApartInv'
  <2>1. \A q \in Requests : Mine(q)' \cap Stack' = {}
    BY <1>1, <1>8
  <2>2. \A p, q \in Requests : p # q => Mine(p)' \cap Mine(q)' = {}
    <3> SUFFICES ASSUME NEW p \in Requests, NEW q \in Requests, p # q
                 PROVE  Mine(p)' \cap Mine(q)' = {}
      OBVIOUS
    <3>1. CASE p = r
      BY <1>1, <1>8, <3>1
    <3>2. CASE q = r
      BY <1>1, <1>8, <3>2
    <3>3. CASE p # r /\ q # r
      BY <1>1, <3>3 DEF ApartInv
    <3> QED BY <3>1, <3>2, <3>3
  <2> QED BY <2>1, <2>2 DEF ApartInv
<1> QED BY <1>7, <1>9

-----------------------------------------------------------------------------
(* The idle stack.                                                         *)

Distinct(s) == \A i, j \in 1..Len(s) : s[i] = s[j] => i = j
Elems(s) == {s[i] : i \in 1..Len(s)}

LEMMA StackIs ==
  ASSUME idle \in Seq(Conns)
  PROVE  Stack = Elems(idle)
  BY DEF Stack, Elems

LEMMA StackIsNext ==
  ASSUME idle' \in Seq(Conns)
  PROVE  Stack' = Elems(idle')
  BY DEF Stack, Elems

LEMMA Stays ==
  ASSUME RequestTypes, PoolTypes, RequestTypes', PoolTypes', ApartInv,
         NEW r \in Requests, Others(r), Distinct(idle'),
         Stack' \cup Mine(r)' = Stack \cup Mine(r), Stack' \cap Mine(r)' = {}
  PROVE  ApartInv' /\ Owned' = Owned
<1> DEFINE E == {}
<1>1. Stack' \cup Mine(r)' = ((Stack \cup Mine(r)) \ E) \cup E
      /\ E \subseteq Stack \cup Mine(r) /\ E \cap Owned = {}
  OBVIOUS
<1>2. Owned = (Owned \ E) \cup E
  OBVIOUS
<1>3. \A i, j \in 1..Len(idle') : idle'[i] = idle'[j] => i = j
  BY DEF Distinct
<1> HIDE DEF E
<1>4. ApartInv' /\ Owned' = (Owned \ E) \cup E
  BY <1>1, <1>3, Shifts
<1> QED BY <1>2, <1>4

LEMMA Pushed ==
  ASSUME NEW S, NEW s \in Seq(S), Distinct(s), NEW c \in S, c \notin Elems(s)
  PROVE  /\ Append(s, c) \in Seq(S) /\ Distinct(Append(s, c))
         /\ Elems(Append(s, c)) = Elems(s) \cup {c}
<1> DEFINE t == Append(s, c)
           n == Len(s)
<1>1. t \in Seq(S) /\ Len(t) = n + 1 /\ t[n + 1] = c /\ \A i \in 1..n : t[i] = s[i]
  OBVIOUS
<1>2. n \in Nat
  OBVIOUS
<1> HIDE DEF t, n
<1>3. \A i \in 1..n + 1 : i = n + 1 \/ i \in 1..n
  BY <1>2
<1>4. \A i \in 1..n : i \in 1..n + 1 /\ s[i] # c
  BY <1>2 DEF n, Elems
<1>5. n + 1 \in 1..n + 1
  BY <1>2
<1>6. Elems(t) = Elems(s) \cup {c}
  <2>1. \A x : x \in Elems(t) <=> \E i \in 1..n + 1 : x = t[i]
    BY <1>1 DEF Elems
  <2>2. \A x : x \in Elems(s) <=> \E i \in 1..n : x = s[i]
    BY DEF Elems, n
  <2> QED BY <1>1, <1>3, <1>4, <1>5, <2>1, <2>2
<1>7. Distinct(t)
  <2> SUFFICES ASSUME NEW i \in 1..n + 1, NEW j \in 1..n + 1, t[i] = t[j] PROVE i = j
    BY <1>1 DEF Distinct
  <2>1. CASE i = n + 1 /\ j = n + 1
    BY <2>1
  <2>2. CASE i \in 1..n /\ j = n + 1
    BY <1>1, <1>4, <2>2
  <2>3. CASE i = n + 1 /\ j \in 1..n
    BY <1>1, <1>4, <2>3
  <2>4. CASE i \in 1..n /\ j \in 1..n
    BY <1>1, <2>4 DEF Distinct, n
  <2> QED BY <1>3, <2>1, <2>2, <2>3, <2>4
<1> QED BY <1>1, <1>6, <1>7 DEF t

(* A stack cut at k: what is above goes, all the rest stays in place.      *)
LEMMA Cut ==
  ASSUME NEW s \in Seq(Conns), Distinct(s), NEW k \in 0..Len(s)
  PROVE  /\ SubSeq(s, 1, k) \in Seq(Conns) /\ Distinct(SubSeq(s, 1, k))
         /\ Elems(SubSeq(s, 1, k)) \cap {s[i] : i \in k + 1..Len(s)} = {}
         /\ Elems(SubSeq(s, 1, k)) \cup {s[i] : i \in k + 1..Len(s)} = Elems(s)
<1> DEFINE t == SubSeq(s, 1, k)
           n == Len(s)
<1>1. t \in Seq(Conns) /\ Len(t) = k /\ \A i \in 1..k : t[i] = s[i]
  OBVIOUS
<1>2. n \in Nat /\ k \in Nat /\ k <= n
  OBVIOUS
<1> HIDE DEF t, n
<1>3. \A i : i \in 1..n <=> i \in 1..k \/ i \in k + 1..n
  BY <1>2
<1>4. \A i \in 1..k : \A j \in k + 1..n : i # j
  BY <1>2
<1>5. Distinct(t)
  BY <1>1, <1>3 DEF Distinct, n
<1>6. \A x : x \in Elems(t) <=> \E i \in 1..k : x = s[i]
  BY <1>1 DEF Elems
<1>7. \A x : x \in Elems(s) <=> \E i \in 1..n : x = s[i]
  BY DEF Elems, n
<1>8. Elems(t) \cap {s[i] : i \in k + 1..n} = {}
  <2> SUFFICES ASSUME NEW i \in 1..k, NEW j \in k + 1..n, s[i] = s[j] PROVE FALSE
    BY <1>6
  <2> QED BY <1>3, <1>4 DEF Distinct, n
<1>9. Elems(t) \cup {s[i] : i \in k + 1..n} = Elems(s)
  BY <1>3, <1>6, <1>7
<1> QED BY <1>1, <1>5, <1>8, <1>9 DEF t, n

LEMMA Bottom ==
  ASSUME NEW S, NEW s \in Seq(S), Distinct(s), s # << >>
  PROVE  /\ Head(s) \in Elems(s) /\ Tail(s) \in Seq(S) /\ Distinct(Tail(s))
         /\ Elems(Tail(s)) = Elems(s) \ {Head(s)}
<1> DEFINE t == Tail(s)
           n == Len(s)
<1>1. n \in Nat \ {0} /\ t \in Seq(S) /\ Len(t) = n - 1 /\ Head(s) = s[1]
      /\ \A i \in 1..n - 1 : t[i] = s[i + 1]
  OBVIOUS
<1> HIDE DEF t, n
<1>2. \A i \in 1..n - 1 : i + 1 \in 1..n /\ i + 1 # 1
  BY <1>1
<1>3. \A i \in 1..n : i = 1 \/ (i - 1 \in 1..n - 1 /\ (i - 1) + 1 = i)
  BY <1>1
<1>4. 1 \in 1..n
  BY <1>1
<1>5. \A i, j \in 1..n : s[i] = s[j] => i = j
  BY DEF Distinct, n
<1>6. \A x : x \in Elems(t) <=> \E i \in 1..n - 1 : x = s[i + 1]
  BY <1>1 DEF Elems
<1>7. \A x : x \in Elems(s) <=> \E i \in 1..n : x = s[i]
  BY DEF Elems, n
<1>8. Elems(t) = Elems(s) \ {Head(s)}
  <2>1. ASSUME NEW x \in Elems(t) PROVE x \in Elems(s) \ {Head(s)}
    <3>1. PICK i \in 1..n - 1 : x = s[i + 1]
      BY <1>6, <2>1
    <3> QED BY <1>1, <1>2, <1>4, <1>5, <1>7, <3>1
  <2>2. ASSUME NEW x \in Elems(s) \ {Head(s)} PROVE x \in Elems(t)
    <3>1. PICK i \in 1..n : x = s[i]
      BY <1>7, <2>2
    <3>2. i # 1
      BY <1>1, <2>2, <3>1
    <3> QED BY <1>3, <1>6, <3>1, <3>2
  <2> QED BY <2>1, <2>2
<1>9. Distinct(t)
  <2> SUFFICES ASSUME NEW i \in 1..n - 1, NEW j \in 1..n - 1, t[i] = t[j] PROVE i = j
    BY <1>1 DEF Distinct
  <2>1. i + 1 = j + 1
    BY <1>1, <1>2, <1>5
  <2> QED BY <1>1, <2>1
<1> QED BY <1>1, <1>4, <1>7, <1>8, <1>9 DEF t

(* The stack without its dead top: Kept is where the rest ends.            *)
LEMMA KeptExists ==
  ASSUME PoolTypes
  PROVE  /\ Kept \in 0..Len(idle)
         /\ Kept > 0 => conn[idle[Kept]].age # "dead"
<1> DEFINE n == Len(idle)
           Fits(k) == /\ k > 0 => conn[idle[k]].age # "dead"
                      /\ \A i \in k + 1..n : conn[idle[i]].age = "dead"
           T == {m \in Nat : m <= n /\ (n - m > 0 => conn[idle[n - m]].age # "dead")}
<1>1. n \in Nat
  BY DEF PoolTypes
<1> HIDE DEF n
<1>2. n \in T /\ T \subseteq Nat
  BY <1>1
<1>3. \E m \in T : \A y \in T : ~(y < m)
  <2>1. PICK m \in T : \A y \in T : ~(<<y, m>> \in OpToRel(<, Nat))
    BY <1>2, NatLessThanWellFounded, WFMin
  <2>2. \A y \in T : ~(y < m)
    <3> SUFFICES ASSUME NEW y \in T, y < m PROVE FALSE
      OBVIOUS
    <3>1. y \in Nat /\ m \in Nat
      BY <1>2
    <3>2. <<y, m>> \in OpToRel(<, Nat)
      BY <3>1 DEF OpToRel
    <3> QED BY <2>1, <3>2
  <2> QED BY <2>2
<1>4. PICK m \in T : \A y \in T : ~(y < m)
  BY <1>3
<1> DEFINE k == n - m
<1>5. k \in 0..n
  BY <1>1, <1>4
<1>6. Fits(k)
  <2>1. \A i \in k + 1..n : conn[idle[i]].age = "dead"
    <3> SUFFICES ASSUME NEW i \in k + 1..n, conn[idle[i]].age # "dead" PROVE FALSE
      OBVIOUS
    <3>1. n - i \in Nat /\ n - i <= n /\ n - (n - i) = i /\ n - i < m
      BY <1>1, <1>4, <1>5
    <3>2. n - i \in T
      BY <3>1
    <3> QED BY <1>4, <3>1, <3>2
  <2>2. k > 0 => conn[idle[k]].age # "dead"
    BY <1>4
  <2> QED BY <2>1, <2>2
<1>7. \E x \in 0..n : Fits(x)
  BY <1>5, <1>6
<1>8. Kept \in 0..n /\ Fits(Kept)
  BY <1>7, Zenon DEF Kept, n
<1> QED BY <1>8 DEF n

-----------------------------------------------------------------------------
(* The counters follow the connections and the dials.                      *)

LEMMA CountCloses ==
  ASSUME CountInv, NEW gone, gone \subseteq Owned, Owned' = Owned \ gone, slot' = slot,
         live' = live - Cardinality(gone), dialing' = dialing
  PROVE  CountInv'
<1>1. /\ IsFiniteSet(gone) /\ Cardinality(gone) \in Nat /\ Cardinality(Owned) \in Nat
      /\ Cardinality(slot) \in Nat
  BY FS_Subset, FS_CardinalityType DEF CountInv
<1>2. IsFiniteSet(Owned') /\ Cardinality(Owned') = Cardinality(Owned) - Cardinality(Owned \cap gone)
  BY FS_Difference DEF CountInv
<1>3. Owned \cap gone = gone
  OBVIOUS
<1>4. MaxConnections \in Nat
  BY HttpAssumption
<1>5. Cardinality(Owned') = Cardinality(Owned) - Cardinality(gone)
  BY <1>2, <1>3
<1> QED BY <1>1, <1>2, <1>4, <1>5 DEF CountInv

LEMMA CountReserves ==
  ASSUME CountInv, NEW r, r \notin slot, Owned' = Owned, slot' = slot \cup {r},
         live' = live + 1, dialing' = dialing + 1, live < MaxConnections, dialing < MaxDials
  PROVE  CountInv'
<1>1. Cardinality(Owned) \in Nat /\ Cardinality(slot) \in Nat
  BY FS_CardinalityType DEF CountInv
<1>2. IsFiniteSet(slot') /\ Cardinality(slot') = Cardinality(slot) + 1
  BY FS_AddElement DEF CountInv
<1>3. MaxConnections \in Nat /\ MaxDials \in Nat
  BY HttpAssumption
<1>4. IsFiniteSet(Owned') /\ Cardinality(Owned') = Cardinality(Owned)
  BY DEF CountInv
<1> QED BY <1>1, <1>2, <1>3, <1>4 DEF CountInv

LEMMA CountReleases ==
  ASSUME CountInv, NEW r, r \in slot, Owned' = Owned, slot' = slot \ {r},
         live' = live - 1, dialing' = dialing - 1
  PROVE  CountInv'
<1>1. Cardinality(Owned) \in Nat /\ Cardinality(slot) \in Nat
  BY FS_CardinalityType DEF CountInv
<1>2. IsFiniteSet(slot') /\ Cardinality(slot') = Cardinality(slot) - 1
  BY FS_RemoveElement DEF CountInv
<1>3. MaxConnections \in Nat /\ MaxDials \in Nat
  BY HttpAssumption
<1>4. IsFiniteSet(Owned') /\ Cardinality(Owned') = Cardinality(Owned)
  BY DEF CountInv
<1> QED BY <1>1, <1>2, <1>3, <1>4 DEF CountInv

(* A dial's place becomes its connection's.                                *)
LEMMA CountConnects ==
  ASSUME CountInv, NEW r, r \in slot, NEW c, c \notin Owned, Owned' = Owned \cup {c},
         slot' = slot \ {r}, live' = live, dialing' = dialing - 1
  PROVE  CountInv'
<1>1. Cardinality(Owned) \in Nat /\ Cardinality(slot) \in Nat
  BY FS_CardinalityType DEF CountInv
<1>2. IsFiniteSet(slot') /\ Cardinality(slot') = Cardinality(slot) - 1
  BY FS_RemoveElement DEF CountInv
<1>3. IsFiniteSet(Owned') /\ Cardinality(Owned') = Cardinality(Owned) + 1
  BY FS_AddElement DEF CountInv
<1>4. MaxConnections \in Nat /\ MaxDials \in Nat
  BY HttpAssumption
<1> QED BY <1>1, <1>2, <1>3, <1>4 DEF CountInv

-----------------------------------------------------------------------------
(* The wire and the sleepers, seen by the other requests.                  *)

LEMMA WireKeeps ==
  ASSUME RequestTypes, HeldInv, ApartInv, WireInv, NEW r \in Requests, Others(r),
         \A q \in Requests \ {r} : q \in wire' <=> q \in wire,
         \A q \in Requests \ {r} : req[q].conn # NoConn /\ req[q].conn \notin Mine(r)
                                   => conn'[req[q].conn].sent = conn[req[q].conn].sent,
         Wired(r)'
  PROVE  WireInv'
<1> SUFFICES ASSUME NEW q \in Requests, q # r PROVE Wired(q)'
  BY DEF WireInv
<1>1. req'[q] = req[q] /\ (q \in wire' <=> q \in wire) /\ Wired(q) /\ Held(q)
  BY DEF Others, WireInv, HeldInv
<1>2. req[q].conn # NoConn => req[q].conn \notin Mine(r)
  BY DEF ApartInv, Mine
<1>3. req[q].pc \in {"dispatched", "body", "closing"} => req[q].conn # NoConn
  BY <1>1 DEF Held, Carrying
<1>4. req[q].pc \in {"dispatched", "body", "closing"}
        => conn'[req[q].conn].sent = conn[req[q].conn].sent
  BY <1>2, <1>3
<1> QED BY <1>1, <1>4 DEF Wired

LEMMA SleepLoud ==
  ASSUME NEW r \in Requests, Others(r), NotifyWaiters, req'[r].pc # "parked"
  PROVE  SleepInv'
  BY DEF SleepInv, Asleep, Others, NotifyWaiters

LEMMA SleepQuiet ==
  ASSUME SleepInv, NEW r \in Requests, Others(r), woken \ {r} \subseteq woken',
         Stuck => Stuck', req'[r].pc = "parked" => Stuck'
  PROVE  SleepInv'
<1> SUFFICES ASSUME NEW q \in Requests, Asleep(q)' PROVE Stuck'
  BY DEF SleepInv
<1>1. CASE q = r
  BY <1>1 DEF Asleep
<1>2. CASE q # r
  <2>1. Asleep(q)
    BY <1>2 DEF Asleep, Others
  <2> QED BY <2>1 DEF SleepInv
<1> QED BY <1>1, <1>2

(* A step that leaves the sub-pool as it is, whatever it says of a         *)
(* connection's age or tracker.                                            *)
LEMMA PoolsKeep ==
  ASSUME Types, RequestTypes', ApartInv, CountInv, SleepInv, NEW r \in Requests, Others(r),
         live' = live, dialing' = dialing, idle' = idle, slot' = slot,
         woken' \in {woken, woken \ {r}}, conn' \in [Conns -> ConnType], Mine(r)' = Mine(r), req'[r].pc # "parked"
  PROVE  PoolTypes' /\ ApartInv' /\ CountInv' /\ SleepInv'
<1>1. PoolTypes'
  BY DEF Types, PoolTypes
<1>2. Stack' = Stack
  BY DEF Stack
<1>3. Stack \cap Mine(r) = {} /\ \A i, j \in 1..Len(idle') : idle'[i] = idle'[j] => i = j
  BY DEF ApartInv
<1>4. ApartInv' /\ Owned' = Owned
  <2>1. Stack' \cup Mine(r)' = Stack \cup Mine(r) /\ Stack' \cap Mine(r)' = {}
    BY <1>2, <1>3
  <2>2. Distinct(idle')
    BY <1>3 DEF Distinct
  <2> QED BY <1>1, <1>3, <2>1, <2>2, Stays DEF Types
<1>5. CountInv'
  BY <1>4 DEF CountInv
<1>6. Stuck => Stuck'
  BY DEF Stuck
<1>7. SleepInv'
  BY <1>6, SleepQuiet
<1> QED BY <1>1, <1>4, <1>5, <1>7

-----------------------------------------------------------------------------
(* fate.rs, and the end of `run`.                                          *)

BeforeEvents == StopEvents \cup {"limit", "deadline", "lost", "policy", "breaker"}

LEMMA ClassifyBefore ==
  ASSUME NEW event \in BeforeEvents, NEW idem \in BOOLEAN
  PROVE  Classify("before", event, idem) \in {"cancelled", "forbidden", "unsent"}
<1>1. CASE event = "cancel"
  BY <1>1, Zenon DEF Classify
<1>2. CASE event = "policy"
  BY <1>2, Zenon DEF Classify
<1>3. CASE event \notin {"cancel", "policy"}
  BY <1>3, Zenon DEF Classify
<1> QED BY <1>1, <1>2, <1>3

DiscardEvents == StopEvents \cup {"link", "deadline", "decode"}

LEMMA ClassifyUnsent ==
  ASSUME NEW event \in DiscardEvents \ {"decode"}, NEW idem \in BOOLEAN
  PROVE  Classify("unsent", event, idem) \in {"cancelled", "unsent"}
<1>1. CASE event = "cancel"
  BY <1>1, Zenon DEF Classify
<1>2. CASE event # "cancel"
  <2>1. event \notin {"cancel", "policy"}
    BY <1>2 DEF DiscardEvents, StopEvents
  <2> QED BY <2>1, Zenon DEF Classify
<1> QED BY <1>1, <1>2

Left == {"unconfirmed", "cancelled", "timeout", "lost", "incomplete"}

LEMMA ClassifySent ==
  ASSUME NEW event \in DiscardEvents, NEW idem \in BOOLEAN, NEW phase \in {"sent", "head"}
  PROVE  LET told == Classify(phase, event, idem) IN
         told \in Left /\ (told = "unconfirmed" => ~idem) /\ (told = "lost" => idem)
<1> DEFINE told == Classify(phase, event, idem)
<1>1. CASE phase = "sent"
  <2>1. CASE ~idem
    <3>1. told = "unconfirmed"
      BY <1>1, <2>1, Zenon DEF Classify
    <3> QED BY <2>1, <3>1 DEF Left
  <2>2. CASE idem
    <3>1. CASE event = "cancel"
      <4>1. told = "cancelled"
        BY <1>1, <2>2, <3>1, Zenon DEF Classify
      <4> QED BY <4>1 DEF Left
    <3>2. CASE event = "deadline"
      <4>1. told = "timeout"
        BY <1>1, <2>2, <3>2, Zenon DEF Classify
      <4> QED BY <4>1 DEF Left
    <3>3. CASE event \notin {"cancel", "deadline"}
      <4>1. told = "lost"
        BY <1>1, <2>2, <3>3, Zenon DEF Classify
      <4> QED BY <2>2, <4>1 DEF Left
    <3> QED BY <3>1, <3>2, <3>3
  <2> QED BY <2>1, <2>2
<1>2. CASE phase = "head"
  <2>1. CASE event = "cancel"
    <3>1. told = "cancelled"
      BY <1>2, <2>1, Zenon DEF Classify
    <3> QED BY <3>1 DEF Left
  <2>2. CASE event = "deadline"
    <3>1. told = "timeout"
      BY <1>2, <2>2, Zenon DEF Classify
    <3> QED BY <3>1 DEF Left
  <2>3. CASE event = "decode"
    <3>1. told = "incomplete"
      BY <1>2, <2>3, Zenon DEF Classify
    <3> QED BY <3>1 DEF Left
  <2>4. CASE event \notin {"cancel", "deadline", "decode"}
    <3>1. told = IF idem THEN "lost" ELSE "incomplete"
      BY <1>2, <2>4, Zenon DEF Classify
    <3> QED BY <3>1 DEF Left
  <2> QED BY <2>1, <2>2, <2>3, <2>4
<1> QED BY <1>1, <1>2

(* Where r is, and with what, after a step.                                *)
Becomes(r, x) == x \in ReqType /\ req' = [req EXCEPT ![r] = x]

LEMMA Ends ==
  ASSUME RequestTypes, NEW r \in Requests, NEW told \in Tolds, Ended(r, told)
  PROVE  \E x : /\ Becomes(r, x)
                /\ x.pc = "done" /\ x.conn = NoConn /\ x.closed = {} /\ x.told = told
                /\ x.idem = req[r].idem
<1>1. req[r] \in ReqType /\ NoWhy \in Whys /\ "done" \in Pcs
  BY DEF RequestTypes, NoWhy, Whys, Pcs
<1>2. PICK x : x = [req[r] EXCEPT !.pc = "done", !.conn = NoConn, !.stop = FALSE,
                                  !.closed = {}, !.why = NoWhy, !.told = told]
  OBVIOUS
<1>3. /\ x.pc = "done" /\ x.conn = NoConn /\ x.closed = {} /\ x.told = told
      /\ x.idem = req[r].idem
  BY <1>1, <1>2 DEF ReqType
<1>4. x \in ReqType
  BY <1>1, <1>2 DEF ReqType
<1>5. req' = [req EXCEPT ![r] = x]
  BY <1>2 DEF Ended
<1> QED BY <1>3, <1>4, <1>5 DEF Becomes

(* `run` ends before the request has been given to hyper.                  *)
LEMMA EndsBefore ==
  ASSUME Types, BreakerInv, NEW r \in Requests, NEW event \in BeforeEvents,
         Finish(r, "before", event)
  PROVE  /\ BreakerOk
         /\ Handles(r, tk[r].handles \ {"req"})
         /\ \E x : /\ Becomes(r, x)
                   /\ x.pc = "done" /\ x.conn = NoConn /\ x.closed = {}
                   /\ x.told \in {"cancelled", "forbidden", "unsent"}
<1>1. req[r].idem \in BOOLEAN
  BY DEF Types, RequestTypes, ReqType
<1> DEFINE told == Classify("before", event, req[r].idem)
<1>2. told \in {"cancelled", "forbidden", "unsent"}
  BY <1>1, ClassifyBefore
<1>3. told \in Tolds
  BY <1>2 DEF Tolds
<1>4. Ended(r, told) /\ Breaks(r, DropHandle([b |-> brk, t |-> tk[r]], "req"))
  BY DEF Finish
<1> HIDE DEF told
<1>5. BreakerOk /\ Handles(r, tk[r].handles \ {"req"})
  BY <1>4, Drops DEF Types
<1> QED BY <1>2, <1>3, <1>4, <1>5, Ends DEF Types

-----------------------------------------------------------------------------
(* The gate's queue.                                                       *)

LEMMA Spliced ==
  ASSUME NEW S, NEW s \in Seq(S), NEW k \in 1..Len(s)
  PROVE  \E t \in Seq(S) :
           /\ t = SubSeq(s, 1, k - 1) \o SubSeq(s, k + 1, Len(s))
           /\ Len(t) = Len(s) - 1
           /\ \A i \in 1..Len(s) - 1 : t[i] = s[IF i < k THEN i ELSE i + 1]
<1> DEFINE n == Len(s)
           From(i) == IF i < k THEN i ELSE i + 1
<1>1. n \in Nat /\ k \in Nat /\ 1 <= k /\ k <= n
  OBVIOUS
<1>2. PICK a : a = SubSeq(s, 1, k - 1)
  OBVIOUS
<1>3. PICK b : b = SubSeq(s, k + 1, n)
  OBVIOUS
<1>4. a \in Seq(S) /\ Len(a) = k - 1 /\ \A i \in 1..k - 1 : a[i] = s[i]
  BY <1>1, <1>2
<1>5. b \in Seq(S) /\ Len(b) = n - k /\ \A i \in 1..n - k : b[i] = s[k + i]
  BY <1>1, <1>3
<1>6. PICK t : t = a \o b
  OBVIOUS
<1>7. /\ t \in Seq(S) /\ Len(t) = Len(a) + Len(b)
      /\ \A i \in 1..Len(a) : t[i] = a[i]
      /\ \A i \in 1..Len(b) : t[Len(a) + i] = b[i]
  <2>1. a \in Seq(S) /\ b \in Seq(S)
    BY <1>4, <1>5
  <2>2. /\ a \o b \in Seq(S) /\ Len(a \o b) = Len(a) + Len(b)
        /\ \A i \in 1..Len(a) : (a \o b)[i] = a[i]
        /\ \A i \in 1..Len(b) : (a \o b)[Len(a) + i] = b[i]
    BY <2>1
  <2>3. a \o b = t
    BY <1>6
  <2> QED BY <2>2, <2>3, Zenon
<1>8. t = SubSeq(s, 1, k - 1) \o SubSeq(s, k + 1, n)
  BY <1>2, <1>3, <1>6
<1> HIDE DEF n
<1>9. Len(t) = n - 1
  BY <1>1, <1>4, <1>5, <1>7
<1>10. \A i \in 1..n - 1 : t[i] = s[From(i)]
  <2> SUFFICES ASSUME NEW i \in 1..n - 1 PROVE t[i] = s[From(i)]
    OBVIOUS
  <2>1. CASE i < k
    <3>1. i \in 1..k - 1
      BY <1>1, <2>1
    <3> QED BY <1>4, <1>7, <2>1, <3>1
  <2>2. CASE ~(i < k)
    <3>1. PICK j \in 1..n - k : i = k - 1 + j /\ i + 1 = k + j
      <4>1. i - (k - 1) \in 1..n - k /\ i = k - 1 + (i - (k - 1)) /\ i + 1 = k + (i - (k - 1))
        BY <1>1, <2>2
      <4> QED BY <4>1
    <3>2. t[i] = b[j] /\ b[j] = s[i + 1]
      BY <1>4, <1>5, <1>7, <3>1
    <3> QED BY <2>2, <3>2
  <2> QED BY <2>1, <2>2
<1> QED BY <1>7, <1>8, <1>9, <1>10 DEF n

LEMMA Removed ==
  ASSUME NEW S, NEW s \in Seq(S), Distinct(s), NEW k \in 1..Len(s)
  PROVE  \E t \in Seq(S) :
           /\ t = SubSeq(s, 1, k - 1) \o SubSeq(s, k + 1, Len(s))
           /\ Len(t) <= Len(s) /\ Distinct(t) /\ Elems(t) = Elems(s) \ {s[k]}
<1> DEFINE n == Len(s)
           From(i) == IF i < k THEN i ELSE i + 1
<1>1. n \in Nat /\ k \in 1..n
  OBVIOUS
<1>t. PICK t \in Seq(S) :
        /\ t = SubSeq(s, 1, k - 1) \o SubSeq(s, k + 1, Len(s))
        /\ Len(t) = Len(s) - 1
        /\ \A i \in 1..Len(s) - 1 : t[i] = s[IF i < k THEN i ELSE i + 1]
  BY Spliced
<1>2. t \in Seq(S) /\ Len(t) = n - 1
  BY <1>t, Zenon
<1>3. \A i \in 1..n - 1 : t[i] = s[From(i)]
  BY <1>t, Zenon
<1> HIDE DEF n
<1>4. \A i \in 1..n - 1 : From(i) \in 1..n /\ From(i) # k
  BY <1>1
<1>5. \A i, j \in 1..n - 1 : From(i) = From(j) => i = j
  BY <1>1
<1>6. \A j \in 1..n : j # k => \E i \in 1..n - 1 : From(i) = j
  <2> SUFFICES ASSUME NEW j \in 1..n, j # k PROVE \E i \in 1..n - 1 : From(i) = j
    OBVIOUS
  <2>1. CASE j < k
    <3>1. j \in 1..n - 1 /\ From(j) = j
      BY <1>1, <2>1
    <3> QED BY <3>1
  <2>2. CASE j > k
    <3>1. j - 1 \in 1..n - 1 /\ From(j - 1) = j
      BY <1>1, <2>2
    <3> QED BY <3>1
  <2> QED BY <1>1, <2>1, <2>2
<1> HIDE DEF From
<1>7. \A i, j \in 1..n : s[i] = s[j] => i = j
  BY DEF Distinct, n
<1>8. Distinct(t)
  <2> SUFFICES ASSUME NEW i \in 1..n - 1, NEW j \in 1..n - 1, t[i] = t[j] PROVE i = j
    BY <1>2 DEF Distinct
  <2> QED BY <1>3, <1>4, <1>5, <1>7
<1>9. Elems(t) = Elems(s) \ {s[k]}
  <2>1. \A x : x \in Elems(t) <=> \E i \in 1..n - 1 : x = t[i]
    BY <1>2 DEF Elems
  <2>2. \A x : x \in Elems(s) <=> \E i \in 1..n : x = s[i]
    BY DEF Elems, n
  <2>3. ASSUME NEW x \in Elems(t) PROVE x \in Elems(s) \ {s[k]}
    <3>1. PICK i \in 1..n - 1 : x = t[i]
      BY <2>1, <2>3
    <3>2. x = s[From(i)] /\ From(i) \in 1..n /\ From(i) # k
      BY <1>3, <1>4, <3>1
    <3> QED BY <1>1, <1>7, <2>2, <3>2
  <2>4. ASSUME NEW x \in Elems(s) \ {s[k]} PROVE x \in Elems(t)
    <3>1. PICK j \in 1..n : x = s[j]
      BY <2>2, <2>4
    <3>2. PICK i \in 1..n - 1 : From(i) = j
      BY <1>6, <2>4, <3>1
    <3> QED BY <1>3, <2>1, <3>1, <3>2
  <2> QED BY <2>3, <2>4
<1>10. Len(t) <= n
  BY <1>1, <1>2
<1>11. t = SubSeq(s, 1, k - 1) \o SubSeq(s, k + 1, Len(s))
  BY <1>t
<1> QED BY <1>2, <1>8, <1>9, <1>10, <1>11, Zenon DEF n

LEMMA GateShrinks ==
  ASSUME GateInv, NEW r \in Requests, Others(r),
         req'[r].pc \in Waiting => req[r].pc \in Waiting
  PROVE  IsFiniteSet(Beyond') /\ Cardinality(Beyond') <= MaxRequests
<1>1. Beyond' \subseteq Beyond
  BY DEF Beyond, Others
<1>2. IsFiniteSet(Beyond') /\ Cardinality(Beyond') <= Cardinality(Beyond)
      /\ Cardinality(Beyond') \in Nat /\ Cardinality(Beyond) \in Nat
  BY <1>1, FS_Subset, FS_CardinalityType DEF GateInv
<1>3. MaxRequests \in Nat
  BY HttpAssumption
<1> QED BY <1>2, <1>3 DEF GateInv

LEMMA GateMoves ==
  ASSUME GateInv, NEW r \in Requests, Others(r),
         queue' \in Seq(Requests), Len(queue') <= MaxQueued, Distinct(queue'),
         Elems(queue') \ {r} = Elems(queue) \ {r},
         req'[r].pc = "queued" <=> r \in Elems(queue'),
         IsFiniteSet(Beyond'), Cardinality(Beyond') <= MaxRequests
  PROVE  GateInv'
<1>1. \A q \in Requests : q \in Elems(queue) <=> req[q].pc = "queued"
  BY DEF GateInv, Elems
<1>2. \A q \in Requests \ {r} : req'[q].pc = "queued" <=> q \in Elems(queue')
  BY <1>1 DEF Others
<1>3. \A q \in Requests : req'[q].pc = "queued" <=> \E i \in 1..Len(queue') : queue'[i] = q
  BY <1>2 DEF Elems
<1> QED BY <1>3 DEF GateInv, Distinct

-----------------------------------------------------------------------------
(* One lemma per action: the invariant is kept, and the breaker opens on   *)
(* fresh evidence.                                                         *)

StepOk == IInv' /\ FreshStep

LEMMA ReqNext ==
  ASSUME RequestTypes, NEW r \in Requests, NEW x, Becomes(r, x)
  PROVE  /\ x \in ReqType /\ req' \in [Requests -> ReqType] /\ req'[r] = x
         /\ \A q \in Requests \ {r} : req'[q] = req[q]
  BY DEF RequestTypes, Becomes

LEMMA TicketNext ==
  ASSUME BreakerTypes, NEW r \in Requests, NEW hs, Handles(r, hs)
  PROVE  /\ tk'[r].handles = hs /\ (tk'[r].handles = {} => tk'[r] = NoTicket)
         /\ \A q \in Requests \ {r} : tk'[q] = tk[q]
  BY DEF BreakerTypes, Handles

LEMMA DialNext ==
  ASSUME RequestTypes, NEW r \in Requests, NEW st, NEW c, [st |-> st, conn |-> c] \in DialType,
         Dials(r, st, c)
  PROVE  /\ dial' \in [Requests -> DialType] /\ dial'[r].st = st /\ dial'[r].conn = c
         /\ \A q \in Requests \ {r} : dial'[q] = dial[q]
<1> DEFINE d == [st |-> st, conn |-> c]
<1>1. d.st = st /\ d.conn = c
  OBVIOUS
<1>2. dial' = [dial EXCEPT ![r] = d]
  BY DEF Dials
<1> HIDE DEF d
<1> QED BY <1>1, <1>2 DEF RequestTypes, d

(* A step of r or of its dial, part by part.                               *)
LEMMA Steps ==
  ASSUME IInv, NEW r \in Requests, BreakerOk, RequestTypes', PoolTypes', Others(r), Held(r)',
         GateInv', ApartInv', CountInv', SleepInv', Wired(r)',
         \A q \in Requests \ {r} : q \in wire' <=> q \in wire,
         \A q \in Requests \ {r} : req[q].conn # NoConn /\ req[q].conn \notin Mine(r)
                                   => conn'[req[q].conn].sent = conn[req[q].conn].sent
  PROVE  StepOk
<1>1. HeldInv'
  BY HeldKeeps DEF IInv
<1>2. WireInv'
  BY WireKeeps DEF IInv, Types
<1> QED BY <1>1, <1>2 DEF IInv, Types, StepOk, BreakerOk

(* A step of r that leaves the sub-pool alone.                             *)
LEMMA Still ==
  ASSUME IInv, NEW r \in Requests, BreakerOk, RequestTypes', Others(r), Held(r)', GateInv',
         live' = live, dialing' = dialing, idle' = idle, slot' = slot,
         woken' \in {woken, woken \ {r}}, conn' = conn, wire' = wire, Mine(r)' = Mine(r), req'[r].pc # "parked", Wired(r)'
  PROVE  StepOk
<1>1. conn' \in [Conns -> ConnType]
  BY DEF IInv, Types, PoolTypes
<1>2. PoolTypes' /\ ApartInv' /\ CountInv' /\ SleepInv'
  BY <1>1, PoolsKeep DEF IInv
<1> QED BY <1>2, Steps

(* `run` ends having been nowhere near the pool.                           *)
LEMMA EndsEarly ==
  ASSUME IInv, NEW r \in Requests, req[r].pc \in {"new", "admitted"},
         NEW x, Becomes(r, x), x.pc = "done", x.conn = NoConn, x.closed = {},
         x.told \in {"cancelled", "forbidden", "unsent"},
         BreakerOk, Handles(r, {}), queue' = queue,
         UNCHANGED <<counts, dial, slot, pools, wire, drain>>
  PROVE  StepOk
<1>1. Types /\ Held(r) /\ Wired(r) /\ GateInv
  BY DEF IInv, HeldInv, WireInv
<1>2. /\ live' = live /\ dialing' = dialing /\ idle' = idle /\ woken' = woken /\ slot' = slot
      /\ conn' = conn /\ wire' = wire /\ dial' = dial /\ counts' = counts /\ drain' = drain
  BY DEF pools
<1>3. /\ req' \in [Requests -> ReqType] /\ req'[r] = x
      /\ \A q \in Requests \ {r} : req'[q] = req[q]
  BY <1>1, ReqNext DEF Types
<1>4. /\ tk'[r].handles = {} /\ tk'[r] = NoTicket
      /\ \A q \in Requests \ {r} : tk'[q] = tk[q]
  BY <1>1, TicketNext DEF Types
<1>5. Others(r) /\ RequestTypes'
  BY <1>1, <1>2, <1>3, <1>4 DEF Others, Types, RequestTypes
<1>6. req[r].conn = NoConn /\ req[r].closed = {} /\ dial[r].st = "none" /\ r \notin slot
      /\ dial[r].conn = NoConn
  BY <1>1 DEF Held, Carrying, Undialled, Running, Connected
<1>7. Held(r)'
  BY <1>2, <1>3, <1>4, <1>6 DEF Held, Carrying, Undialled, Answered, Running, Connected, Over
<1>8. Mine(r)' = Mine(r)
  BY <1>2, <1>3, <1>6 DEF Mine
<1>9. Wired(r)'
  BY <1>1, <1>2, <1>3 DEF Wired, Unsent, Undialled
<1>10. GateInv'
  BY <1>1, <1>3, <1>5, GateKeeps DEF Waiting
<1> QED BY <1>2, <1>3, <1>5, <1>7, <1>8, <1>9, <1>10, Still

LEMMA RefuseOk ==
  ASSUME IInv, NEW r \in Requests, Refuse(r)
  PROVE  StepOk
<1>1. Types /\ BreakerInv /\ Held(r)
  BY DEF IInv, HeldInv
<1>2. req[r].pc = "new" /\ Ended(r, "unsent") /\ queue' = queue /\ UNCHANGED breaker
      /\ UNCHANGED <<counts, dial, slot, pools, wire, drain>>
  BY DEF Refuse
<1>3. "unsent" \in Tolds
  BY DEF Tolds
<1>4. PICK x : /\ Becomes(r, x)
               /\ x.pc = "done" /\ x.conn = NoConn /\ x.closed = {} /\ x.told = "unsent"
  BY <1>1, <1>2, <1>3, Ends DEF Types
<1>5. BreakerOk /\ tk' = tk
  BY <1>1, <1>2, BreakerQuiet DEF Types
<1>6. tk[r] \in Ticket
  BY <1>1 DEF Types, BreakerTypes
<1>7. tk[r].handles = {} /\ tk[r] = NoTicket
  BY <1>1, <1>2, <1>6 DEF Held, Over, Undialled, Running, Connected, Ticket
<1>8. Handles(r, {})
  <2>1. tk' = [tk EXCEPT ![r] = tk[r]]
    BY <1>1, <1>5 DEF Types, BreakerTypes
  <2> QED BY <1>6, <1>7, <2>1 DEF Handles
<1> QED BY <1>2, <1>4, <1>5, <1>8, EndsEarly

LEMMA StopEventIs == StopEvent \in BeforeEvents /\ StopEvent \in DiscardEvents /\ StopEvent \in StopEvents
  BY DEF StopEvent, BeforeEvents, DiscardEvents, StopEvents

LEMMA LimitRefusesOk ==
  ASSUME IInv, NEW r \in Requests, LimitRefuses(r)
  PROVE  StepOk
<1>1. Types /\ BreakerInv /\ Held(r)
  BY DEF IInv, HeldInv
<1> DEFINE event == IF Stopped(r) THEN StopEvent ELSE "limit"
<1>2. req[r].pc = "admitted" /\ Finish(r, "before", event) /\ queue' = queue
      /\ UNCHANGED <<counts, dial, slot, pools, wire, drain>>
  BY DEF LimitRefuses
<1>3. event \in BeforeEvents
  BY StopEventIs DEF BeforeEvents
<1> HIDE DEF event
<1>4. BreakerOk /\ Handles(r, tk[r].handles \ {"req"})
  BY <1>1, <1>2, <1>3, EndsBefore
<1>5. PICK x : /\ Becomes(r, x)
               /\ x.pc = "done" /\ x.conn = NoConn /\ x.closed = {}
               /\ x.told \in {"cancelled", "forbidden", "unsent"}
  BY <1>1, <1>2, <1>3, EndsBefore
<1>6. tk[r] \in Ticket
  BY <1>1 DEF Types, BreakerTypes
<1>7. tk[r].handles \ {"req"} = {}
  BY <1>1, <1>2, <1>6 DEF Held, Over, Undialled, Running, Connected, Ticket
<1> QED BY <1>2, <1>4, <1>5, <1>7, EndsEarly

LEMMA Goes ==
  ASSUME RequestTypes, NEW r \in Requests, NEW pc \in Pcs, Goto(r, pc)
  PROVE  \E x : /\ Becomes(r, x) /\ x.pc = pc
                /\ x.idem = req[r].idem /\ x.conn = req[r].conn /\ x.closed = req[r].closed
                /\ x.told = req[r].told /\ x.why = req[r].why
<1>1. PICK x : x = [req[r] EXCEPT !.pc = pc]
  OBVIOUS
<1>2. req[r] \in ReqType
  BY DEF RequestTypes
<1>3. /\ x \in ReqType /\ x.pc = pc
      /\ x.idem = req[r].idem /\ x.conn = req[r].conn /\ x.closed = req[r].closed
      /\ x.told = req[r].told /\ x.why = req[r].why
  BY <1>1, <1>2 DEF ReqType
<1>4. req' = [req EXCEPT ![r] = x]
  BY <1>1 DEF Goto
<1> QED BY <1>3, <1>4 DEF Becomes

(* A request on its way to the pool holds a handle and nothing else.       *)
LEMMA EmptyHanded ==
  ASSUME IInv, NEW r \in Requests,
         req[r].pc \in {"new", "admitted", "queued", "take", "parked", "slot"}
  PROVE  /\ req[r].conn = NoConn /\ req[r].closed = {} /\ req[r].told = "none"
         /\ dial[r].st = "none" /\ dial[r].conn = NoConn
         /\ r \notin wire /\ Mine(r) = {}
         /\ r \in slot <=> req[r].pc = "slot"
         /\ tk[r].handles = IF req[r].pc = "new" THEN {} ELSE {"req"}
         /\ tk[r].handles = {} => tk[r] = NoTicket
<1>1. Types /\ Held(r) /\ Wired(r)
  BY DEF IInv, HeldInv, WireInv
<1>2. req[r].conn = NoConn /\ req[r].closed = {} /\ dial[r].st = "none"
  BY <1>1 DEF Held, Carrying, Undialled
<1>3. dial[r].conn = NoConn
  BY <1>1, <1>2 DEF Held, Connected
<1>4. r \in slot <=> req[r].pc = "slot"
  BY <1>1, <1>2 DEF Held, Running
<1>5. tk[r] \in Ticket /\ req[r] \in ReqType
  BY <1>1 DEF Types, BreakerTypes, RequestTypes
<1>6. "req" \in tk[r].handles <=> req[r].pc # "new"
  BY <1>1 DEF Held, Over
<1>7. "dial" \notin tk[r].handles
  BY <1>1, <1>2 DEF Held, Running, Connected
<1>8. tk[r].handles = IF req[r].pc = "new" THEN {} ELSE {"req"}
  BY <1>5, <1>6, <1>7 DEF Ticket
<1>9. req[r].told = "none"
  BY <1>1 DEF Held
<1>10. r \notin wire
  BY <1>1 DEF Wired, Unsent, Undialled
<1>11. Mine(r) = {}
  BY <1>2, <1>3 DEF Mine
<1>12. tk[r].handles = {} => tk[r] = NoTicket
  BY <1>1 DEF Held
<1> QED BY <1>2, <1>3, <1>4, <1>8, <1>9, <1>10, <1>11, <1>12

(* A step from one such place to another, with the handle.                 *)
LEMMA Proceeds ==
  ASSUME IInv, NEW r \in Requests, req[r].pc \in {"new", "admitted", "queued"},
         NEW x, Becomes(r, x), x.pc \in {"admitted", "queued", "take"},
         x.conn = req[r].conn, x.closed = req[r].closed, x.told = req[r].told,
         BreakerOk, Handles(r, {"req"}),
         UNCHANGED <<counts, dial, slot, pools, wire, drain>>
  PROVE  Others(r) /\ (GateInv' => StepOk)
<1>1. Types
  BY DEF IInv
<1>2. /\ live' = live /\ dialing' = dialing /\ idle' = idle /\ woken' = woken /\ slot' = slot
      /\ conn' = conn /\ wire' = wire /\ dial' = dial /\ counts' = counts /\ drain' = drain
  BY DEF pools
<1>3. /\ req' \in [Requests -> ReqType] /\ req'[r] = x
      /\ \A q \in Requests \ {r} : req'[q] = req[q]
  BY <1>1, ReqNext DEF Types
<1>4. tk'[r].handles = {"req"} /\ \A q \in Requests \ {r} : tk'[q] = tk[q]
  BY <1>1, TicketNext DEF Types
<1>5. Others(r) /\ RequestTypes'
  BY <1>1, <1>2, <1>3, <1>4 DEF Others, Types, RequestTypes
<1>6. /\ req[r].conn = NoConn /\ req[r].closed = {} /\ req[r].told = "none"
      /\ dial[r].st = "none" /\ dial[r].conn = NoConn /\ r \notin wire /\ r \notin slot
  BY EmptyHanded
<1>7. Held(r)'
  BY <1>2, <1>3, <1>4, <1>6 DEF Held, Carrying, Undialled, Answered, Running, Connected, Over
<1>8. Mine(r)' = Mine(r)
  BY <1>2, <1>3, <1>6 DEF Mine
<1>9. Wired(r)'
  BY <1>2, <1>3, <1>6 DEF Wired, Unsent, Undialled
<1> QED BY <1>2, <1>3, <1>5, <1>7, <1>8, <1>9, Still

LEMMA SameHandles ==
  ASSUME Types, BreakerInv, NEW r \in Requests, tk[r].handles # {}, UNCHANGED breaker
  PROVE  BreakerOk /\ Handles(r, tk[r].handles)
<1>1. BreakerOk /\ tk' = tk
  BY BreakerQuiet DEF Types
<1>2. tk[r] \in Ticket /\ tk' = [tk EXCEPT ![r] = tk[r]]
  BY <1>1 DEF Types, BreakerTypes
<1> QED BY <1>1, <1>2 DEF Handles

LEMMA AdmitOk ==
  ASSUME IInv, NEW r \in Requests, Admit(r)
  PROVE  StepOk
<1>1. Types /\ BreakerInv /\ GateInv
  BY DEF IInv
<1>2. req[r].pc = "new" /\ queue' = queue /\ UNCHANGED <<counts, dial, slot, pools, wire, drain>>
  BY DEF Admit
<1>3. tk[r] = NoTicket
  BY <1>2, EmptyHanded
<1>4. brk \in Breaker /\ req[r] \in ReqType
  BY <1>1 DEF Types, BreakerTypes, RequestTypes
<1>5. PICK x : /\ Becomes(r, x) /\ x.pc = "admitted"
               /\ x.conn = req[r].conn /\ x.closed = req[r].closed /\ x.told = req[r].told
  <2>1. PICK idem \in BOOLEAN :
          req' = [req EXCEPT ![r] = [req[r] EXCEPT !.pc = "admitted", !.idem = idem]]
    BY DEF Admit
  <2>2. PICK x : x = [req[r] EXCEPT !.pc = "admitted", !.idem = idem]
    OBVIOUS
  <2>3. "admitted" \in Pcs
    BY DEF Pcs
  <2>4. x.pc = "admitted" /\ x.conn = req[r].conn /\ x.closed = req[r].closed /\ x.told = req[r].told
    BY <1>4, <2>2 DEF ReqType
  <2>5. x \in ReqType
    BY <1>4, <2>2, <2>3 DEF ReqType
  <2> QED BY <2>1, <2>2, <2>4, <2>5 DEF Becomes
<1>6. BreakerOk /\ Handles(r, {"req"})
  <2>1. CASE /\ brk.st = "closed" /\ brk' = brk /\ period' = period \cup {r}
             /\ tk' = [tk EXCEPT ![r] = [probe |-> FALSE, gen |-> brk.gen,
                                         recorded |-> FALSE, handles |-> {"req"}]]
    <3>1. PICK u : u = [probe |-> FALSE, gen |-> brk.gen, recorded |-> FALSE, handles |-> {"req"}]
      OBVIOUS
    <3>2. u \in Ticket /\ ~u.probe /\ u.gen = brk.gen /\ u.handles = {"req"}
      BY <1>4, <3>1 DEF Ticket, Breaker
    <3>3. tk' = [tk EXCEPT ![r] = u] /\ ~tk[r].probe
      BY <1>3, <2>1, <3>1 DEF NoTicket
    <3> QED BY <1>1, <2>1, <3>2, <3>3, Joins DEF Types, Handles
  <2>2. CASE /\ (brk.st = "open" /\ brk.due) \/ (brk.st = "half" /\ ~brk.probing)
             /\ brk' = [brk EXCEPT !.st = "half", !.due = FALSE, !.probing = TRUE]
             /\ tk' = [tk EXCEPT ![r] = [probe |-> TRUE, gen |-> 0,
                                         recorded |-> FALSE, handles |-> {"req"}]]
             /\ period' = period
    <3>1. PICK u : u = [probe |-> TRUE, gen |-> 0, recorded |-> FALSE, handles |-> {"req"}]
      OBVIOUS
    <3>2. u \in Ticket /\ u.probe /\ ~u.recorded /\ u.handles = {"req"}
      BY <3>1 DEF Ticket
    <3>3. tk' = [tk EXCEPT ![r] = u]
      BY <2>2, <3>1
    <3>4. brk.st \in {"open", "half"} /\ ~brk.probing
      BY <1>1, <2>2 DEF BreakerInv, ProbeInv
    <3> QED BY <1>1, <2>2, <3>2, <3>3, <3>4, Probes DEF Types, Handles
  <2> QED BY <2>1, <2>2 DEF Admit
<1>7. Others(r) /\ (GateInv' => StepOk)
  BY <1>2, <1>5, <1>6, Proceeds
<1>8. req'[r] = x
  BY <1>1, <1>5, ReqNext DEF Types
<1>9. GateInv'
  BY <1>1, <1>2, <1>5, <1>7, <1>8, GateKeeps DEF Waiting
<1> QED BY <1>7, <1>9

LEMMA AcquireOk ==
  ASSUME IInv, NEW r \in Requests, Acquire(r)
  PROVE  StepOk
<1>1. Types /\ BreakerInv /\ GateInv
  BY DEF IInv
<1>2. req[r].pc = "admitted" /\ UNCHANGED <<counts, dial, slot, pools, wire, drain>>
  BY DEF Acquire
<1>3. tk[r].handles = {"req"}
  BY <1>2, EmptyHanded
<1>4. queue \in Seq(Requests) /\ Distinct(queue) /\ r \notin Elems(queue) /\ Len(queue) \in Nat
  BY <1>1, <1>2 DEF GateInv, Distinct, Elems
<1>5. MaxQueued \in Nat
  BY HttpAssumption
<1>6. ASSUME NEW pc \in {"take", "queued"}, Goto(r, pc), UNCHANGED breaker
      PROVE  Others(r) /\ req'[r].pc = pc /\ (GateInv' => StepOk)
  <2>1. pc \in Pcs
    BY DEF Pcs, Waiting
  <2>2. PICK x : /\ Becomes(r, x) /\ x.pc = pc
                 /\ x.conn = req[r].conn /\ x.closed = req[r].closed /\ x.told = req[r].told
    BY <1>1, <1>6, <2>1, Goes DEF Types
  <2>3. BreakerOk /\ Handles(r, {"req"})
    BY <1>1, <1>3, <1>6, SameHandles
  <2>4. req'[r] = x
    BY <1>1, <2>2, ReqNext DEF Types
  <2> QED BY <1>2, <2>2, <2>3, <2>4, Proceeds
<1>7. CASE SlotsHeld < MaxRequests /\ Goto(r, "take") /\ UNCHANGED <<queue, breaker>>
  <2>1. Others(r) /\ req'[r].pc = "take" /\ (GateInv' => StepOk) /\ queue' = queue
    BY <1>6, <1>7
  <2>2. IsFiniteSet(Beyond') /\ Cardinality(Beyond') <= MaxRequests
    BY <1>1, <1>2, <1>7, <2>1, GateAdmits DEF Waiting
  <2>3. GateInv'
    BY <1>1, <1>4, <2>1, <2>2, GateMoves DEF GateInv
  <2> QED BY <2>1, <2>3
<1>8. CASE Len(queue) < MaxQueued /\ queue' = Append(queue, r) /\ Goto(r, "queued")
           /\ UNCHANGED breaker
  <2>1. Others(r) /\ req'[r].pc = "queued" /\ (GateInv' => StepOk)
    BY <1>6, <1>8
  <2>2. IsFiniteSet(Beyond') /\ Cardinality(Beyond') <= MaxRequests
    BY <1>1, <2>1, GateShrinks DEF Waiting
  <2>3. queue' \in Seq(Requests) /\ Distinct(queue') /\ Elems(queue') = Elems(queue) \cup {r}
    BY <1>4, <1>8, Pushed
  <2>4. Len(queue') = Len(queue) + 1
    BY <1>4, <1>8
  <2>5. Len(queue') <= MaxQueued
    BY <1>4, <1>5, <1>8, <2>4
  <2>6. GateInv'
    BY <1>1, <2>1, <2>2, <2>3, <2>5, GateMoves
  <2> QED BY <2>1, <2>6
<1>9. CASE Finish(r, "before", "limit") /\ UNCHANGED queue
  <2>1. "limit" \in BeforeEvents /\ tk[r].handles \ {"req"} = {}
    BY <1>3 DEF BeforeEvents
  <2>2. BreakerOk /\ Handles(r, {})
    BY <1>1, <1>9, <2>1, EndsBefore
  <2>3. PICK x : /\ Becomes(r, x)
                 /\ x.pc = "done" /\ x.conn = NoConn /\ x.closed = {}
                 /\ x.told \in {"cancelled", "forbidden", "unsent"}
    BY <1>1, <1>9, <2>1, EndsBefore
  <2> QED BY <1>2, <1>9, <2>2, <2>3, EndsEarly
<1> QED BY <1>7, <1>8, <1>9 DEF Acquire

LEMMA GrantedOk ==
  ASSUME IInv, NEW r \in Requests, Granted(r)
  PROVE  StepOk
<1>1. Types /\ BreakerInv /\ GateInv
  BY DEF IInv
<1>2. /\ req[r].pc = "queued" /\ SlotsHeld < MaxRequests /\ Head(queue) = r
      /\ queue' = Tail(queue) /\ Goto(r, "take") /\ UNCHANGED breaker
      /\ UNCHANGED <<counts, dial, slot, pools, wire, drain>>
  BY DEF Granted
<1>3. tk[r].handles = {"req"}
  BY <1>2, EmptyHanded
<1>4. "take" \in Pcs
  BY DEF Pcs, Waiting
<1>5. PICK x : /\ Becomes(r, x) /\ x.pc = "take"
               /\ x.conn = req[r].conn /\ x.closed = req[r].closed /\ x.told = req[r].told
  BY <1>1, <1>2, <1>4, Goes DEF Types
<1>6. BreakerOk /\ Handles(r, {"req"})
  BY <1>1, <1>2, <1>3, SameHandles
<1>7. req'[r] = x
  BY <1>1, <1>5, ReqNext DEF Types
<1>8. Others(r) /\ (GateInv' => StepOk)
  BY <1>2, <1>5, <1>6, Proceeds
<1>9. IsFiniteSet(Beyond') /\ Cardinality(Beyond') <= MaxRequests
  BY <1>1, <1>2, <1>8, GateAdmits DEF Waiting
<1>10. queue \in Seq(Requests) /\ Distinct(queue) /\ queue # << >>
  BY <1>1, <1>2 DEF GateInv, Distinct
<1>11. /\ queue' \in Seq(Requests) /\ Distinct(queue')
       /\ Elems(queue') = Elems(queue) \ {r}
  BY <1>2, <1>10, Bottom
<1>12. Len(queue') <= MaxQueued
  <2>1. Len(queue') = Len(queue) - 1 /\ Len(queue) \in Nat
    BY <1>2, <1>10
  <2> QED BY <1>1, <2>1, HttpAssumption DEF GateInv
<1>13. GateInv'
  BY <1>1, <1>5, <1>7, <1>8, <1>9, <1>11, <1>12, GateMoves
<1> QED BY <1>8, <1>13

LEMMA GiveUpOk ==
  ASSUME IInv, NEW r \in Requests, GiveUp(r)
  PROVE  StepOk
<1>1. Types /\ BreakerInv /\ GateInv
  BY DEF IInv
<1>2. /\ req[r].pc \in {"queued", "parked", "take"} /\ LeaveQueue(r) /\ woken' = woken \ {r}
      /\ live' = live /\ dialing' = dialing /\ idle' = idle /\ slot' = slot
      /\ conn' = conn /\ wire' = wire /\ dial' = dial /\ counts' = counts /\ drain' = drain
  BY DEF GiveUp
<1>3. PICK event \in BeforeEvents : Finish(r, "before", event)
  BY StopEventIs DEF GiveUp, BeforeEvents
<1>4. /\ req[r].conn = NoConn /\ req[r].closed = {} /\ dial[r].st = "none"
      /\ dial[r].conn = NoConn /\ r \notin wire /\ r \notin slot /\ tk[r].handles = {"req"}
  BY <1>2, EmptyHanded
<1>5. tk[r].handles \ {"req"} = {}
  BY <1>4
<1>6. BreakerOk /\ Handles(r, {})
  BY <1>1, <1>3, <1>5, EndsBefore
<1>7. PICK x : /\ Becomes(r, x)
               /\ x.pc = "done" /\ x.conn = NoConn /\ x.closed = {}
               /\ x.told \in {"cancelled", "forbidden", "unsent"}
  BY <1>1, <1>3, EndsBefore
<1>8. /\ req' \in [Requests -> ReqType] /\ req'[r] = x
      /\ \A q \in Requests \ {r} : req'[q] = req[q]
  BY <1>1, <1>7, ReqNext DEF Types
<1>9. /\ tk'[r].handles = {} /\ tk'[r] = NoTicket
      /\ \A q \in Requests \ {r} : tk'[q] = tk[q]
  BY <1>1, <1>6, TicketNext DEF Types
<1>10. Others(r) /\ RequestTypes'
  BY <1>1, <1>2, <1>8, <1>9 DEF Others, Types, RequestTypes
<1>11. Held(r)'
  BY <1>2, <1>4, <1>7, <1>8, <1>9 DEF Held, Carrying, Undialled, Answered, Running, Connected, Over
<1>12. Mine(r)' = Mine(r)
  BY <1>2, <1>4, <1>7, <1>8 DEF Mine
<1>13. Wired(r)'
  BY <1>2, <1>4, <1>7, <1>8 DEF Wired, Unsent, Undialled
<1>14. GateInv'
  <2>1. IsFiniteSet(Beyond') /\ Cardinality(Beyond') <= MaxRequests
    BY <1>1, <1>7, <1>8, <1>10, GateShrinks DEF Waiting
  <2>2. queue \in Seq(Requests) /\ Distinct(queue) /\ DOMAIN queue = 1..Len(queue)
        /\ Len(queue) <= MaxQueued /\ Len(queue) \in Nat
    BY <1>1 DEF GateInv, Distinct
  <2>3. CASE \E i \in DOMAIN queue :
               /\ queue[i] = r
               /\ queue' = SubSeq(queue, 1, i - 1) \o SubSeq(queue, i + 1, Len(queue))
    <3>1. PICK i \in 1..Len(queue) :
               /\ queue[i] = r
               /\ queue' = SubSeq(queue, 1, i - 1) \o SubSeq(queue, i + 1, Len(queue))
      BY <2>2, <2>3
    <3>2. PICK t \in Seq(Requests) :
            /\ t = SubSeq(queue, 1, i - 1) \o SubSeq(queue, i + 1, Len(queue))
            /\ Len(t) <= Len(queue) /\ Distinct(t) /\ Elems(t) = Elems(queue) \ {queue[i]}
      BY <2>2, Removed
    <3>3. t \in Seq(Requests) /\ Len(t) <= Len(queue) /\ Distinct(t) /\ Elems(t) = Elems(queue) \ {r}
      BY <3>1, <3>2, Zenon
    <3>4. queue' = t
      BY <3>1, <3>2
    <3>5. queue' \in Seq(Requests) /\ Distinct(queue') /\ Elems(queue') = Elems(queue) \ {r}
      BY <3>3, <3>4, Zenon
    <3>6. Len(queue') <= MaxQueued
      <4>1. Len(t) <= MaxQueued
        <5>1. Len(t) \in Nat
          BY <3>3
        <5> QED BY <2>2, <3>3, <5>1, HttpAssumption
      <4> QED BY <3>4, <4>1
    <3> QED BY <1>1, <1>7, <1>8, <1>10, <2>1, <3>5, <3>6, GateMoves
  <2>4. CASE (\A i \in DOMAIN queue : queue[i] # r) /\ UNCHANGED queue
    <3>1. r \notin Elems(queue)
      BY <2>2, <2>4 DEF Elems
    <3> QED BY <1>1, <1>7, <1>8, <1>10, <2>1, <2>2, <2>4, <3>1, GateMoves
  <2> QED BY <1>2, <2>3, <2>4 DEF LeaveQueue
<1> QED BY <1>2, <1>6, <1>7, <1>8, <1>10, <1>11, <1>12, <1>13, <1>14, Still

-----------------------------------------------------------------------------
(* Pools::decide.                                                          *)

LEMMA DecisionFacts ==
  ASSUME Types, NEW r \in Requests
  PROVE  /\ Decision(r) \in {"idle", "again", "dial", "evict", "wait"}
         /\ Decision(r) = "idle" => Kept > 0
         /\ Decision(r) = "again" => Kept < Len(idle)
         /\ Decision(r) = "dial" => live < MaxConnections /\ dialing < MaxDials
         /\ Decision(r) = "evict" => Kept > 0 /\ live >= MaxConnections
         /\ Decision(r) = "wait" => Stuck
<1>1. Kept \in 0..Len(idle) /\ Len(idle) \in Nat /\ idle \in Seq(Conns)
  BY KeptExists DEF Types, PoolTypes
<1>2. live \in Int /\ dialing \in Int /\ MaxConnections \in Nat /\ MaxDials \in Nat
  BY HttpAssumption DEF Types, PoolTypes
<1>3. PICK k : k = Kept
  OBVIOUS
<1>4. PICK n : n = Len(idle)
  OBVIOUS
<1>5. PICK u \in BOOLEAN : u = (k > 0 /\ Usable(r, idle[k]))
  OBVIOUS
<1> DEFINE P1 == u
           P2 == k < n /\ ~u
           P3 == k = n /\ ~u /\ live < MaxConnections /\ dialing < MaxDials
           P4 == k = n /\ k > 0 /\ ~u /\ live >= MaxConnections
<1>6. Decision(r) = CASE P1 -> "idle" [] P2 -> "again" [] P3 -> "dial" [] P4 -> "evict"
                      [] OTHER -> "wait"
  BY <1>3, <1>4, <1>5 DEF Decision
<1>7. k \in 0..n /\ n \in Nat
  BY <1>1, <1>3, <1>4
<1>8. ~(P1 /\ P2) /\ ~(P1 /\ P3) /\ ~(P1 /\ P4) /\ ~(P2 /\ P3) /\ ~(P2 /\ P4) /\ ~(P3 /\ P4)
  BY <1>2, <1>7
<1>9. ~P1 /\ ~P2 /\ ~P3 /\ ~P4 => Stuck
  <2> SUFFICES ASSUME ~P1, ~P2, ~P3, ~P4 PROVE Stuck
    OBVIOUS
  <2>1. k = n
    BY <1>7
  <2>2. CASE live < MaxConnections
    BY <1>2, <2>1, <2>2 DEF Stuck
  <2>3. CASE live >= MaxConnections
    <3>1. n = 0
      BY <1>7, <2>1, <2>3
    <3>2. idle = << >>
      <4>1. idle \in Seq(Conns) /\ Len(idle) = 0
        BY <1>1, <1>4, <3>1
      <4> QED BY <4>1
    <3> QED BY <2>3, <3>2 DEF Stuck
  <2> QED BY <1>2, <2>2, <2>3
<1>10. k > 0 \/ ~P1
  BY <1>5
<1>11. P1 => Decision(r) = "idle"
  BY <1>6, <1>8
<1>12. P2 => Decision(r) = "again"
  BY <1>6, <1>8
<1>13. P3 => Decision(r) = "dial"
  BY <1>6, <1>8
<1>14. P4 => Decision(r) = "evict"
  BY <1>6, <1>8
<1>15. ~P1 /\ ~P2 /\ ~P3 /\ ~P4 => Decision(r) = "wait"
  BY <1>6
<1> QED BY <1>3, <1>4, <1>9, <1>10, <1>11, <1>12, <1>13, <1>14, <1>15

(* r takes connections off the stack, to use or to close.                  *)
LEMMA Takes ==
  ASSUME IInv, NEW r \in Requests, req[r].pc \in {"take", "parked"},
         NEW x, Becomes(r, x), x.pc \in {"got", "drop"}, x.told = "none",
         x.pc = "got" => x.conn # NoConn /\ x.closed = {},
         x.conn \notin x.closed,
         NEW took, took = ({x.conn} \cup x.closed) \ {NoConn},
         idle # << >>, idle' \in Seq(Conns), Distinct(idle'),
         Elems(idle') \cup took = Elems(idle), Elems(idle') \cap took = {},
         live' = live, dialing' = dialing, slot' = slot, woken' = woken \ {r},
         UNCHANGED breaker, UNCHANGED <<counts, queue, dial, conn, wire, drain>>
  PROVE  StepOk
<1>1. Types /\ BreakerInv /\ GateInv /\ HeldInv /\ ApartInv /\ CountInv /\ WireInv /\ SleepInv
  BY DEF IInv
<1>2. /\ req[r].conn = NoConn /\ req[r].closed = {} /\ dial[r].st = "none"
      /\ dial[r].conn = NoConn /\ r \notin wire /\ r \notin slot /\ tk[r].handles = {"req"}
      /\ Mine(r) = {}
  BY EmptyHanded
<1>3. BreakerOk /\ tk' = tk
  BY <1>1, BreakerQuiet DEF Types
<1>4. /\ x \in ReqType /\ req' \in [Requests -> ReqType] /\ req'[r] = x
      /\ \A q \in Requests \ {r} : req'[q] = req[q]
  BY <1>1, ReqNext DEF Types
<1>5. Others(r) /\ RequestTypes'
  BY <1>1, <1>3, <1>4 DEF Others, Types, RequestTypes
<1>6. PoolTypes'
  BY <1>1 DEF Types, PoolTypes
<1>7. Held(r)'
  BY <1>2, <1>3, <1>4 DEF Held, Carrying, Undialled, Answered, Running, Connected, Over
<1>9. GateInv'
  BY <1>1, <1>4, <1>5, GateKeeps DEF Waiting
<1>10. Mine(r)' = took
  BY <1>2, <1>4 DEF Mine
<1>11. Stack = Elems(idle) /\ Stack' = Elems(idle')
  BY <1>1, StackIs, StackIsNext DEF Types, PoolTypes
<1>12. ApartInv' /\ Owned' = Owned
  <2>1. Stack' \cup Mine(r)' = Stack \cup Mine(r) /\ Stack' \cap Mine(r)' = {}
    BY <1>2, <1>10, <1>11
  <2> QED BY <1>1, <1>5, <1>6, <2>1, Stays DEF Types
<1>13. CountInv'
  BY <1>1, <1>12 DEF CountInv
<1>14. Wired(r)'
  BY <1>2, <1>4 DEF Wired, Unsent, Undialled
<1>15. Stuck => Stuck'
  BY DEF Stuck
<1>16. SleepInv'
  BY <1>1, <1>4, <1>5, <1>15, SleepQuiet
<1> QED BY <1>3, <1>5, <1>6, <1>7, <1>9, <1>12, <1>13, <1>14, <1>16, Steps

LEMMA DecideOk ==
  ASSUME IInv, NEW r \in Requests, Decide(r)
  PROVE  StepOk
<1>1. Types /\ BreakerInv /\ GateInv /\ HeldInv /\ ApartInv /\ CountInv /\ WireInv /\ SleepInv
  BY DEF IInv
<1> DEFINE n == Len(idle)
           dead == {idle[i] : i \in Kept + 1..n}
<1>2. /\ req[r].pc \in {"take", "parked"} /\ woken' = woken \ {r} /\ UNCHANGED breaker
      /\ UNCHANGED <<counts, queue, dial, conn, wire, drain>>
  BY DEF Decide
<1>3. /\ req[r].conn = NoConn /\ req[r].closed = {} /\ req[r].told = "none"
      /\ dial[r].st = "none" /\ dial[r].conn = NoConn /\ r \notin wire /\ r \notin slot
      /\ tk[r].handles = {"req"} /\ Mine(r) = {}
  BY <1>2, EmptyHanded
<1>4. idle \in Seq(Conns) /\ Distinct(idle) /\ Kept \in 0..n /\ n \in Nat /\ req[r] \in ReqType
  BY <1>1, KeptExists DEF Types, PoolTypes, RequestTypes, ApartInv, Distinct
<1>5. NoConn \notin Conns
  BY HttpAssumption
<1>6. {"got", "drop", "slot", "parked"} \subseteq Pcs
  BY DEF Pcs, Waiting
<1>7. dead \subseteq Conns
  BY <1>4
<1>8. CASE Decision(r) = "idle"
  <2>1. /\ idle' = SubSeq(idle, 1, Kept - 1)
        /\ req' = [req EXCEPT ![r] = [req[r] EXCEPT !.pc = IF dead = {} THEN "got" ELSE "drop",
                                                    !.conn = idle[Kept], !.closed = dead]]
        /\ live' = live /\ dialing' = dialing /\ slot' = slot
    BY <1>8 DEF Decide
  <2>2. Kept \in 1..n /\ Kept - 1 \in 0..n /\ (Kept - 1) + 1 = Kept
    BY <1>1, <1>4, <1>8, DecisionFacts
  <2>3. idle[Kept] \in Conns /\ n > 0
    BY <1>4, <2>2
  <2>4. PICK took : took = {idle[i] : i \in (Kept - 1) + 1..n}
    OBVIOUS
  <2>5. PICK t : t = SubSeq(idle, 1, Kept - 1)
    OBVIOUS
  <2>6. t \in Seq(Conns) /\ Distinct(t) /\ Elems(t) \cap took = {} /\ Elems(t) \cup took = Elems(idle)
    BY <1>4, <2>2, <2>4, <2>5, Cut
  <2>7. PICK x : x = [req[r] EXCEPT !.pc = IF dead = {} THEN "got" ELSE "drop",
                                    !.conn = idle[Kept], !.closed = dead]
    OBVIOUS
  <2>8. /\ x.pc \in {"got", "drop"} /\ (x.pc = "got" => dead = {}) /\ x.conn = idle[Kept]
        /\ x.closed = dead /\ x.told = "none"
    <3> HIDE DEF dead
    <3> QED BY <1>3, <1>4, <2>7 DEF ReqType
  <2>9. x \in ReqType
    <3> HIDE DEF dead
    <3> QED BY <1>4, <1>6, <1>7, <2>3, <2>7 DEF ReqType
  <2>10. took = {idle[Kept]} \cup dead
    <3>1. \A i : i \in (Kept - 1) + 1..n <=> i = Kept \/ i \in Kept + 1..n
      BY <1>4, <2>2
    <3> QED BY <2>4, <3>1
  <2>11. idle[Kept] \notin dead
    <3>1. \A i \in Kept + 1..n : i \in 1..n /\ i # Kept
      BY <1>4, <2>2
    <3> QED BY <1>4, <2>2, <3>1 DEF Distinct
  <2>12. Becomes(r, x) /\ idle' = t /\ idle # << >>
    BY <2>1, <2>3, <2>5, <2>7, <2>9 DEF Becomes
  <2>13. took = ({x.conn} \cup x.closed) \ {NoConn}
    BY <1>5, <1>7, <2>3, <2>8, <2>10
  <2>14. x.conn \notin x.closed /\ (x.pc = "got" => x.conn # NoConn /\ x.closed = {})
    BY <1>5, <2>3, <2>8, <2>11
  <2> HIDE DEF dead, n
  <2> QED BY <1>2, <2>1, <2>6, <2>8, <2>12, <2>13, <2>14, Takes
<1>9. CASE Decision(r) = "again"
  <2>1. /\ idle' = SubSeq(idle, 1, Kept)
        /\ req' = [req EXCEPT ![r] = [req[r] EXCEPT !.pc = "drop", !.closed = dead]]
        /\ live' = live /\ dialing' = dialing /\ slot' = slot
    BY <1>9 DEF Decide
  <2>2. n > 0
    BY <1>1, <1>4, <1>9, DecisionFacts
  <2>3. PICK took : took = dead
    OBVIOUS
  <2>4. PICK t : t = SubSeq(idle, 1, Kept)
    OBVIOUS
  <2>5. t \in Seq(Conns) /\ Distinct(t) /\ Elems(t) \cap took = {} /\ Elems(t) \cup took = Elems(idle)
    BY <1>4, <2>3, <2>4, Cut
  <2>6. PICK x : x = [req[r] EXCEPT !.pc = "drop", !.closed = dead]
    OBVIOUS
  <2> HIDE DEF dead
  <2>7. /\ x \in ReqType /\ x.pc = "drop" /\ x.conn = NoConn /\ x.closed = dead /\ x.told = "none"
    BY <1>3, <1>4, <1>6, <1>7, <2>6 DEF ReqType
  <2>8. Becomes(r, x) /\ idle' = t /\ idle # << >>
    BY <2>1, <2>2, <2>4, <2>6, <2>7 DEF Becomes
  <2>9. took = ({x.conn} \cup x.closed) \ {NoConn} /\ x.conn \notin x.closed
    BY <1>5, <1>7, <2>3, <2>7
  <2> HIDE DEF n
  <2> QED BY <1>2, <2>1, <2>5, <2>7, <2>8, <2>9, Takes
<1>10. CASE Decision(r) = "evict"
  <2>1. /\ idle' = Tail(idle)
        /\ req' = [req EXCEPT ![r] = [req[r] EXCEPT !.pc = "drop", !.closed = {Head(idle)}]]
        /\ live' = live /\ dialing' = dialing /\ slot' = slot
    BY <1>10 DEF Decide
  <2>2. n > 0
    BY <1>1, <1>4, <1>10, DecisionFacts
  <2>3. idle # << >>
    BY <2>2
  <2>4. PICK h : h = Head(idle)
    OBVIOUS
  <2>5. PICK t : t = Tail(idle)
    OBVIOUS
  <2>6. h \in Elems(idle) /\ t \in Seq(Conns) /\ Distinct(t) /\ Elems(t) = Elems(idle) \ {h}
    BY <1>4, <2>3, <2>4, <2>5, Bottom
  <2>7. h \in Conns
    BY <1>4, <2>3, <2>4
  <2>8. PICK x : x = [req[r] EXCEPT !.pc = "drop", !.closed = {h}]
    OBVIOUS
  <2>9. /\ x \in ReqType /\ x.pc = "drop" /\ x.conn = NoConn /\ x.closed = {h} /\ x.told = "none"
    BY <1>3, <1>4, <1>6, <2>7, <2>8 DEF ReqType
  <2>10. Becomes(r, x) /\ idle' = t
    BY <2>1, <2>4, <2>5, <2>8, <2>9 DEF Becomes
  <2>11. PICK took : took = {h}
    OBVIOUS
  <2>12. took = ({x.conn} \cup x.closed) \ {NoConn} /\ x.conn \notin x.closed
    BY <1>5, <2>7, <2>9, <2>11
  <2>13. Elems(t) \cup took = Elems(idle) /\ Elems(t) \cap took = {}
    BY <2>6, <2>11
  <2> HIDE DEF n, dead
  <2> QED BY <1>2, <2>1, <2>3, <2>6, <2>9, <2>10, <2>12, <2>13, Takes
<1>11. CASE Decision(r) = "dial"
  <2>1. live' = live + 1 /\ dialing' = dialing + 1 /\ slot' = slot \cup {r} /\ Goto(r, "slot")
        /\ idle' = idle
    BY <1>11 DEF Decide
  <2> HIDE DEF n, dead
  <2>2. live < MaxConnections /\ dialing < MaxDials
    BY <1>1, <1>11, DecisionFacts
  <2>3. PICK x : /\ Becomes(r, x) /\ x.pc = "slot"
                 /\ x.conn = NoConn /\ x.closed = {} /\ x.told = "none"
    BY <1>1, <1>3, <1>6, <2>1, Goes DEF Types
  <2>4. BreakerOk /\ tk' = tk
    BY <1>1, <1>2, BreakerQuiet DEF Types
  <2>5. /\ req' \in [Requests -> ReqType] /\ req'[r] = x
        /\ \A q \in Requests \ {r} : req'[q] = req[q]
    BY <1>1, <2>3, ReqNext DEF Types
  <2>6. Others(r) /\ RequestTypes'
    BY <1>1, <1>2, <2>1, <2>4, <2>5 DEF Others, Types, RequestTypes
  <2>7. PoolTypes'
    BY <1>1, <1>2, <2>1 DEF Types, PoolTypes
  <2>8. Held(r)'
    BY <1>2, <1>3, <2>1, <2>3, <2>4, <2>5 DEF Held, Carrying, Undialled, Answered, Running, Connected, Over
  <2>10. GateInv'
    BY <1>1, <1>2, <2>3, <2>5, <2>6, GateKeeps DEF Waiting
  <2>11. Mine(r)' = Mine(r) /\ Stack' = Stack
    BY <1>2, <1>3, <2>1, <2>3, <2>5 DEF Mine, Stack
  <2>12. ApartInv' /\ Owned' = Owned
    <3>1. Stack' \cup Mine(r)' = Stack \cup Mine(r) /\ Stack' \cap Mine(r)' = {}
      BY <1>3, <2>11
    <3>2. Distinct(idle')
      BY <1>4, <2>1 DEF Distinct
    <3> QED BY <1>1, <2>6, <2>7, <3>1, <3>2, Stays DEF Types
  <2>13. CountInv'
    BY <1>1, <1>3, <2>1, <2>2, <2>12, CountReserves
  <2>14. Wired(r)'
    BY <1>2, <1>3, <2>3, <2>5 DEF Wired, Unsent, Undialled
  <2>16. ~Stuck
    <3>1. live \in Int /\ dialing \in Int /\ MaxConnections \in Nat /\ MaxDials \in Nat
      BY <1>1, HttpAssumption DEF Types, PoolTypes
    <3> QED BY <2>2, <3>1 DEF Stuck
  <2>17. SleepInv'
    BY <1>1, <1>2, <2>3, <2>5, <2>6, <2>16, SleepQuiet
  <2> QED BY <1>2, <2>4, <2>6, <2>7, <2>8, <2>10, <2>12, <2>13, <2>14, <2>17, Steps
<1>12. CASE Decision(r) = "wait"
  <2>1. Goto(r, "parked") /\ live' = live /\ dialing' = dialing /\ slot' = slot /\ idle' = idle
    BY <1>12 DEF Decide
  <2> HIDE DEF n, dead
  <2>2. Stuck /\ Stuck'
    BY <1>1, <1>12, <2>1, DecisionFacts DEF Stuck
  <2>3. PICK x : /\ Becomes(r, x) /\ x.pc = "parked"
                 /\ x.conn = NoConn /\ x.closed = {} /\ x.told = "none"
    BY <1>1, <1>3, <1>6, <2>1, Goes DEF Types
  <2>4. BreakerOk /\ tk' = tk
    BY <1>1, <1>2, BreakerQuiet DEF Types
  <2>5. /\ req' \in [Requests -> ReqType] /\ req'[r] = x
        /\ \A q \in Requests \ {r} : req'[q] = req[q]
    BY <1>1, <2>3, ReqNext DEF Types
  <2>6. Others(r) /\ RequestTypes'
    BY <1>1, <1>2, <2>1, <2>4, <2>5 DEF Others, Types, RequestTypes
  <2>7. PoolTypes'
    BY <1>1, <1>2, <2>1 DEF Types, PoolTypes
  <2>8. Held(r)'
    BY <1>2, <1>3, <2>1, <2>3, <2>4, <2>5 DEF Held, Carrying, Undialled, Answered, Running, Connected, Over
  <2>10. GateInv'
    BY <1>1, <1>2, <2>3, <2>5, <2>6, GateKeeps DEF Waiting
  <2>11. Mine(r)' = Mine(r) /\ Stack' = Stack
    BY <1>2, <1>3, <2>1, <2>3, <2>5 DEF Mine, Stack
  <2>12. ApartInv' /\ Owned' = Owned
    <3>1. Stack' \cup Mine(r)' = Stack \cup Mine(r) /\ Stack' \cap Mine(r)' = {}
      BY <1>3, <2>11
    <3>2. Distinct(idle')
      BY <1>4, <2>1 DEF Distinct
    <3> QED BY <1>1, <2>6, <2>7, <3>1, <3>2, Stays DEF Types
  <2>13. CountInv'
    BY <1>1, <2>1, <2>12 DEF CountInv
  <2>14. Wired(r)'
    BY <1>2, <1>3, <2>3, <2>5 DEF Wired, Unsent, Undialled
  <2>16. SleepInv'
    BY <1>1, <1>2, <2>2, <2>6, SleepQuiet
  <2> QED BY <1>2, <2>4, <2>6, <2>7, <2>8, <2>10, <2>12, <2>13, <2>14, <2>16, Steps
<1>13. Decision(r) \in {"idle", "again", "dial", "evict", "wait"}
  BY <1>1, DecisionFacts
<1> QED BY <1>8, <1>9, <1>10, <1>11, <1>12, <1>13

-----------------------------------------------------------------------------
(* Connections closed, connections handed back, and requests that are over. *)

LEMMA Closes ==
  ASSUME IInv, NEW r \in Requests, RequestTypes', Others(r), NEW gone, gone \subseteq Mine(r),
         Mine(r)' = Mine(r) \ gone, idle' = idle, slot' = slot, dialing' = dialing,
         Close(Cardinality(gone)), Gone(gone), req'[r].pc # "parked"
  PROVE  /\ PoolTypes' /\ ApartInv' /\ CountInv' /\ SleepInv'
         /\ \A c \in Conns \ gone : conn'[c] = conn[c]
<1>1. Types /\ ApartInv /\ CountInv
  BY DEF IInv
<1>2. live' = live - Cardinality(gone) /\ NotifyWaiters
  BY DEF Close
<1>3. conn' = [c \in Conns |-> IF c \in gone THEN NewConn ELSE conn[c]]
  BY DEF Gone
<1>4. NewConn \in ConnType
  BY DEF NewConn, ConnType
<1>5. conn' \in [Conns -> ConnType] /\ \A c \in Conns \ gone : conn'[c] = conn[c]
  BY <1>1, <1>3, <1>4 DEF Types, PoolTypes
<1>6. gone \subseteq Owned
  BY <1>1, OwnedIs DEF Types
<1>7. Cardinality(gone) \in Nat
  BY <1>1, <1>6, FS_Subset, FS_CardinalityType DEF CountInv
<1>8. PoolTypes'
  <2>1. live' \in Int
    BY <1>1, <1>2, <1>7 DEF Types, PoolTypes
  <2>2. woken' \in SUBSET Requests
    BY <1>1, <1>2 DEF NotifyWaiters, Types, PoolTypes
  <2> QED BY <1>1, <1>5, <2>1, <2>2 DEF Types, PoolTypes
<1>9. Stack' = Stack /\ Stack \cap Mine(r) = {}
      /\ \A i, j \in 1..Len(idle') : idle'[i] = idle'[j] => i = j
  BY <1>1 DEF Stack, ApartInv
<1>10. ApartInv' /\ Owned' = Owned \ gone
  <2> DEFINE E == {}
  <2>1. Stack' \cup Mine(r)' = ((Stack \cup Mine(r)) \ gone) \cup E /\ Stack' \cap Mine(r)' = {}
        /\ gone \subseteq Stack \cup Mine(r) /\ E \cap Owned = {}
    BY <1>9
  <2>2. Owned \ gone = (Owned \ gone) \cup E
    OBVIOUS
  <2> HIDE DEF E
  <2>3. ApartInv' /\ Owned' = (Owned \ gone) \cup E
    BY <1>1, <1>8, <1>9, <2>1, Shifts DEF Types
  <2> QED BY <2>2, <2>3
<1>11. CountInv'
  BY <1>1, <1>2, <1>6, <1>10, CountCloses
<1>12. SleepInv'
  BY <1>2, SleepLoud
<1> QED BY <1>5, <1>8, <1>10, <1>11, <1>12

LEMMA Returns ==
  ASSUME IInv, NEW r \in Requests, RequestTypes', Others(r), NEW c \in Mine(r),
         Mine(r)' = Mine(r) \ {c}, PutBack(c), conn' \in [Conns -> ConnType],
         slot' = slot, live' = live, dialing' = dialing, req'[r].pc # "parked"
  PROVE  PoolTypes' /\ ApartInv' /\ CountInv' /\ SleepInv'
<1>1. Types /\ ApartInv /\ CountInv
  BY DEF IInv
<1>2. idle' = Append(idle, c) /\ NotifyWaiters
  BY DEF PutBack
<1>3. c \in Conns
  BY <1>1, OwnedIs DEF Types
<1>4. idle \in Seq(Conns) /\ Distinct(idle) /\ Stack = Elems(idle) /\ Stack \cap Mine(r) = {}
  BY <1>1, StackIs DEF Types, PoolTypes, ApartInv, Distinct
<1>5. idle' \in Seq(Conns) /\ Distinct(idle') /\ Elems(idle') = Elems(idle) \cup {c}
  BY <1>2, <1>3, <1>4, Pushed
<1>6. Stack' = Stack \cup {c}
  BY <1>4, <1>5, StackIsNext
<1>7. PoolTypes'
  <2>1. woken' \in SUBSET Requests
    BY <1>1, <1>2 DEF NotifyWaiters, Types, PoolTypes
  <2> QED BY <1>1, <1>5, <2>1 DEF Types, PoolTypes
<1>8. Stack' \cup Mine(r)' = Stack \cup Mine(r) /\ Stack' \cap Mine(r)' = {}
  BY <1>4, <1>6
<1>9. ApartInv' /\ Owned' = Owned
  BY <1>1, <1>5, <1>7, <1>8, Stays DEF Types
<1>10. CountInv'
  BY <1>1, <1>9 DEF CountInv
<1>11. SleepInv'
  BY <1>2, SleepLoud
<1> QED BY <1>7, <1>9, <1>10, <1>11

LEMMA CheckedIn ==
  ASSUME Types, NEW c \in Conns, Checkin(c)
  PROVE  /\ PutBack(c) /\ conn' \in [Conns -> ConnType]
         /\ \A d \in Conns : conn'[d].sent = conn[d].sent
<1>1. PutBack(c) /\ conn' = [conn EXCEPT ![c].age = IF conn[c].age = "dead" THEN "dead" ELSE "fresh"]
  BY DEF Checkin
<1>2. conn \in [Conns -> ConnType]
  BY DEF Types, PoolTypes
<1>3. PICK v : v = [conn[c] EXCEPT !.age = IF conn[c].age = "dead" THEN "dead" ELSE "fresh"]
  OBVIOUS
<1>4. v \in ConnType /\ v.sent = conn[c].sent
  BY <1>2, <1>3 DEF ConnType
<1>5. conn' = [conn EXCEPT ![c] = v]
  BY <1>1, <1>3
<1> QED BY <1>1, <1>2, <1>4, <1>5

(* What is left of a request that is over: perhaps its dial.               *)
LEMMA DoneHeld ==
  ASSUME IInv, NEW r \in Requests, NEW x, Becomes(r, x), x.pc = "done", x.conn = NoConn,
         x.closed = {}, Handles(r, tk[r].handles \ {"req"}),
         dial'[r].st \notin Answered, dial'[r].conn # NoConn <=> dial'[r].st \in Connected,
         "dial" \in tk[r].handles <=> dial'[r].st \in Running \cup Connected,
         r \in slot' <=> dial'[r].st \in Running
  PROVE  Held(r)'
<1>1. Types
  BY DEF IInv
<1>2. req'[r] = x
  BY <1>1, ReqNext DEF Types
<1>3. tk'[r].handles = tk[r].handles \ {"req"} /\ (tk'[r].handles = {} => tk'[r] = NoTicket)
  BY <1>1, TicketNext DEF Types
<1>4. dial'[r].st \in Connected \cup {"answer"} <=> dial'[r].st \in Connected
  BY DEF Answered
<1> QED BY <1>2, <1>3, <1>4 DEF Held, Carrying, Undialled, Over

LEMMA DropClosedOk ==
  ASSUME IInv, NEW r \in Requests, DropClosed(r)
  PROVE  StepOk
<1>1. Types /\ BreakerInv /\ GateInv /\ Held(r) /\ Wired(r)
  BY DEF IInv, HeldInv, WireInv
<1> DEFINE gone == req[r].closed
           pc == IF req[r].conn = NoConn THEN "take" ELSE "got"
<1>2. /\ req[r].pc = "drop" /\ req' = [req EXCEPT ![r] = [req[r] EXCEPT !.closed = {}, !.pc = pc]]
      /\ Close(Cardinality(gone)) /\ Gone(gone) /\ UNCHANGED breaker
      /\ UNCHANGED <<counts, queue, dial, slot, dialing, idle, wire, drain>>
  BY DEF DropClosed
<1>3. req[r] \in ReqType /\ pc \in Pcs
  BY <1>1 DEF Types, RequestTypes, Pcs, Waiting
<1>4. PICK x : x = [req[r] EXCEPT !.closed = {}, !.pc = pc]
  OBVIOUS
<1>5. /\ x \in ReqType /\ x.pc = pc /\ x.conn = req[r].conn /\ x.closed = {}
      /\ x.told = req[r].told
  BY <1>3, <1>4 DEF ReqType
<1>6. Becomes(r, x)
  BY <1>2, <1>4, <1>5 DEF Becomes
<1>7. /\ req' \in [Requests -> ReqType] /\ req'[r] = x
      /\ \A q \in Requests \ {r} : req'[q] = req[q]
  BY <1>1, <1>6, ReqNext DEF Types
<1>8. BreakerOk /\ tk' = tk
  BY <1>1, <1>2, BreakerQuiet DEF Types
<1>9. Others(r) /\ RequestTypes'
  BY <1>1, <1>2, <1>7, <1>8 DEF Others, Types, RequestTypes
<1>10. dial[r].st = "none" /\ req[r].conn \notin gone /\ req[r].told = "none" /\ r \notin wire
       /\ gone \subseteq Conns
  BY <1>1, <1>2, <1>3 DEF Held, Undialled, Wired, Unsent, ReqType
<1>11. dial[r].conn = NoConn /\ r \notin slot
  BY <1>1, <1>2, <1>10 DEF Held, Connected, Running
<1>12. Held(r)'
  BY <1>1, <1>2, <1>5, <1>7, <1>8, <1>10, <1>11 DEF Held, Carrying, Undialled, Answered, Running, Connected, Over
<1>13. gone \subseteq Mine(r) /\ Mine(r)' = Mine(r) \ gone
  <2>1. NoConn \notin gone
    BY <1>10, HttpAssumption
  <2> QED BY <1>2, <1>5, <1>7, <1>10, <1>11, <2>1 DEF Mine
<1>14. x.pc \in {"take", "got"}
  BY <1>5
<1> HIDE DEF gone, pc
<1>15. /\ PoolTypes' /\ ApartInv' /\ CountInv' /\ SleepInv'
       /\ \A c \in Conns \ gone : conn'[c] = conn[c]
  BY <1>2, <1>7, <1>9, <1>13, <1>14, Closes
<1>16. GateInv'
  BY <1>1, <1>2, <1>7, <1>9, <1>14, GateKeeps DEF Waiting
<1>17. Wired(r)'
  BY <1>2, <1>5, <1>7, <1>10, <1>14 DEF Wired, Unsent, Undialled
<1>18. \A q \in Requests \ {r} : req[q].conn # NoConn /\ req[q].conn \notin Mine(r)
                                 => conn'[req[q].conn].sent = conn[req[q].conn].sent
  BY <1>1, <1>13, <1>15 DEF Types, RequestTypes, ReqType
<1> QED BY <1>2, <1>8, <1>9, <1>12, <1>15, <1>16, <1>17, <1>18, Steps

-----------------------------------------------------------------------------
(* The breaker is asked again.                                             *)

LEMMA ProbeGoesOn ==
  ASSUME Types, BreakerInv, NEW r \in Requests, NEW u \in Ticket, tk[r].probe,
         u.probe, u.recorded = tk[r].recorded,
         brk' = brk, period' = period, tk' = [tk EXCEPT ![r] = u]
  PROVE  BreakerOk
<1>1. tk \in [Requests -> Ticket] /\ tk'[r] = u /\ \A q \in Requests \ {r} : tk'[q] = tk[q]
  BY DEF Types, BreakerTypes
<1>2. BreakerTypes'
  BY DEF Types, BreakerTypes
<1>3. \A q \in Requests : Probing(q)' <=> Probing(q)
  BY <1>1 DEF Probing
<1>4. \A q \in Requests : Undecided(q)' <=> Undecided(q) /\ q # r
  BY <1>1 DEF Undecided
<1>5. ProbeInv'
  BY <1>3 DEF BreakerInv, ProbeInv
<1>6. PeriodInv'
  BY <1>1, <1>4 DEF BreakerInv, PeriodInv
<1>7. FreshStep
  BY DEF FreshStep
<1> QED BY <1>2, <1>5, <1>6, <1>7 DEF BreakerOk, BreakerInv

(* The connection goes back as it came.                                    *)
LEMMA HandsBack ==
  ASSUME IInv, NEW r \in Requests, req[r].pc \in {"got", "ready"}, NEW event \in BeforeEvents,
         Finish(r, "before", event), ReturnUnused(req[r].conn),
         UNCHANGED <<counts, queue, dial, slot, live, dialing, wire, drain>>
  PROVE  StepOk
<1>1. Types /\ BreakerInv /\ GateInv /\ Held(r) /\ Wired(r)
  BY DEF IInv, HeldInv, WireInv
<1>2. req[r] \in ReqType
  BY <1>1 DEF Types, RequestTypes
<1>3. /\ dial[r].st \in {"none", "over"} /\ req[r].closed = {} /\ r \notin wire
      /\ req[r].conn # NoConn
  BY <1>1, <1>2 DEF Held, Undialled, Wired, Unsent, Carrying
<1>4. dial[r].conn = NoConn /\ r \notin slot /\ "dial" \notin tk[r].handles
  BY <1>1, <1>3 DEF Held, Connected, Running
<1>5. Mine(r) = {req[r].conn}
  BY <1>3, <1>4, HttpAssumption DEF Mine
<1>6. BreakerOk /\ Handles(r, tk[r].handles \ {"req"})
  BY <1>1, EndsBefore
<1>7. PICK x : /\ Becomes(r, x)
               /\ x.pc = "done" /\ x.conn = NoConn /\ x.closed = {}
               /\ x.told \in {"cancelled", "forbidden", "unsent"}
  BY <1>1, EndsBefore
<1>8. /\ req' \in [Requests -> ReqType] /\ req'[r] = x
      /\ \A q \in Requests \ {r} : req'[q] = req[q]
  BY <1>1, <1>7, ReqNext DEF Types
<1>9. \A q \in Requests \ {r} : tk'[q] = tk[q]
  BY <1>1, <1>6, TicketNext DEF Types
<1>10. Others(r) /\ RequestTypes'
  BY <1>1, <1>8, <1>9 DEF Others, Types, RequestTypes
<1>11. Held(r)'
  BY <1>3, <1>4, <1>6, <1>7, DoneHeld DEF Answered, Connected, Running
<1>12. Mine(r)' = Mine(r) \ {req[r].conn} /\ req[r].conn \in Mine(r)
  BY <1>4, <1>5, <1>7, <1>8 DEF Mine
<1>13. PutBack(req[r].conn) /\ conn' = conn
  BY DEF ReturnUnused
<1>14. conn' \in [Conns -> ConnType]
  BY <1>1, <1>13 DEF Types, PoolTypes
<1>15. PoolTypes' /\ ApartInv' /\ CountInv' /\ SleepInv'
  BY <1>7, <1>8, <1>10, <1>12, <1>13, <1>14, Returns
<1>16. GateInv'
  BY <1>1, <1>7, <1>8, <1>10, GateKeeps DEF Waiting
<1>17. Wired(r)'
  BY <1>3, <1>7, <1>8 DEF Wired, Unsent, Undialled
<1> QED BY <1>6, <1>10, <1>11, <1>13, <1>15, <1>16, <1>17, Steps

LEMMA UseIdleOk ==
  ASSUME IInv, NEW r \in Requests, UseIdle(r)
  PROVE  StepOk
<1>1. Types /\ BreakerInv /\ GateInv /\ Held(r) /\ Wired(r)
  BY DEF IInv, HeldInv, WireInv
<1>2. req[r].pc = "got" /\ UNCHANGED <<counts, queue, dial, slot, wire, drain>>
  BY DEF UseIdle
<1>3. tk[r] \in Ticket /\ req[r] \in ReqType /\ brk \in Breaker
  BY <1>1 DEF Types, BreakerTypes, RequestTypes
<1>4. /\ dial[r].st = "none" /\ req[r].conn \in Conns /\ req[r].closed = {} /\ req[r].told = "none"
      /\ r \notin wire /\ "req" \in tk[r].handles /\ req[r].conn # NoConn
  BY <1>1, <1>2, <1>3 DEF Held, Undialled, Wired, Unsent, ReqType, Over, Carrying
<1>5. dial[r].conn = NoConn /\ r \notin slot /\ "dial" \notin tk[r].handles
  BY <1>1, <1>2, <1>4 DEF Held, Connected, Running
<1>6. Mine(r) = {req[r].conn}
  BY <1>4, <1>5, HttpAssumption DEF Mine
<1>7. CASE Recheck(r) /\ Rechecked(r) /\ Goto(r, "ready") /\ UNCHANGED pools
  <2>1. "ready" \in Pcs
    BY DEF Pcs, Waiting
  <2>2. PICK x : /\ Becomes(r, x) /\ x.pc = "ready" /\ x.conn = req[r].conn
                 /\ x.closed = {} /\ x.told = "none"
    BY <1>1, <1>4, <1>7, <2>1, Goes DEF Types
  <2>3. BreakerOk /\ Handles(r, tk[r].handles)
    <3>1. CASE tk[r].probe
      <4>1. UNCHANGED breaker
        BY <1>7, <3>1 DEF Rechecked
      <4>2. tk[r].handles # {}
        BY <1>4
      <4> QED BY <1>1, <4>1, <4>2, SameHandles
    <3>2. CASE ~tk[r].probe
      <4>1. /\ tk' = [tk EXCEPT ![r].gen = brk.gen] /\ period' = period \cup {r} /\ brk' = brk
            /\ brk.st = "closed"
        BY <1>7, <3>2 DEF Rechecked, Recheck
      <4>2. PICK u : u = [tk[r] EXCEPT !.gen = brk.gen]
        OBVIOUS
      <4>3. u \in Ticket /\ u.gen = brk.gen /\ ~u.probe /\ u.handles = tk[r].handles
        BY <1>3, <3>2, <4>2 DEF Ticket, Breaker
      <4>4. tk' = [tk EXCEPT ![r] = u]
        BY <4>1, <4>2
      <4>5. BreakerOk
        BY <1>1, <3>2, <4>1, <4>3, <4>4, Joins DEF Types
      <4> QED BY <1>4, <4>3, <4>4, <4>5 DEF Handles
    <3> QED BY <3>1, <3>2
  <2>4. /\ req' \in [Requests -> ReqType] /\ req'[r] = x
        /\ \A q \in Requests \ {r} : req'[q] = req[q]
    BY <1>1, <2>2, ReqNext DEF Types
  <2>5. tk'[r].handles = tk[r].handles /\ \A q \in Requests \ {r} : tk'[q] = tk[q]
    BY <1>1, <2>3, TicketNext DEF Types
  <2>6. Others(r) /\ RequestTypes'
    BY <1>1, <1>2, <2>4, <2>5 DEF Others, Types, RequestTypes
  <2>7. Held(r)'
    BY <1>2, <1>4, <1>5, <2>2, <2>4, <2>5 DEF Held, Carrying, Undialled, Answered, Running, Connected, Over
  <2>8. Mine(r)' = Mine(r)
    BY <1>2, <1>4, <2>2, <2>4 DEF Mine
  <2>9. Wired(r)'
    BY <1>2, <1>4, <2>2, <2>4 DEF Wired, Unsent, Undialled
  <2>10. GateInv'
    BY <1>1, <1>2, <2>2, <2>4, <2>6, GateKeeps DEF Waiting
  <2> QED BY <1>2, <1>7, <2>2, <2>3, <2>4, <2>6, <2>7, <2>8, <2>9, <2>10, Still DEF pools
<1>8. CASE /\ ReturnUnused(req[r].conn) /\ Finish(r, "before", "breaker")
           /\ UNCHANGED <<live, dialing>>
  <2>1. "breaker" \in BeforeEvents
    BY DEF BeforeEvents
  <2> QED BY <1>2, <1>8, <2>1, HandsBack
<1> QED BY <1>7, <1>8 DEF UseIdle

LEMMA DialTurns ==
  ASSUME RequestTypes, NEW r \in Requests,
         NEW st \in Running \cup Connected \cup Answered \cup {"none", "over"},
         dial' = [dial EXCEPT ![r].st = st]
  PROVE  /\ dial' \in [Requests -> DialType] /\ dial'[r].st = st
         /\ dial'[r].conn = dial[r].conn
         /\ \A q \in Requests \ {r} : dial'[q] = dial[q]
<1>1. dial \in [Requests -> DialType]
  BY DEF RequestTypes
<1>2. PICK d : d = [dial[r] EXCEPT !.st = st]
  OBVIOUS
<1>3. d \in DialType /\ d.st = st /\ d.conn = dial[r].conn
  BY <1>1, <1>2 DEF DialType
<1>4. dial' = [dial EXCEPT ![r] = d]
  BY <1>2
<1> QED BY <1>1, <1>3, <1>4

LEMMA StartDialOk ==
  ASSUME IInv, NEW r \in Requests, StartDial(r)
  PROVE  StepOk
<1>1. Types /\ BreakerInv /\ GateInv /\ CountInv /\ ApartInv
  BY DEF IInv
<1>2. req[r].pc = "slot" /\ UNCHANGED <<counts, queue, wire, drain>>
  BY DEF StartDial
<1>3. tk[r] \in Ticket /\ brk \in Breaker
  BY <1>1 DEF Types, BreakerTypes
<1>4. /\ req[r].conn = NoConn /\ req[r].closed = {} /\ req[r].told = "none"
      /\ dial[r].st = "none" /\ dial[r].conn = NoConn
      /\ r \notin wire /\ Mine(r) = {} /\ r \in slot /\ tk[r].handles = {"req"}
  BY <1>2, EmptyHanded
<1>5. CASE /\ Recheck(r) /\ brk' = brk
           /\ tk' = [tk EXCEPT ![r] = [tk[r] EXCEPT !.handles = {"req", "dial"},
                                             !.gen = IF tk[r].probe THEN 0 ELSE brk.gen]]
           /\ period' = IF tk[r].probe THEN period ELSE period \cup {r}
           /\ dial' = [dial EXCEPT ![r].st = "running"]
           /\ Goto(r, "dialing")
           /\ UNCHANGED <<slot, pools>>
  <2>1. "dialing" \in Pcs /\ "running" \in Running
    BY DEF Pcs, Waiting, Running
  <2>2. PICK x : /\ Becomes(r, x) /\ x.pc = "dialing" /\ x.conn = NoConn
                 /\ x.closed = {} /\ x.told = "none"
    BY <1>1, <1>4, <1>5, <2>1, Goes DEF Types
  <2>3. BreakerOk /\ Handles(r, {"req", "dial"})
    <3>1. PICK u : u = [tk[r] EXCEPT !.handles = {"req", "dial"},
                                     !.gen = IF tk[r].probe THEN 0 ELSE brk.gen]
      OBVIOUS
    <3>2. /\ u \in Ticket /\ u.gen = (IF tk[r].probe THEN 0 ELSE brk.gen)
          /\ u.probe = tk[r].probe /\ u.recorded = tk[r].recorded /\ u.handles = {"req", "dial"}
      <4>1. PICK g \in Nat : g = IF tk[r].probe THEN 0 ELSE brk.gen
        BY <1>3 DEF Breaker
      <4>2. u = [tk[r] EXCEPT !.handles = {"req", "dial"}, !.gen = g]
        BY <3>1, <4>1
      <4> QED BY <1>3, <4>1, <4>2 DEF Ticket
    <3>3. tk' = [tk EXCEPT ![r] = u]
      BY <1>5, <3>1
    <3>4. CASE tk[r].probe
      <4>1. u.probe /\ period' = period
        BY <1>5, <3>2, <3>4
      <4>2. BreakerOk
        BY <1>1, <1>5, <3>2, <3>3, <3>4, <4>1, ProbeGoesOn
      <4> QED BY <3>2, <3>3, <4>2 DEF Handles
    <3>5. CASE ~tk[r].probe
      <4>1. ~u.probe /\ period' = period \cup {r} /\ u.gen = brk.gen /\ brk.st = "closed"
        BY <1>5, <3>2, <3>5 DEF Recheck
      <4>2. BreakerOk
        BY <1>1, <1>5, <3>2, <3>3, <3>5, <4>1, Joins DEF Types
      <4> QED BY <3>2, <3>3, <4>2 DEF Handles
    <3> QED BY <3>4, <3>5
  <2>4. /\ req' \in [Requests -> ReqType] /\ req'[r] = x
        /\ \A q \in Requests \ {r} : req'[q] = req[q]
    BY <1>1, <2>2, ReqNext DEF Types
  <2>5. tk'[r].handles = {"req", "dial"} /\ \A q \in Requests \ {r} : tk'[q] = tk[q]
    BY <1>1, <2>3, TicketNext DEF Types
  <2>6. /\ dial' \in [Requests -> DialType] /\ dial'[r].st = "running"
        /\ dial'[r].conn = NoConn /\ \A q \in Requests \ {r} : dial'[q] = dial[q]
    BY <1>1, <1>4, <1>5, <2>1, DialTurns DEF Types
  <2>7. Others(r) /\ RequestTypes'
    BY <1>1, <1>2, <1>5, <2>4, <2>5, <2>6 DEF Others, Types, RequestTypes
  <2>8. Held(r)'
    BY <1>4, <1>5, <2>2, <2>4, <2>5, <2>6 DEF Held, Carrying, Undialled, Answered, Running, Connected, Over
  <2>9. Mine(r)' = Mine(r)
    BY <1>4, <2>2, <2>4, <2>6 DEF Mine
  <2>10. Wired(r)'
    BY <1>2, <1>4, <2>2, <2>4 DEF Wired, Unsent, Undialled
  <2>11. GateInv'
    BY <1>1, <1>2, <2>2, <2>4, <2>7, GateKeeps DEF Waiting
  <2> QED BY <1>2, <1>5, <2>2, <2>3, <2>4, <2>7, <2>8, <2>9, <2>10, <2>11, Still DEF pools
<1>6. CASE /\ slot' = slot \ {r} /\ dialing' = dialing - 1 /\ Close(1)
           /\ Finish(r, "before", "breaker")
           /\ UNCHANGED <<dial, idle, conn>>
  <2>1. "breaker" \in BeforeEvents
    BY DEF BeforeEvents
  <2>2. BreakerOk /\ Handles(r, tk[r].handles \ {"req"})
    BY <1>1, <1>6, <2>1, EndsBefore
  <2>3. PICK x : /\ Becomes(r, x)
                 /\ x.pc = "done" /\ x.conn = NoConn /\ x.closed = {}
                 /\ x.told \in {"cancelled", "forbidden", "unsent"}
    BY <1>1, <1>6, <2>1, EndsBefore
  <2>4. /\ req' \in [Requests -> ReqType] /\ req'[r] = x
        /\ \A q \in Requests \ {r} : req'[q] = req[q]
    BY <1>1, <2>3, ReqNext DEF Types
  <2>5. \A q \in Requests \ {r} : tk'[q] = tk[q]
    BY <1>1, <2>2, TicketNext DEF Types
  <2>6. Others(r) /\ RequestTypes'
    BY <1>1, <1>2, <1>6, <2>4, <2>5 DEF Others, Types, RequestTypes
  <2>7. Held(r)'
    <3>1. "dial" \notin tk[r].handles /\ r \notin slot'
      BY <1>4, <1>6
    <3> QED BY <1>4, <1>6, <2>2, <2>3, <3>1, DoneHeld DEF Answered, Connected, Running
  <2>8. Mine(r)' = Mine(r) /\ Stack' = Stack
    BY <1>4, <1>6, <2>3, <2>4 DEF Mine, Stack
  <2>9. live' = live - 1 /\ NotifyWaiters
    BY <1>6 DEF Close
  <2>10. PoolTypes'
    <3>1. woken' \in SUBSET Requests
      BY <1>1, <2>9 DEF NotifyWaiters, Types, PoolTypes
    <3> QED BY <1>1, <1>6, <2>9, <3>1 DEF Types, PoolTypes
  <2>11. ApartInv' /\ Owned' = Owned
    <3>1. Stack' \cup Mine(r)' = Stack \cup Mine(r) /\ Stack' \cap Mine(r)' = {}
      BY <1>4, <2>8
    <3>2. Distinct(idle')
      BY <1>1, <1>6 DEF Distinct, ApartInv
    <3> QED BY <1>1, <2>6, <2>10, <3>1, <3>2, Stays DEF Types
  <2>12. CountInv'
    BY <1>1, <1>4, <1>6, <2>9, <2>11, CountReleases
  <2>13. SleepInv'
    BY <2>3, <2>4, <2>6, <2>9, SleepLoud
  <2>14. GateInv'
    BY <1>1, <1>2, <2>3, <2>4, <2>6, GateKeeps DEF Waiting
  <2>15. Wired(r)'
    BY <1>2, <1>4, <2>3, <2>4 DEF Wired, Unsent, Undialled
  <2> QED BY <1>2, <1>6, <2>2, <2>6, <2>7, <2>10, <2>11, <2>12, <2>13, <2>14, <2>15, Steps
<1> QED BY <1>5, <1>6 DEF StartDial

-----------------------------------------------------------------------------
(* The detached dial.                                                      *)

(* While a dial is on its way or has answered, its requester awaits it, or *)
(* is over and holds nothing.                                              *)
LEMMA Dialling ==
  ASSUME IInv, NEW r \in Requests, dial[r].st \in Running \cup Connected \cup Answered
  PROVE  /\ req[r].pc \in {"dialing", "done", "gone"} /\ req[r].conn = NoConn /\ req[r].closed = {}
         /\ dial[r].st \in Answered => req[r].pc = "dialing"
         /\ Mine(r) = {dial[r].conn} \ {NoConn}
         /\ dial[r].conn # NoConn <=> dial[r].st \in Connected \cup {"answer"}
         /\ r \in slot <=> dial[r].st \in Running
         /\ "dial" \in tk[r].handles <=> dial[r].st \in Running \cup Connected
         /\ "req" \in tk[r].handles <=> req[r].pc = "dialing"
<1>1. Types /\ Held(r)
  BY DEF IInv, HeldInv
<1>2. req[r].pc \in Pcs
  BY <1>1 DEF Types, RequestTypes, ReqType
<1>3. dial[r].st # "none" /\ dial[r].st # "over"
  BY DEF Running, Connected, Answered
<1>4. req[r].pc \notin Undialled /\ req[r].pc \notin Carrying
  BY <1>1, <1>3 DEF Held
<1>5. req[r].pc \in {"dialing", "done", "gone"}
  BY <1>2, <1>4 DEF Pcs, Waiting, Undialled, Carrying
<1>6. req[r].conn = NoConn /\ req[r].closed = {}
  BY <1>1, <1>5 DEF Held, Carrying
<1>7. Mine(r) = {dial[r].conn} \ {NoConn}
  BY <1>6 DEF Mine
<1> QED BY <1>1, <1>5, <1>6, <1>7 DEF Held, Over

(* A step of the dial alone, its requester where it was.                   *)
LEMMA DialHeld ==
  ASSUME IInv, NEW r \in Requests, dial[r].st \in Running \cup Connected \cup Answered,
         req'[r] = req[r],
         dial'[r].st \in Answered => req[r].pc = "dialing",
         req[r].pc = "dialing" => dial'[r].st \notin {"none", "over"},
         dial'[r].conn # NoConn <=> dial'[r].st \in Connected \cup {"answer"},
         r \in slot' <=> dial'[r].st \in Running,
         "dial" \in tk'[r].handles <=> dial'[r].st \in Running \cup Connected,
         "req" \in tk'[r].handles <=> "req" \in tk[r].handles,
         tk'[r].handles = {} => tk'[r] = NoTicket
  PROVE  Held(r)'
<1>1. /\ req[r].pc \in {"dialing", "done", "gone"} /\ req[r].conn = NoConn /\ req[r].closed = {}
      /\ "req" \in tk[r].handles <=> req[r].pc = "dialing"
  BY Dialling
<1>2. req[r].told # "none" => req[r].pc = "done"
  BY DEF IInv, HeldInv, Held
<1> QED BY <1>1, <1>2 DEF Held, Carrying, Undialled, Over

LEMMA DialFailsOk ==
  ASSUME IInv, NEW r \in Requests, DialFails(r)
  PROVE  StepOk
<1>1. Types /\ BreakerInv /\ GateInv /\ Wired(r) /\ Held(r)
  BY DEF IInv, WireInv, HeldInv
<1>2. /\ dial[r].st = "running" /\ UNCHANGED breaker /\ UNCHANGED pools
      /\ UNCHANGED <<counts, req, queue, slot, wire, drain>>
  BY DEF DialFails
<1>3. PICK st \in {"down", "refused"} : Dials(r, st, NoConn)
  BY DEF DialFails
<1>4. dial[r].st \in Running /\ st \in Running /\ dial[r].st \notin Connected \cup {"answer"}
      /\ st \notin Connected \cup Answered \cup {"answer", "none", "over"}
  BY <1>2 DEF Running, Connected, Answered
<1>5. [st |-> st, conn |-> NoConn] \in DialType
  BY <1>4 DEF DialType
<1>6. /\ dial' \in [Requests -> DialType] /\ dial'[r].st = st /\ dial'[r].conn = NoConn
      /\ \A q \in Requests \ {r} : dial'[q] = dial[q]
  BY <1>1, <1>3, <1>5, DialNext DEF Types
<1>7. BreakerOk /\ tk' = tk
  BY <1>1, <1>2, BreakerQuiet DEF Types
<1>8. Others(r) /\ RequestTypes'
  BY <1>1, <1>2, <1>6, <1>7 DEF Others, Types, RequestTypes
<1>9. /\ dial[r].conn = NoConn /\ r \in slot /\ "dial" \in tk[r].handles
      /\ req[r].pc \in {"dialing", "done", "gone"}
  BY <1>4, Dialling
<1>10. Held(r)'
  BY <1>1, <1>2, <1>4, <1>6, <1>7, <1>9, DialHeld DEF Held
<1>11. Mine(r)' = Mine(r)
  BY <1>2, <1>6, <1>9 DEF Mine
<1>12. Wired(r)'
  BY <1>1, <1>2 DEF Wired, pools
<1>13. GateInv'
  BY <1>1, <1>2, <1>8, GateKeeps
<1> QED BY <1>2, <1>7, <1>8, <1>9, <1>10, <1>11, <1>12, <1>13, Still DEF pools

LEMMA DialRecordsOk ==
  ASSUME IInv, NEW r \in Requests, DialRecords(r)
  PROVE  StepOk
<1>1. Types /\ BreakerInv /\ GateInv /\ Wired(r) /\ Held(r)
  BY DEF IInv, WireInv, HeldInv
<1>2. /\ dial[r].st \in {"up", "down", "refused"} /\ UNCHANGED pools
      /\ UNCHANGED <<counts, req, queue, slot, wire, drain>>
      /\ Breaks(r, RecordAt([b |-> brk, t |-> tk[r]], DialOutcome(dial[r].st)))
  BY DEF DialRecords
<1>3. DialOutcome(dial[r].st) \in Outcomes \cup {"none"}
  <2>1. CASE dial[r].st = "up"
    <3>1. DialOutcome(dial[r].st) = IF counts = "connect" THEN "success" ELSE "none"
      BY <2>1, Zenon DEF DialOutcome
    <3> QED BY <3>1 DEF Outcomes
  <2>2. CASE dial[r].st = "down"
    <3>1. DialOutcome(dial[r].st) = "counted"
      BY <2>2, Zenon DEF DialOutcome
    <3> QED BY <3>1 DEF Outcomes
  <2>3. CASE dial[r].st = "refused"
    <3>1. DialOutcome(dial[r].st) = "none"
      BY <2>3, Zenon DEF DialOutcome
    <3> QED BY <3>1
  <2> QED BY <1>2, <2>1, <2>2, <2>3
<1>4. tk[r].handles = {} => tk[r] = NoTicket
  BY <1>1 DEF Held
<1>5. BreakerOk /\ Handles(r, tk[r].handles)
  BY <1>1, <1>2, <1>3, <1>4, Records DEF Types
<1>6. PICK st : /\ dial' = [dial EXCEPT ![r].st = st]
                /\ st \in {"upTold", "downTold", "refusedTold"}
                /\ st = "upTold" <=> dial[r].st = "up"
  <2> DEFINE st == CASE dial[r].st = "up" -> "upTold" [] dial[r].st = "down" -> "downTold"
                     [] dial[r].st = "refused" -> "refusedTold"
  <2>1. dial' = [dial EXCEPT ![r].st = st]
    BY DEF DialRecords
  <2>2. CASE dial[r].st = "up"
    <3>1. st = "upTold"
      BY <2>2, Zenon
    <3> QED BY <2>1, <2>2, <3>1
  <2>3. CASE dial[r].st = "down"
    <3>1. st = "downTold"
      BY <2>3, Zenon
    <3> QED BY <2>1, <2>3, <3>1
  <2>4. CASE dial[r].st = "refused"
    <3>1. st = "refusedTold"
      BY <2>4, Zenon
    <3> QED BY <2>1, <2>4, <3>1
  <2> QED BY <1>2, <2>2, <2>3, <2>4
<1>7. /\ st \in Running \cup Connected \cup Answered \cup {"none", "over"}
      /\ st \in Running <=> dial[r].st \in Running
      /\ st \in Connected <=> dial[r].st \in Connected
      /\ st \notin Answered \cup {"answer", "none", "over"}
      /\ dial[r].st \in Running \cup Connected
      /\ dial[r].st \notin Answered \cup {"answer", "none", "over"}
  BY <1>2, <1>6 DEF Running, Connected, Answered
<1>8. /\ dial' \in [Requests -> DialType] /\ dial'[r].st = st /\ dial'[r].conn = dial[r].conn
      /\ \A q \in Requests \ {r} : dial'[q] = dial[q]
  BY <1>1, <1>6, <1>7, DialTurns DEF Types
<1>9. /\ tk'[r].handles = tk[r].handles /\ (tk'[r].handles = {} => tk'[r] = NoTicket)
      /\ \A q \in Requests \ {r} : tk'[q] = tk[q]
  BY <1>1, <1>5, TicketNext DEF Types
<1>10. Others(r) /\ RequestTypes'
  BY <1>1, <1>2, <1>8, <1>9 DEF Others, Types, RequestTypes
<1>11. /\ dial[r].conn # NoConn <=> dial[r].st \in Connected \cup {"answer"}
       /\ r \in slot <=> dial[r].st \in Running
       /\ "dial" \in tk[r].handles /\ req[r].pc # "parked"
  BY <1>7, Dialling
<1>12. Held(r)'
  BY <1>2, <1>7, <1>8, <1>9, <1>11, DialHeld
<1>13. Mine(r)' = Mine(r)
  BY <1>2, <1>8 DEF Mine
<1>14. Wired(r)'
  BY <1>1, <1>2 DEF Wired, pools
<1>15. GateInv'
  BY <1>1, <1>2, <1>10, GateKeeps
<1> QED BY <1>2, <1>5, <1>10, <1>11, <1>12, <1>13, <1>14, <1>15, Still DEF pools

LEMMA DialConnectsOk ==
  ASSUME IInv, NEW r \in Requests, DialConnects(r)
  PROVE  StepOk
<1>1. Types /\ BreakerInv /\ GateInv /\ Wired(r) /\ Held(r) /\ ApartInv /\ CountInv
  BY DEF IInv, WireInv, HeldInv
<1>2. /\ dial[r].st = "running" /\ UNCHANGED breaker
      /\ UNCHANGED <<counts, req, queue, live, idle, wire, drain>>
      /\ slot' = slot \ {r} /\ dialing' = dialing - 1 /\ NotifyWaiters
  BY DEF DialConnects
<1>3. PICK c \in Conns \ InUse : Dials(r, "up", c) /\ conn' = [conn EXCEPT ![c] = NewConn]
  BY DEF DialConnects
<1>4. dial[r].st \in Running /\ dial[r].st \notin Connected \cup {"answer"}
      /\ "up" \in Connected /\ "up" \notin Running \cup Answered \cup {"none", "over"}
  BY <1>2 DEF Running, Connected, Answered
<1>5. [st |-> "up", conn |-> c] \in DialType /\ c # NoConn /\ c \in Conns
  BY <1>3, <1>4, HttpAssumption DEF DialType
<1>6. /\ dial' \in [Requests -> DialType] /\ dial'[r].st = "up" /\ dial'[r].conn = c
      /\ \A q \in Requests \ {r} : dial'[q] = dial[q]
  BY <1>1, <1>3, <1>5, DialNext DEF Types
<1>7. BreakerOk /\ tk' = tk
  BY <1>1, <1>2, BreakerQuiet DEF Types
<1>8. Others(r) /\ RequestTypes'
  BY <1>1, <1>2, <1>6, <1>7 DEF Others, Types, RequestTypes
<1>9. /\ r \in slot /\ "dial" \in tk[r].handles /\ dial[r].conn = NoConn
      /\ req[r].pc \in {"dialing", "done", "gone"} /\ req[r].conn = NoConn /\ req[r].closed = {}
  BY <1>4, Dialling
<1>10. Held(r)'
  <2>1. r \notin slot' /\ req'[r] = req[r] /\ (tk'[r].handles = {} => tk'[r] = NoTicket)
    BY <1>1, <1>2, <1>7 DEF Held
  <2> QED BY <1>4, <1>5, <1>6, <1>7, <1>9, <2>1, DialHeld
<1>11. c \notin Owned /\ Mine(r) = {} /\ Mine(r)' = {c} /\ Stack' = Stack
  BY <1>2, <1>3, <1>5, <1>6, <1>9 DEF Owned, Mine, Stack
<1>12. PoolTypes'
  <2>1. woken' \in SUBSET Requests
    BY <1>1, <1>2 DEF NotifyWaiters, Types, PoolTypes
  <2>2. NewConn \in ConnType
    BY DEF NewConn, ConnType
  <2>3. conn' \in [Conns -> ConnType]
    BY <1>1, <1>3, <2>2 DEF Types, PoolTypes
  <2> QED BY <1>1, <1>2, <2>1, <2>3 DEF Types, PoolTypes
<1>13. ApartInv' /\ Owned' = Owned \cup {c}
  <2> DEFINE E == {}
             new == {c}
  <2>1. Stack \subseteq Owned
    BY <1>1, OwnedIs DEF Types
  <2>2. Stack' \cup Mine(r)' = ((Stack \cup Mine(r)) \ E) \cup new /\ Stack' \cap Mine(r)' = {}
        /\ E \subseteq Stack \cup Mine(r) /\ new \cap Owned = {}
    BY <1>11, <2>1
  <2>3. (Owned \ E) \cup new = Owned \cup {c}
    OBVIOUS
  <2>4. \A i, j \in 1..Len(idle') : idle'[i] = idle'[j] => i = j
    BY <1>1, <1>2 DEF ApartInv
  <2> HIDE DEF E, new
  <2>5. ApartInv' /\ Owned' = (Owned \ E) \cup new
    BY <1>1, <1>8, <1>12, <2>2, <2>4, Shifts DEF Types
  <2> QED BY <2>3, <2>5
<1>14. CountInv'
  BY <1>1, <1>2, <1>9, <1>11, <1>13, CountConnects
<1>15. SleepInv'
  BY <1>2, <1>8, <1>9, SleepLoud
<1>16. GateInv'
  BY <1>1, <1>2, <1>8, GateKeeps
<1>17. Wired(r)'
  BY <1>1, <1>2, <1>9 DEF Wired
<1>18. \A q \in Requests \ {r} : req[q].conn # NoConn
                                 => conn'[req[q].conn].sent = conn[req[q].conn].sent
  <2> SUFFICES ASSUME NEW q \in Requests, req[q].conn # NoConn PROVE conn'[req[q].conn] = conn[req[q].conn]
    OBVIOUS
  <2>1. req[q].conn \in Owned
    BY <1>1, OwnedIs DEF Types, Mine
  <2>2. req[q].conn # c
    BY <1>11, <2>1
  <2>3. conn \in [Conns -> ConnType]
    BY <1>1 DEF Types, PoolTypes
  <2>4. req[q].conn \in Conns
    BY <1>1 DEF Types, RequestTypes, ReqType
  <2> QED BY <1>3, <2>2, <2>3, <2>4
<1> QED BY <1>2, <1>7, <1>8, <1>10, <1>12, <1>13, <1>14, <1>15, <1>16, <1>17, <1>18, Steps

(* The dial ends: a place it still has is freed, a connection is handed    *)
(* to the requester that waits for it, or pooled.                          *)
LEMMA DialEndsOk ==
  ASSUME IInv, NEW r \in Requests, DialEnds(r)
  PROVE  StepOk
<1>1. Types /\ BreakerInv /\ GateInv /\ Wired(r) /\ Held(r) /\ ApartInv /\ CountInv /\ SleepInv
  BY DEF IInv, WireInv, HeldInv
<1>2. /\ dial[r].st \in {"upTold", "downTold", "refusedTold"}
      /\ Breaks(r, DropHandle([b |-> brk, t |-> tk[r]], "dial"))
      /\ slot' = slot \ {r}
      /\ dialing' = (IF r \in slot THEN dialing - 1 ELSE dialing)
      /\ live' = (IF r \in slot THEN live - 1 ELSE live)
      /\ UNCHANGED <<counts, req, queue, wire, drain>>
  BY DEF DialEnds
<1>3. /\ dial[r].st \in Running \cup Connected /\ dial[r].st \notin Answered \cup {"answer"}
      /\ dial[r].st \in Running <=> dial[r].st \in {"downTold", "refusedTold"}
      /\ dial[r].st \in Connected <=> dial[r].st = "upTold"
  BY <1>2 DEF Running, Connected, Answered
<1>4. BreakerOk /\ Handles(r, tk[r].handles \ {"dial"})
  BY <1>1, <1>2, Drops DEF Types
<1>5. /\ tk'[r].handles = tk[r].handles \ {"dial"} /\ (tk'[r].handles = {} => tk'[r] = NoTicket)
      /\ \A q \in Requests \ {r} : tk'[q] = tk[q]
  BY <1>1, <1>4, TicketNext DEF Types
<1>6. /\ req[r].pc \in {"dialing", "done", "gone"} /\ req[r].conn = NoConn /\ req[r].closed = {}
      /\ Mine(r) = {dial[r].conn} \ {NoConn}
      /\ dial[r].conn # NoConn <=> dial[r].st = "upTold"
      /\ r \in slot <=> dial[r].st \in {"downTold", "refusedTold"}
  BY <1>3, Dialling
<1>7. PICK st : /\ IF req[r].pc = "dialing"
                   THEN st = (IF dial[r].st = "upTold" THEN "answer"
                              ELSE IF dial[r].st = "downTold" THEN "lost" ELSE "policy")
                   ELSE st = "over"
                /\ dial' = [dial EXCEPT ![r] =
                     [st |-> st, conn |-> IF st = "answer" THEN dial[r].conn ELSE NoConn]]
  <2>1. CASE req[r].pc = "dialing"
    <3> DEFINE st == CASE dial[r].st = "upTold" -> "answer" [] dial[r].st = "downTold" -> "lost"
                       [] dial[r].st = "refusedTold" -> "policy"
    <3>1. dial' = [dial EXCEPT ![r].st = st]
      BY <2>1 DEF DialEnds
    <3>2. st = (IF dial[r].st = "upTold" THEN "answer"
                ELSE IF dial[r].st = "downTold" THEN "lost" ELSE "policy")
      <4>1. CASE dial[r].st = "upTold"
        <5>1. st = "answer"
          BY <4>1, Zenon
        <5> QED BY <4>1, <5>1
      <4>2. CASE dial[r].st = "downTold"
        <5>1. st = "lost"
          BY <4>2, Zenon
        <5> QED BY <4>2, <5>1
      <4>3. CASE dial[r].st = "refusedTold"
        <5>1. st = "policy"
          BY <4>3, Zenon
        <5> QED BY <4>3, <5>1
      <4> QED BY <1>2, <4>1, <4>2, <4>3
    <3> HIDE DEF st
    <3>3. st = "answer" <=> dial[r].st = "upTold"
      BY <3>2
    <3>4. dial[r] \in DialType
      BY <1>1 DEF Types, RequestTypes
    <3>5. [dial[r] EXCEPT !.st = st]
            = [st |-> st, conn |-> IF st = "answer" THEN dial[r].conn ELSE NoConn]
      BY <1>6, <3>3, <3>4 DEF DialType
    <3> QED BY <2>1, <3>1, <3>2, <3>5
  <2>2. CASE req[r].pc # "dialing"
    BY <2>2 DEF DialEnds, Dials
  <2> QED BY <2>1, <2>2
<1>8. st \in Answered \cup {"over"} /\ (st = "over" <=> req[r].pc # "dialing")
      /\ st \notin Running \cup Connected
      /\ (st = "answer" <=> dial[r].st = "upTold" /\ req[r].pc = "dialing")
  BY <1>7 DEF Answered, Running, Connected
<1> DEFINE c == IF st = "answer" THEN dial[r].conn ELSE NoConn
<1>9. [st |-> st, conn |-> c] \in DialType /\ Dials(r, st, c)
  <2>1. dial[r].conn \in Conns \cup {NoConn}
    BY <1>1 DEF Types, RequestTypes, DialType
  <2> QED BY <1>7, <1>8, <2>1 DEF Dials, DialType
<1> HIDE DEF c
<1>10. /\ dial' \in [Requests -> DialType] /\ dial'[r].st = st /\ dial'[r].conn = c
       /\ \A q \in Requests \ {r} : dial'[q] = dial[q]
  BY <1>1, <1>9, DialNext DEF Types
<1>11. Others(r) /\ RequestTypes'
  BY <1>1, <1>2, <1>5, <1>10 DEF Others, Types, RequestTypes
<1>12. c # NoConn <=> st = "answer"
  BY <1>6, <1>8 DEF c
<1>13. Held(r)'
  <2>1. /\ r \notin slot' /\ req'[r] = req[r] /\ "dial" \notin tk'[r].handles
        /\ ("req" \in tk'[r].handles <=> "req" \in tk[r].handles)
    BY <1>2, <1>5
  <2>2. st # "none" /\ (st \in Answered => req[r].pc = "dialing")
        /\ (st \in Connected \cup {"answer"} <=> st = "answer")
    BY <1>8 DEF Answered
  <2> QED BY <1>3, <1>5, <1>8, <1>10, <1>12, <2>1, <2>2, DialHeld
<1>14. GateInv'
  BY <1>1, <1>2, <1>11, GateKeeps
<1>15. Mine(r)' = {c} \ {NoConn}
  BY <1>2, <1>6, <1>10 DEF Mine
<1>16. CASE dial[r].st = "upTold" /\ req[r].pc = "dialing"
  <2>1. UNCHANGED <<idle, conn, woken>> /\ slot' = slot /\ live' = live /\ dialing' = dialing
    BY <1>2, <1>6, <1>16 DEF DialEnds
  <2>2. Mine(r)' = Mine(r)
    BY <1>6, <1>8, <1>15, <1>16 DEF c
  <2>3. Wired(r)'
    BY <1>1, <1>2, <2>1 DEF Wired
  <2> QED BY <1>2, <1>4, <1>6, <1>11, <1>13, <1>14, <2>1, <2>2, <2>3, Still
<1>17. CASE dial[r].st = "upTold" /\ req[r].pc # "dialing"
  <2>1. Checkin(dial[r].conn) /\ slot' = slot /\ live' = live /\ dialing' = dialing
    BY <1>2, <1>6, <1>17 DEF DialEnds
  <2>2. dial[r].conn \in Conns
    BY <1>1, <1>6, <1>17 DEF Types, RequestTypes, DialType
  <2>3. /\ PutBack(dial[r].conn) /\ conn' \in [Conns -> ConnType]
        /\ \A d \in Conns : conn'[d].sent = conn[d].sent
    BY <1>1, <2>1, <2>2, CheckedIn
  <2>4. dial[r].conn \in Mine(r) /\ Mine(r)' = Mine(r) \ {dial[r].conn}
    BY <1>6, <1>8, <1>12, <1>15, <1>17
  <2>5. PoolTypes' /\ ApartInv' /\ CountInv' /\ SleepInv'
    BY <1>2, <1>6, <1>11, <2>1, <2>3, <2>4, Returns
  <2>6. Wired(r)'
    BY <1>1, <1>2, <1>6, <1>17 DEF Wired
  <2>7. \A q \in Requests : req[q].conn # NoConn => req[q].conn \in Conns
    BY <1>1 DEF Types, RequestTypes, ReqType
  <2> QED BY <1>2, <1>4, <1>11, <1>13, <1>14, <2>3, <2>5, <2>6, <2>7, Steps
<1>18. CASE dial[r].st \in {"downTold", "refusedTold"}
  <2>1. /\ NotifyWaiters /\ UNCHANGED <<idle, conn>> /\ r \in slot
        /\ live' = live - 1 /\ dialing' = dialing - 1
    BY <1>2, <1>6, <1>18 DEF DialEnds
  <2>2. Mine(r) = {} /\ Mine(r)' = {} /\ Stack' = Stack
    BY <1>6, <1>8, <1>12, <1>15, <1>18, <2>1 DEF Stack
  <2>3. PoolTypes'
    <3>1. woken' \in SUBSET Requests
      BY <1>1, <2>1 DEF NotifyWaiters, Types, PoolTypes
    <3> QED BY <1>1, <1>2, <2>1, <3>1 DEF Types, PoolTypes
  <2>4. ApartInv' /\ Owned' = Owned
    <3>1. Stack' \cup Mine(r)' = Stack \cup Mine(r) /\ Stack' \cap Mine(r)' = {}
      BY <2>2
    <3>2. Distinct(idle')
      BY <1>1, <2>1 DEF Distinct, ApartInv
    <3> QED BY <1>1, <1>11, <2>3, <3>1, <3>2, Stays DEF Types
  <2>5. CountInv'
    BY <1>1, <1>2, <2>1, <2>4, CountReleases
  <2>6. SleepInv'
    BY <1>2, <1>6, <1>11, <2>1, SleepLoud
  <2>7. Wired(r)'
    BY <1>1, <1>2, <2>1 DEF Wired
  <2> QED BY <1>2, <1>4, <1>11, <1>13, <1>14, <2>1, <2>3, <2>4, <2>5, <2>6, <2>7, Steps
<1> QED BY <1>2, <1>16, <1>17, <1>18

LEMMA DialledOk ==
  ASSUME IInv, NEW r \in Requests, Dialled(r)
  PROVE  StepOk
<1>1. Types /\ BreakerInv /\ GateInv /\ Wired(r) /\ Held(r)
  BY DEF IInv, WireInv, HeldInv
<1>2. /\ req[r].pc = "dialing" /\ dial[r].st \in {"answer", "lost", "policy"}
      /\ Dials(r, "over", NoConn) /\ UNCHANGED pools
      /\ UNCHANGED <<counts, queue, slot, wire, drain>>
  BY DEF Dialled
<1>3. dial[r].st \in Answered /\ dial[r].st \notin Running \cup Connected
  BY <1>2 DEF Running, Connected, Answered
<1>4. /\ req[r].conn = NoConn /\ req[r].closed = {} /\ Mine(r) = {dial[r].conn} \ {NoConn}
      /\ dial[r].conn # NoConn <=> dial[r].st = "answer"
      /\ r \notin slot /\ "dial" \notin tk[r].handles /\ "req" \in tk[r].handles
  BY <1>2, <1>3, Dialling
<1>5. [st |-> "over", conn |-> NoConn] \in DialType
  BY DEF DialType
<1>6. /\ dial' \in [Requests -> DialType] /\ dial'[r].st = "over" /\ dial'[r].conn = NoConn
      /\ \A q \in Requests \ {r} : dial'[q] = dial[q]
  BY <1>1, <1>2, <1>5, DialNext DEF Types
<1>7. r \notin wire /\ req[r].told = "none"
  BY <1>1, <1>2 DEF Wired, Unsent, Held
<1>8. CASE /\ dial[r].st = "answer" /\ UNCHANGED breaker
           /\ req' = [req EXCEPT ![r] = [req[r] EXCEPT !.pc = "ready", !.conn = dial[r].conn]]
  <2>1. req[r] \in ReqType /\ dial[r].conn \in Conns \cup {NoConn} /\ "ready" \in Pcs
    BY <1>1 DEF Types, RequestTypes, DialType, Pcs, Waiting
  <2>2. PICK x : x = [req[r] EXCEPT !.pc = "ready", !.conn = dial[r].conn]
    OBVIOUS
  <2>3. /\ x \in ReqType /\ x.pc = "ready" /\ x.conn = dial[r].conn /\ x.closed = {} /\ x.told = "none"
    BY <1>4, <1>7, <2>1, <2>2 DEF ReqType
  <2>4. Becomes(r, x)
    BY <1>8, <2>2, <2>3 DEF Becomes
  <2>5. /\ req' \in [Requests -> ReqType] /\ req'[r] = x
        /\ \A q \in Requests \ {r} : req'[q] = req[q]
    BY <1>1, <2>4, ReqNext DEF Types
  <2>6. BreakerOk /\ tk' = tk
    BY <1>1, <1>8, BreakerQuiet DEF Types
  <2>7. Others(r) /\ RequestTypes'
    BY <1>1, <1>2, <1>6, <2>5, <2>6 DEF Others, Types, RequestTypes
  <2>8. Held(r)'
    BY <1>2, <1>4, <1>6, <1>8, <2>3, <2>5, <2>6 DEF Held, Carrying, Undialled, Answered, Running, Connected, Over
  <2>9. Mine(r)' = Mine(r)
    BY <1>4, <1>6, <2>3, <2>5 DEF Mine
  <2>10. Wired(r)'
    BY <1>2, <1>7, <2>3, <2>5 DEF Wired, Unsent, Undialled
  <2>11. GateInv'
    BY <1>1, <1>2, <2>3, <2>5, <2>7, GateKeeps DEF Waiting
  <2> QED BY <1>2, <2>3, <2>5, <2>6, <2>7, <2>8, <2>9, <2>10, <2>11, Still DEF pools
<1>9. CASE dial[r].st \in {"lost", "policy"} /\ Finish(r, "before", dial[r].st)
  <2>1. dial[r].st \in BeforeEvents /\ dial[r].conn = NoConn
    BY <1>4, <1>9 DEF BeforeEvents
  <2>2. BreakerOk /\ Handles(r, tk[r].handles \ {"req"})
    BY <1>1, <1>9, <2>1, EndsBefore
  <2>3. PICK x : /\ Becomes(r, x)
                 /\ x.pc = "done" /\ x.conn = NoConn /\ x.closed = {}
                 /\ x.told \in {"cancelled", "forbidden", "unsent"}
    BY <1>1, <1>9, <2>1, EndsBefore
  <2>4. /\ req' \in [Requests -> ReqType] /\ req'[r] = x
        /\ \A q \in Requests \ {r} : req'[q] = req[q]
    BY <1>1, <2>3, ReqNext DEF Types
  <2>5. \A q \in Requests \ {r} : tk'[q] = tk[q]
    BY <1>1, <2>2, TicketNext DEF Types
  <2>6. Others(r) /\ RequestTypes'
    BY <1>1, <1>2, <1>6, <2>4, <2>5 DEF Others, Types, RequestTypes
  <2>7. Held(r)'
    BY <1>2, <1>4, <1>6, <2>2, <2>3, DoneHeld DEF Answered, Connected, Running
  <2>8. Mine(r)' = Mine(r)
    BY <1>4, <1>6, <2>1, <2>3, <2>4 DEF Mine
  <2>9. Wired(r)'
    BY <1>2, <1>7, <2>3, <2>4 DEF Wired, Unsent, Undialled
  <2>10. GateInv'
    BY <1>1, <1>2, <2>3, <2>4, <2>6, GateKeeps DEF Waiting
  <2> QED BY <1>2, <2>2, <2>3, <2>4, <2>6, <2>7, <2>8, <2>9, <2>10, Still DEF pools
<1> QED BY <1>8, <1>9 DEF Dialled

LEMMA LeaveDialOk ==
  ASSUME IInv, NEW r \in Requests, LeaveDial(r)
  PROVE  StepOk
<1>1. Types /\ BreakerInv /\ GateInv /\ Wired(r) /\ Held(r)
  BY DEF IInv, WireInv, HeldInv
<1>2. req[r].pc = "dialing" /\ UNCHANGED <<counts, queue, slot, live, dialing, wire, drain>>
  BY DEF LeaveDial
<1>3. PICK event \in BeforeEvents : Finish(r, "before", event)
  BY StopEventIs DEF LeaveDial, BeforeEvents
<1>4. BreakerOk /\ Handles(r, tk[r].handles \ {"req"})
  BY <1>1, <1>3, EndsBefore
<1>5. PICK x : /\ Becomes(r, x)
               /\ x.pc = "done" /\ x.conn = NoConn /\ x.closed = {}
               /\ x.told \in {"cancelled", "forbidden", "unsent"}
  BY <1>1, <1>3, EndsBefore
<1>6. /\ req' \in [Requests -> ReqType] /\ req'[r] = x
      /\ \A q \in Requests \ {r} : req'[q] = req[q]
  BY <1>1, <1>5, ReqNext DEF Types
<1>7. \A q \in Requests \ {r} : tk'[q] = tk[q]
  BY <1>1, <1>4, TicketNext DEF Types
<1>8. dial[r].st \in Running \cup Connected \cup Answered
  BY <1>1, <1>2 DEF Held, Types, RequestTypes, DialType
<1>9. /\ req[r].conn = NoConn /\ req[r].closed = {} /\ Mine(r) = {dial[r].conn} \ {NoConn}
      /\ dial[r].conn # NoConn <=> dial[r].st \in Connected \cup {"answer"}
      /\ r \in slot <=> dial[r].st \in Running
      /\ "dial" \in tk[r].handles <=> dial[r].st \in Running \cup Connected
  BY <1>8, Dialling
<1>10. r \notin wire
  BY <1>1, <1>2 DEF Wired, Unsent
<1>11. Wired(r)'
  BY <1>2, <1>5, <1>6, <1>10 DEF Wired, Unsent, Undialled
<1>12. CASE dial[r].st \notin Answered /\ UNCHANGED <<dial, idle, conn, woken>>
  <2>1. Others(r) /\ RequestTypes'
    BY <1>1, <1>2, <1>6, <1>7, <1>12 DEF Others, Types, RequestTypes
  <2>2. Held(r)'
    <3>1. dial[r].conn # NoConn <=> dial[r].st \in Connected
      BY <1>9, <1>12 DEF Answered
    <3> QED BY <1>2, <1>4, <1>5, <1>9, <1>12, <3>1, DoneHeld
  <2>3. Mine(r)' = Mine(r)
    BY <1>5, <1>6, <1>9, <1>12 DEF Mine
  <2>4. GateInv'
    BY <1>1, <1>2, <1>5, <1>6, <2>1, GateKeeps DEF Waiting
  <2> QED BY <1>2, <1>4, <1>5, <1>6, <1>11, <1>12, <2>1, <2>2, <2>3, <2>4, Still
<1>13. CASE /\ dial[r].st \in Answered /\ Dials(r, "over", NoConn)
            /\ IF dial[r].st = "answer" THEN Checkin(dial[r].conn)
               ELSE UNCHANGED <<idle, conn, woken>>
  <2>1. [st |-> "over", conn |-> NoConn] \in DialType
    BY DEF DialType
  <2>2. /\ dial' \in [Requests -> DialType] /\ dial'[r].st = "over" /\ dial'[r].conn = NoConn
        /\ \A q \in Requests \ {r} : dial'[q] = dial[q]
    BY <1>1, <1>13, <2>1, DialNext DEF Types
  <2>3. Others(r) /\ RequestTypes'
    BY <1>1, <1>2, <1>6, <1>7, <2>2 DEF Others, Types, RequestTypes
  <2>4. dial[r].st \notin Running \cup Connected
    BY <1>13 DEF Answered, Running, Connected
  <2>5. Held(r)'
    BY <1>2, <1>4, <1>5, <1>9, <2>2, <2>4, DoneHeld DEF Answered, Running, Connected
  <2>6. Mine(r)' = {}
    BY <1>5, <1>6, <2>2 DEF Mine
  <2>7. GateInv'
    BY <1>1, <1>2, <1>5, <1>6, <2>3, GateKeeps DEF Waiting
  <2>8. CASE dial[r].st = "answer"
    <3>1. Checkin(dial[r].conn) /\ dial[r].conn # NoConn
      BY <1>9, <1>13, <2>8
    <3>2. dial[r].conn \in Conns
      BY <1>1, <3>1 DEF Types, RequestTypes, DialType
    <3>3. /\ PutBack(dial[r].conn) /\ conn' \in [Conns -> ConnType]
          /\ \A d \in Conns : conn'[d].sent = conn[d].sent
      BY <1>1, <3>1, <3>2, CheckedIn
    <3>4. dial[r].conn \in Mine(r) /\ Mine(r)' = Mine(r) \ {dial[r].conn}
      BY <1>9, <2>6, <3>1
    <3>5. PoolTypes' /\ ApartInv' /\ CountInv' /\ SleepInv'
      BY <1>2, <1>5, <1>6, <2>3, <3>3, <3>4, Returns
    <3>6. \A q \in Requests : req[q].conn # NoConn => req[q].conn \in Conns
      BY <1>1 DEF Types, RequestTypes, ReqType
    <3> QED BY <1>2, <1>4, <1>11, <2>3, <2>5, <2>7, <3>3, <3>5, <3>6, Steps
  <2>9. CASE dial[r].st # "answer"
    <3>1. Mine(r) = {}
      BY <1>9, <2>4, <2>9
    <3>2. UNCHANGED <<idle, conn, woken>>
      BY <1>13, <2>9
    <3> QED BY <1>2, <1>4, <1>5, <1>6, <1>11, <2>3, <2>5, <2>6, <2>7, <3>1, <3>2, Still
  <2> QED BY <2>8, <2>9
<1> QED BY <1>12, <1>13 DEF LeaveDial, Answered

-----------------------------------------------------------------------------
(* Dispatch, and hyper's task.                                             *)

LEMMA NotDispatchedOk ==
  ASSUME IInv, NEW r \in Requests, NotDispatched(r)
  PROVE  StepOk
<1>1. /\ req[r].pc = "ready" /\ ReturnUnused(req[r].conn)
      /\ UNCHANGED <<counts, queue, dial, slot, live, dialing, wire, drain>>
  BY DEF NotDispatched
<1>2. PICK event \in BeforeEvents : Finish(r, "before", event)
  BY StopEventIs DEF NotDispatched, BeforeEvents
<1> QED BY <1>1, <1>2, HandsBack

(* A request with its connection.                                          *)
LEMMA Laden ==
  ASSUME IInv, NEW r \in Requests, req[r].pc \in {"ready", "dispatched", "body", "closing"}
  PROVE  /\ req[r].conn \in Conns /\ req[r].closed = {} /\ req[r].told = "none"
         /\ dial[r].st \in {"none", "over"} /\ dial[r].conn = NoConn
         /\ Mine(r) = {req[r].conn} /\ r \notin slot
         /\ "req" \in tk[r].handles /\ "dial" \notin tk[r].handles
<1>1. Types /\ Held(r)
  BY DEF IInv, HeldInv
<1>2. req[r] \in ReqType /\ NoConn \notin Conns
  BY <1>1, HttpAssumption DEF Types, RequestTypes
<1>3. /\ req[r].conn # NoConn /\ req[r].closed = {} /\ req[r].told = "none"
      /\ dial[r].st \in {"none", "over"}
  BY <1>1 DEF Held, Carrying
<1>4. dial[r].conn = NoConn /\ r \notin slot /\ "dial" \notin tk[r].handles
  BY <1>1, <1>3 DEF Held, Connected, Running
<1>5. "req" \in tk[r].handles
  BY <1>1 DEF Held, Over
<1>6. req[r].conn \in Conns
  BY <1>2, <1>3 DEF ReqType
<1>7. Mine(r) = {req[r].conn}
  BY <1>2, <1>3, <1>4, <1>6 DEF Mine
<1> QED BY <1>3, <1>4, <1>5, <1>6, <1>7

(* ...that goes on with it, or starts to discard it.                       *)
LEMMA GoesOn ==
  ASSUME IInv, NEW r \in Requests, req[r].pc \in {"ready", "dispatched", "body", "closing"},
         NEW x, Becomes(r, x), x.pc \in {"dispatched", "body", "closing"},
         x.conn = req[r].conn, x.closed = {}, x.told = "none",
         BreakerOk, Handles(r, tk[r].handles),
         live' = live, dialing' = dialing, idle' = idle, woken' = woken,
         conn' \in [Conns -> ConnType],
         \A c \in Conns \ {req[r].conn} : conn'[c].sent = conn[c].sent,
         \A q \in Requests \ {r} : q \in wire' <=> q \in wire,
         UNCHANGED <<counts, queue, dial, slot, drain>>, Wired(r)'
  PROVE  StepOk
<1>1. Types /\ GateInv /\ ApartInv /\ CountInv /\ SleepInv
  BY DEF IInv
<1>2. /\ req[r].conn \in Conns /\ req[r].closed = {}
      /\ dial[r].st \in {"none", "over"} /\ dial[r].conn = NoConn
      /\ Mine(r) = {req[r].conn} /\ r \notin slot
      /\ "req" \in tk[r].handles /\ "dial" \notin tk[r].handles
  BY Laden
<1>3. /\ req' \in [Requests -> ReqType] /\ req'[r] = x
      /\ \A q \in Requests \ {r} : req'[q] = req[q]
  BY <1>1, ReqNext DEF Types
<1>4. tk'[r].handles = tk[r].handles /\ \A q \in Requests \ {r} : tk'[q] = tk[q]
  BY <1>1, TicketNext DEF Types
<1>5. Others(r) /\ RequestTypes'
  BY <1>1, <1>3, <1>4 DEF Others, Types, RequestTypes
<1>6. NoConn \notin Conns
  BY HttpAssumption
<1>7. Held(r)'
  BY <1>2, <1>3, <1>4, <1>6 DEF Held, Carrying, Undialled, Answered, Running, Connected, Over
<1>8. Mine(r)' = Mine(r)
  BY <1>2, <1>3 DEF Mine
<1>9. PoolTypes' /\ ApartInv' /\ CountInv' /\ SleepInv'
  BY <1>1, <1>3, <1>5, <1>8, PoolsKeep
<1>10. GateInv'
  BY <1>1, <1>3, <1>5, GateKeeps DEF Waiting
<1>11. \A q \in Requests \ {r} : req[q].conn # NoConn /\ req[q].conn \notin Mine(r)
                                 => conn'[req[q].conn].sent = conn[req[q].conn].sent
  BY <1>1, <1>2 DEF Types, RequestTypes, ReqType
<1> QED BY <1>5, <1>7, <1>9, <1>10, <1>11, Steps

LEMMA DispatchOk ==
  ASSUME IInv, NEW r \in Requests, Dispatch(r)
  PROVE  StepOk
<1>1. Types /\ BreakerInv /\ Wired(r)
  BY DEF IInv, WireInv
<1> DEFINE c == req[r].conn
<1>2. /\ req[r].pc = "ready" /\ conn' = [conn EXCEPT ![c].sent = FALSE] /\ Goto(r, "dispatched")
      /\ UNCHANGED breaker /\ UNCHANGED <<counts, queue, dial, slot, drain>>
      /\ live' = live /\ dialing' = dialing /\ idle' = idle /\ woken' = woken /\ wire' = wire
  BY DEF Dispatch
<1>3. /\ c \in Conns /\ req[r].closed = {} /\ req[r].told = "none" /\ tk[r].handles # {}
  BY <1>2, Laden
<1>4. "dispatched" \in Pcs
  BY DEF Pcs, Waiting
<1>5. PICK x : /\ Becomes(r, x) /\ x.pc = "dispatched" /\ x.conn = c
               /\ x.closed = {} /\ x.told = "none"
  BY <1>1, <1>2, <1>3, <1>4, Goes DEF Types
<1>6. BreakerOk /\ Handles(r, tk[r].handles)
  BY <1>1, <1>2, <1>3, SameHandles
<1>7. /\ conn' \in [Conns -> ConnType] /\ conn'[c].sent = FALSE
      /\ \A d \in Conns \ {c} : conn'[d].sent = conn[d].sent
  <2> HIDE DEF c
  <2>1. conn \in [Conns -> ConnType]
    BY <1>1 DEF Types, PoolTypes
  <2>2. PICK v : v = [conn[c] EXCEPT !.sent = FALSE]
    OBVIOUS
  <2>3. v \in ConnType /\ v.sent = FALSE
    BY <1>3, <2>1, <2>2 DEF ConnType
  <2>4. conn' = [conn EXCEPT ![c] = v]
    BY <1>2, <2>2
  <2> QED BY <1>3, <2>1, <2>3, <2>4
<1>8. req'[r] = x
  BY <1>1, <1>5, ReqNext DEF Types
<1>9. Wired(r)'
  <2>1. r \notin wire'
    BY <1>1, <1>2 DEF Wired, Unsent
  <2> QED BY <1>5, <1>7, <1>8, <2>1 DEF Wired, Unsent, Undialled
<1> QED BY <1>2, <1>3, <1>5, <1>6, <1>7, <1>9, GoesOn

LEMMA WritesOk ==
  ASSUME IInv, NEW r \in Requests, Writes(r)
  PROVE  StepOk
<1>1. Types /\ BreakerInv /\ Wired(r)
  BY DEF IInv, WireInv
<1> DEFINE c == req[r].conn
<1>2. /\ req[r].pc \in {"dispatched", "closing"} /\ conn' = [conn EXCEPT ![c].sent = TRUE]
      /\ wire' = wire \cup {r} /\ UNCHANGED breaker
      /\ UNCHANGED <<counts, queue, dial, slot, drain>>
      /\ live' = live /\ dialing' = dialing /\ idle' = idle /\ woken' = woken /\ req' = req
  BY DEF Writes
<1>3. /\ c \in Conns /\ req[r].closed = {} /\ req[r].told = "none" /\ tk[r].handles # {}
  BY <1>2, Laden
<1>4. PICK x : x = req[r]
  OBVIOUS
<1>5. Becomes(r, x)
  BY <1>1, <1>2, <1>4 DEF Types, RequestTypes, Becomes
<1>6. BreakerOk /\ Handles(r, tk[r].handles)
  BY <1>1, <1>2, <1>3, SameHandles
<1>7. /\ conn' \in [Conns -> ConnType] /\ conn'[c].sent = TRUE
      /\ \A d \in Conns \ {c} : conn'[d].sent = conn[d].sent
  <2> HIDE DEF c
  <2>1. conn \in [Conns -> ConnType]
    BY <1>1 DEF Types, PoolTypes
  <2>2. PICK v : v = [conn[c] EXCEPT !.sent = TRUE]
    OBVIOUS
  <2>3. v \in ConnType /\ v.sent = TRUE
    BY <1>3, <2>1, <2>2 DEF ConnType
  <2>4. conn' = [conn EXCEPT ![c] = v]
    BY <1>2, <2>2
  <2> QED BY <1>3, <2>1, <2>3, <2>4
<1>8. Wired(r)'
  BY <1>1, <1>2, <1>3, <1>7 DEF Wired, Unsent, Undialled
<1> QED BY <1>2, <1>3, <1>4, <1>5, <1>6, <1>7, <1>8, GoesOn

(* HttpConn::discard begins: what is known by then is kept, and true.      *)
LEMMA Discards ==
  ASSUME IInv, NEW r \in Requests, req[r].pc \in {"dispatched", "body"},
         NEW phase \in {"open", "sent", "head"}, NEW event \in DiscardEvents,
         Discard(r, phase, event), phase = "open" => event # "decode",
         phase # "open" => r \in wire, BreakerOk, Handles(r, tk[r].handles)
  PROVE  StepOk
<1>1. Types /\ Wired(r)
  BY DEF IInv, WireInv
<1>2. /\ UNCHANGED <<counts, queue, dial, slot, drain>> /\ wire' = wire
      /\ live' = live /\ dialing' = dialing /\ idle' = idle /\ woken' = woken /\ conn' = conn
  BY DEF Discard, pools
<1>3. req[r].closed = {} /\ req[r].told = "none"
  BY Laden
<1>4. PICK w : w = [phase |-> phase, event |-> event]
  OBVIOUS
<1>5. w \in Whys /\ w.phase = phase /\ w.event = event /\ event # "none"
  BY <1>4 DEF Whys, DiscardEvents, StopEvents
<1>6. PICK x : x = [req[r] EXCEPT !.pc = "closing", !.why = w]
  OBVIOUS
<1>7. req[r] \in ReqType /\ "closing" \in Pcs
  BY <1>1 DEF Types, RequestTypes, Pcs, Waiting
<1>8. /\ x \in ReqType /\ x.pc = "closing" /\ x.why = w /\ x.conn = req[r].conn
      /\ x.closed = {} /\ x.told = "none"
  BY <1>3, <1>5, <1>6, <1>7 DEF ReqType
<1>9. Becomes(r, x)
  BY <1>4, <1>6, <1>8 DEF Discard, Becomes
<1>10. req'[r] = x
  BY <1>1, <1>9, ReqNext DEF Types
<1>11. Wired(r)'
  BY <1>1, <1>2, <1>5, <1>8, <1>10 DEF Wired, Unsent, Undialled
<1>12. conn' \in [Conns -> ConnType]
  BY <1>1, <1>2 DEF Types, PoolTypes
<1> QED BY <1>2, <1>8, <1>9, <1>11, <1>12, GoesOn

LEMMA NoHeadOk ==
  ASSUME IInv, NEW r \in Requests, NoHead(r)
  PROVE  StepOk
<1>1. Types /\ BreakerInv
  BY DEF IInv
<1>2. req[r].pc = "dispatched" /\ UNCHANGED breaker
  BY DEF NoHead
<1>3. PICK event \in DiscardEvents : event # "decode" /\ Discard(r, "open", event)
  <2>1. StopEvent \in DiscardEvents /\ StopEvent # "decode"
    BY StopEventIs DEF StopEvents
  <2> QED BY <2>1 DEF NoHead, DiscardEvents
<1>4. tk[r].handles # {}
  BY <1>2, Laden
<1>5. BreakerOk /\ Handles(r, tk[r].handles)
  BY <1>1, <1>2, <1>4, SameHandles
<1> QED BY <1>2, <1>3, <1>5, Discards

LEMMA BodyFailsOk ==
  ASSUME IInv, NEW r \in Requests, BodyFails(r)
  PROVE  StepOk
<1>1. Types /\ BreakerInv /\ Wired(r)
  BY DEF IInv, WireInv
<1>2. req[r].pc = "body" /\ UNCHANGED breaker
  BY DEF BodyFails
<1>3. PICK event \in DiscardEvents : Discard(r, "head", event)
  <2>1. StopEvent \in DiscardEvents
    BY StopEventIs
  <2> QED BY <2>1 DEF BodyFails, DiscardEvents
<1>4. tk[r].handles # {} /\ r \in wire
  BY <1>1, <1>2, Laden DEF Wired
<1>5. BreakerOk /\ Handles(r, tk[r].handles)
  BY <1>1, <1>2, <1>4, SameHandles
<1> QED BY <1>2, <1>3, <1>4, <1>5, Discards

LEMMA HeadArrivesOk ==
  ASSUME IInv, NEW r \in Requests, HeadArrives(r)
  PROVE  StepOk
<1>1. Types /\ BreakerInv /\ Wired(r)
  BY DEF IInv, WireInv
<1>2. req[r].pc = "dispatched"
  BY DEF HeadArrives
<1>3. tk[r].handles # {} /\ (Sent(req[r].conn) => r \in wire)
  BY <1>1, <1>2, Laden DEF Wired, Sent
<1>4. {"link", "decode"} \subseteq DiscardEvents
  BY DEF DiscardEvents
<1>5. CASE Discard(r, "open", "link") /\ UNCHANGED breaker
  <2>1. BreakerOk /\ Handles(r, tk[r].handles)
    BY <1>1, <1>3, <1>5, SameHandles
  <2> QED BY <1>2, <1>4, <1>5, <2>1, Discards
<1>6. CASE Sent(req[r].conn) /\ Discard(r, "sent", "link") /\ UNCHANGED breaker
  <2>1. BreakerOk /\ Handles(r, tk[r].handles)
    BY <1>1, <1>3, <1>6, SameHandles
  <2> QED BY <1>2, <1>3, <1>4, <1>6, <2>1, Discards
<1>7. ASSUME NEW bad \in BOOLEAN, Sent(req[r].conn),
             Breaks(r, RecordAt([b |-> brk, t |-> tk[r]], HeadOutcome(bad))),
             \/ Discard(r, "head", "decode")
             \/ /\ Goto(r, "body")
                /\ UNCHANGED <<counts, queue, dial, slot, pools, wire, drain>>
      PROVE  StepOk
  <2>1. HeadOutcome(bad) \in Outcomes \cup {"none"}
    BY DEF HeadOutcome, Outcomes
  <2>2. BreakerOk /\ Handles(r, tk[r].handles)
    BY <1>1, <1>3, <1>7, <2>1, Records DEF Types
  <2>3. CASE Discard(r, "head", "decode")
    BY <1>2, <1>3, <1>4, <1>7, <2>2, <2>3, Discards
  <2>4. CASE Goto(r, "body") /\ UNCHANGED <<counts, queue, dial, slot, pools, wire, drain>>
    <3>1. /\ UNCHANGED <<counts, queue, dial, slot, drain>> /\ wire' = wire
          /\ live' = live /\ dialing' = dialing /\ idle' = idle /\ woken' = woken /\ conn' = conn
      BY <2>4 DEF pools
    <3>2. req[r].closed = {} /\ req[r].told = "none"
      BY <1>2, Laden
    <3>3. "body" \in Pcs
      BY DEF Pcs, Waiting
    <3>4. PICK x : /\ Becomes(r, x) /\ x.pc = "body" /\ x.conn = req[r].conn
                   /\ x.closed = {} /\ x.told = "none"
      BY <1>1, <2>4, <3>2, <3>3, Goes DEF Types
    <3>5. req'[r] = x
      BY <1>1, <3>4, ReqNext DEF Types
    <3>6. Wired(r)'
      BY <1>1, <1>2, <1>3, <1>7, <3>1, <3>4, <3>5 DEF Wired, Unsent, Undialled
    <3>7. conn' \in [Conns -> ConnType]
      BY <1>1, <3>1 DEF Types, PoolTypes
    <3> QED BY <1>2, <2>2, <3>1, <3>4, <3>6, <3>7, GoesOn
  <2> QED BY <1>7, <2>3, <2>4
<1> QED BY <1>5, <1>6, <1>7 DEF HeadArrives

(* A request with a connection is over, and the connection pooled or gone. *)
LEMMA EndsLaden ==
  ASSUME IInv, NEW r \in Requests, req[r].pc \in {"body", "closing"}, NEW told \in Tolds,
         Ended(r, told), BreakerOk, Handles(r, tk[r].handles \ {"req"}),
         \/ Checkin(req[r].conn) /\ live' = live
         \/ Close(1) /\ Gone({req[r].conn}) /\ idle' = idle,
         UNCHANGED <<counts, queue, dial, slot, dialing, wire, drain>>,
         told \in {"unsent", "forbidden"} => r \notin wire,
         told \in {"unconfirmed", "timeout", "lost", "incomplete", "done"} => r \in wire,
         told = "unconfirmed" => ~req[r].idem,
         told = "lost" => req[r].idem
  PROVE  StepOk
<1>1. Types /\ GateInv
  BY DEF IInv
<1> DEFINE c == req[r].conn
<1>2. /\ c \in Conns /\ dial[r].st \in {"none", "over"} /\ dial[r].conn = NoConn
      /\ Mine(r) = {c} /\ r \notin slot /\ "dial" \notin tk[r].handles
  BY Laden
<1>3. PICK x : /\ Becomes(r, x)
               /\ x.pc = "done" /\ x.conn = NoConn /\ x.closed = {} /\ x.told = told
               /\ x.idem = req[r].idem
  BY <1>1, Ends DEF Types
<1>4. /\ req' \in [Requests -> ReqType] /\ req'[r] = x
      /\ \A q \in Requests \ {r} : req'[q] = req[q]
  BY <1>1, <1>3, ReqNext DEF Types
<1>5. \A q \in Requests \ {r} : tk'[q] = tk[q]
  BY <1>1, TicketNext DEF Types
<1>6. Others(r) /\ RequestTypes'
  BY <1>1, <1>4, <1>5 DEF Others, Types, RequestTypes
<1>7. Held(r)'
  BY <1>2, <1>3, DoneHeld DEF Answered, Connected, Running
<1>8. Mine(r)' = Mine(r) \ {c} /\ c \in Mine(r)
  BY <1>2, <1>3, <1>4 DEF Mine
<1>9. GateInv'
  BY <1>1, <1>3, <1>4, <1>6, GateKeeps DEF Waiting
<1>10. Wired(r)'
  BY <1>3, <1>4 DEF Wired, Unsent, Undialled
<1>11. \A q \in Requests : req[q].conn # NoConn => req[q].conn \in Conns
  BY <1>1 DEF Types, RequestTypes, ReqType
<1>12. CASE Checkin(c) /\ live' = live
  <2> HIDE DEF c
  <2>1. /\ PutBack(c) /\ conn' \in [Conns -> ConnType]
        /\ \A d \in Conns : conn'[d].sent = conn[d].sent
    BY <1>1, <1>2, <1>12, CheckedIn
  <2>2. PoolTypes' /\ ApartInv' /\ CountInv' /\ SleepInv'
    BY <1>3, <1>4, <1>6, <1>8, <1>12, <2>1, Returns
  <2> QED BY <1>6, <1>7, <1>9, <1>10, <1>11, <2>1, <2>2, Steps
<1>13. CASE Close(1) /\ Gone({c}) /\ idle' = idle
  <2> HIDE DEF c
  <2>1. PICK gone : gone = {c}
    OBVIOUS
  <2>2. Cardinality(gone) = 1
    BY <2>1, FS_Singleton
  <2>3. /\ gone \subseteq Mine(r) /\ Mine(r)' = Mine(r) \ gone /\ Gone(gone)
        /\ Close(Cardinality(gone))
    BY <1>8, <1>13, <2>1, <2>2
  <2>4. /\ PoolTypes' /\ ApartInv' /\ CountInv' /\ SleepInv'
        /\ \A d \in Conns \ gone : conn'[d] = conn[d]
    BY <1>3, <1>4, <1>6, <1>13, <2>3, Closes
  <2>5. \A q \in Requests \ {r} : req[q].conn # NoConn /\ req[q].conn \notin Mine(r)
                                  => conn'[req[q].conn].sent = conn[req[q].conn].sent
    BY <1>11, <2>3, <2>4
  <2> QED BY <1>6, <1>7, <1>9, <1>10, <2>4, <2>5, Steps
<1> QED BY <1>12, <1>13

LEMMA BodyEndsOk ==
  ASSUME IInv, NEW r \in Requests, BodyEnds(r)
  PROVE  StepOk
<1>1. Types /\ BreakerInv /\ Wired(r)
  BY DEF IInv, WireInv
<1>2. /\ req[r].pc = "body" /\ Ended(r, "done")
      /\ Breaks(r, DropHandle([b |-> brk, t |-> tk[r]], "req"))
      /\ \/ Checkin(req[r].conn) /\ live' = live
         \/ Close(1) /\ Gone({req[r].conn}) /\ idle' = idle
      /\ UNCHANGED <<counts, queue, dial, slot, dialing, wire, drain>>
  BY DEF BodyEnds
<1>3. BreakerOk /\ Handles(r, tk[r].handles \ {"req"})
  BY <1>1, <1>2, Drops DEF Types
<1>4. "done" \in Tolds /\ r \in wire
  BY <1>1, <1>2 DEF Tolds, Wired
<1> QED BY <1>2, <1>3, <1>4, EndsLaden

LEMMA DiscardedOk ==
  ASSUME IInv, NEW r \in Requests, Discarded(r)
  PROVE  StepOk
<1>1. Types /\ BreakerInv /\ Wired(r)
  BY DEF IInv, WireInv
<1> DEFINE sent == Sent(req[r].conn)
           event == req[r].why.event
           idem == req[r].idem
           P == CASE req[r].why.phase # "open" -> req[r].why.phase
                  [] req[r].why.phase = "open" -> IF sent THEN "sent" ELSE "unsent"
<1>2. PICK phase : phase = P
  OBVIOUS
<1>3. /\ req[r].pc = "closing" /\ Ended(r, Classify(phase, event, idem))
      /\ \E long \in BOOLEAN :
           LET out == FailureOutcome(phase, event, long)
               rec == IF out = "counted" THEN RecordAt([b |-> brk, t |-> tk[r]], out)
                      ELSE [b |-> brk, t |-> tk[r]]
           IN Breaks(r, DropHandle(rec, "req"))
      /\ Close(1) /\ Gone({req[r].conn})
      /\ UNCHANGED <<counts, queue, dial, slot, dialing, idle, wire, drain>>
  BY <1>2 DEF Discarded
<1>4. req[r].why \in Whys /\ idem \in BOOLEAN
  BY <1>1 DEF Types, RequestTypes, ReqType
<1>5. event \in DiscardEvents
  BY <1>1, <1>3, <1>4 DEF Whys, Wired, DiscardEvents
<1>6. r \in wire <=> sent
  BY <1>1, <1>3 DEF Wired, Sent
<1>7. \/ phase \in {"sent", "head"} /\ r \in wire
      \/ phase = "unsent" /\ r \notin wire /\ event # "decode"
  <2>1. CASE req[r].why.phase # "open"
    <3>1. phase = req[r].why.phase
      BY <1>2, <2>1, Zenon
    <3> QED BY <1>1, <1>3, <1>4, <2>1, <3>1 DEF Whys, Wired
  <2>2. CASE req[r].why.phase = "open"
    <3>1. phase = IF sent THEN "sent" ELSE "unsent"
      BY <1>2, <2>2, Zenon
    <3> QED BY <1>1, <1>3, <1>6, <2>2, <3>1 DEF Wired
  <2> QED BY <2>1, <2>2
<1>8. BreakerOk /\ Handles(r, tk[r].handles \ {"req"})
  <2>1. PICK long \in BOOLEAN :
           LET out == FailureOutcome(phase, event, long)
               rec == IF out = "counted" THEN RecordAt([b |-> brk, t |-> tk[r]], out)
                      ELSE [b |-> brk, t |-> tk[r]]
           IN Breaks(r, DropHandle(rec, "req"))
    BY <1>3, Zenon
  <2>2. CASE FailureOutcome(phase, event, long) = "counted"
    <3>1. Breaks(r, DropHandle(RecordAt([b |-> brk, t |-> tk[r]], "counted"), "req"))
      BY <2>1, <2>2, Zenon
    <3> QED BY <1>1, <3>1, RecordDrops DEF Types
  <2>3. CASE FailureOutcome(phase, event, long) # "counted"
    <3>1. Breaks(r, DropHandle([b |-> brk, t |-> tk[r]], "req"))
      BY <2>1, <2>3, Zenon
    <3> QED BY <1>1, <3>1, Drops DEF Types
  <2> QED BY <2>2, <2>3
<1> HIDE DEF event, idem, sent, P
<1>9. PICK told : told = Classify(phase, event, idem)
  OBVIOUS
<1>10. /\ told \in Tolds
       /\ told \in {"unsent", "forbidden"} => r \notin wire
       /\ told \in {"unconfirmed", "timeout", "lost", "incomplete", "done"} => r \in wire
       /\ told = "unconfirmed" => ~idem
       /\ told = "lost" => idem
  <2>1. CASE phase \in {"sent", "head"} /\ r \in wire
    <3>1. LET t == Classify(phase, event, idem) IN
          t \in Left /\ (t = "unconfirmed" => ~idem) /\ (t = "lost" => idem)
      BY <1>4, <1>5, <2>1, ClassifySent
    <3> QED BY <1>9, <2>1, <3>1 DEF Left, Tolds
  <2>2. CASE phase = "unsent" /\ r \notin wire /\ event # "decode"
    <3>1. Classify("unsent", event, idem) \in {"cancelled", "unsent"}
      BY <1>4, <1>5, <2>2, ClassifyUnsent
    <3> QED BY <1>9, <2>2, <3>1 DEF Tolds
  <2> QED BY <1>7, <2>1, <2>2
<1>11. Ended(r, told)
  BY <1>3, <1>9
<1> QED BY <1>3, <1>8, <1>10, <1>11, EndsLaden DEF idem

-----------------------------------------------------------------------------
(* Around the requests.                                                    *)

LEMMA Around ==
  ASSUME IInv, BreakerOk, UNCHANGED <<counts, tk, req, queue, dial, slot, live, dialing, idle>>,
         woken' = woken, wire' = wire, drain' \in {"no", "draining", "capped"},
         conn' \in [Conns -> ConnType], \A c \in Conns : conn'[c].sent = conn[c].sent
  PROVE  StepOk
<1>1. /\ counts' = counts /\ tk' = tk /\ req' = req /\ queue' = queue /\ dial' = dial
      /\ slot' = slot /\ live' = live /\ dialing' = dialing /\ idle' = idle
  OBVIOUS
<1>2. Types'
  BY <1>1 DEF IInv, Types, RequestTypes, PoolTypes, BreakerOk
<1>3. HeldInv'
  BY <1>1 DEF IInv, HeldInv, Held
<1>4. GateInv'
  BY <1>1 DEF IInv, GateInv, Beyond
<1>5. ApartInv'
  <2>1. Stack' = Stack
    BY <1>1 DEF Stack
  <2>2. \A r \in Requests : Mine(r)' = Mine(r)
    BY <1>1 DEF Mine
  <2> QED BY <1>1, <2>1, <2>2 DEF IInv, ApartInv
<1>6. Owned' = Owned
  BY <1>1 DEF Owned, InUse, Stack
<1>7. CountInv'
  BY <1>1, <1>6 DEF IInv, CountInv
<1>8. WireInv'
  <2> SUFFICES ASSUME NEW q \in Requests PROVE Wired(q)'
    BY DEF WireInv
  <2>1. Wired(q) /\ Held(q) /\ req[q] \in ReqType
    BY DEF IInv, WireInv, HeldInv, Types, RequestTypes
  <2>2. req[q].pc \in {"dispatched", "body", "closing"} => req[q].conn \in Conns
    BY <2>1 DEF Held, Carrying, ReqType
  <2> QED BY <1>1, <2>1, <2>2 DEF Wired
<1>9. SleepInv'
  BY <1>1 DEF IInv, SleepInv, Asleep, Stuck
<1> QED BY <1>2, <1>3, <1>4, <1>5, <1>7, <1>8, <1>9 DEF IInv, StepOk, BreakerOk

LEMMA OpenElapsesOk ==
  ASSUME IInv, OpenElapses
  PROVE  StepOk
<1>1. Types /\ BreakerInv /\ brk \in Breaker
  BY DEF IInv, Types, BreakerTypes
<1>2. /\ brk.st = "open" /\ brk' = [brk EXCEPT !.due = TRUE] /\ tk' = tk /\ period' = period
      /\ UNCHANGED <<counts, tk, req, queue, dial, slot, live, dialing, idle>>
      /\ woken' = woken /\ wire' = wire /\ drain' = drain /\ conn' = conn
  BY DEF OpenElapses, pools
<1>3. /\ brk' \in Breaker /\ brk'.st = brk.st /\ brk'.gen = brk.gen
      /\ brk'.probing = brk.probing
  BY <1>1, <1>2 DEF Breaker
<1>4. BreakerOk
  <2>1. BreakerTypes'
    BY <1>1, <1>2, <1>3 DEF Types, BreakerTypes
  <2>2. BreakerInv'
    BY <1>1, <1>2, <1>3 DEF BreakerInv, ProbeInv, PeriodInv, Probing, Undecided
  <2>3. FreshStep
    BY <1>2 DEF FreshStep
  <2> QED BY <2>1, <2>2, <2>3 DEF BreakerOk
<1>5. conn' \in [Conns -> ConnType] /\ drain' \in {"no", "draining", "capped"}
  BY <1>1, <1>2 DEF Types, RequestTypes, PoolTypes
<1> QED BY <1>2, <1>4, <1>5, Around

LEMMA DrainsOk ==
  ASSUME IInv, Drains
  PROVE  StepOk
<1>1. Types /\ BreakerInv
  BY DEF IInv
<1>2. /\ UNCHANGED breaker
      /\ UNCHANGED <<counts, req, queue, dial, slot, live, dialing, idle>>
      /\ woken' = woken /\ wire' = wire /\ conn' = conn /\ drain' \in {"draining", "capped"}
  BY DEF Drains, pools
<1>3. BreakerOk /\ tk' = tk
  BY <1>1, <1>2, BreakerQuiet DEF Types
<1>4. conn' \in [Conns -> ConnType]
  BY <1>1, <1>2 DEF Types, PoolTypes
<1> QED BY <1>2, <1>3, <1>4, Around

LEMMA AgesOk ==
  ASSUME IInv, NEW c \in Conns, Ages(c)
  PROVE  StepOk
<1>1. Types /\ BreakerInv
  BY DEF IInv
<1>2. /\ UNCHANGED breaker
      /\ UNCHANGED <<counts, req, queue, dial, slot, live, dialing, idle>>
      /\ woken' = woken /\ wire' = wire /\ drain' = drain
  BY DEF Ages
<1>3. PICK idler : conn' = [d \in Conns |-> IF d \in idler /\ conn[d].age = "fresh"
                                            THEN [conn[d] EXCEPT !.age = "old"] ELSE conn[d]]
  <2>1. PICK k : conn' = [d \in Conns |-> IF d \in {since[i] : i \in 1..k} /\ conn[d].age = "fresh"
                                          THEN [conn[d] EXCEPT !.age = "old"] ELSE conn[d]]
    BY DEF Ages
  <2> QED BY <2>1
<1>4. BreakerOk /\ tk' = tk
  BY <1>1, <1>2, BreakerQuiet DEF Types
<1>5. \A d \in Conns : [conn[d] EXCEPT !.age = "old"] \in ConnType
                       /\ [conn[d] EXCEPT !.age = "old"].sent = conn[d].sent /\ conn[d] \in ConnType
  BY <1>1 DEF Types, PoolTypes, ConnType
<1>6. conn' \in [Conns -> ConnType] /\ \A d \in Conns : conn'[d].sent = conn[d].sent
  BY <1>3, <1>5
<1>7. drain' \in {"no", "draining", "capped"}
  BY <1>1, <1>2 DEF Types, RequestTypes
<1> QED BY <1>2, <1>4, <1>6, <1>7, Around

LEMMA DiesOk ==
  ASSUME IInv, NEW c \in Conns, Dies(c)
  PROVE  StepOk
<1>1. Types /\ BreakerInv
  BY DEF IInv
<1>2. /\ UNCHANGED breaker /\ conn' = [conn EXCEPT ![c].age = "dead"]
      /\ UNCHANGED <<counts, req, queue, dial, slot, live, dialing, idle>>
      /\ woken' = woken /\ wire' = wire /\ drain' = drain
  BY DEF Dies
<1>3. BreakerOk /\ tk' = tk
  BY <1>1, <1>2, BreakerQuiet DEF Types
<1>4. PICK v : v = [conn[c] EXCEPT !.age = "dead"]
  OBVIOUS
<1>5. conn \in [Conns -> ConnType] /\ v \in ConnType /\ v.sent = conn[c].sent
  BY <1>1, <1>4 DEF Types, PoolTypes, ConnType
<1>6. conn' = [conn EXCEPT ![c] = v]
  BY <1>2, <1>4
<1>7. conn' \in [Conns -> ConnType] /\ \A d \in Conns : conn'[d].sent = conn[d].sent
  BY <1>5, <1>6
<1>8. drain' \in {"no", "draining", "capped"}
  BY <1>1, <1>2 DEF Types, RequestTypes
<1> QED BY <1>2, <1>3, <1>7, <1>8, Around

LEMMA StutterOk ==
  ASSUME IInv, UNCHANGED vars
  PROVE  StepOk
<1>1. Types /\ BreakerInv
  BY DEF IInv
<1>2. /\ UNCHANGED breaker
      /\ UNCHANGED <<counts, tk, req, queue, dial, slot, live, dialing, idle>>
      /\ woken' = woken /\ wire' = wire /\ drain' = drain /\ conn' = conn
  BY DEF vars, breaker
<1>3. BreakerOk
  BY <1>1, <1>2, BreakerQuiet DEF Types
<1>4. conn' \in [Conns -> ConnType] /\ drain' \in {"no", "draining", "capped"}
  BY <1>1, <1>2 DEF Types, RequestTypes, PoolTypes
<1> QED BY <1>2, <1>3, <1>4, Around

LEMMA CancelArrivesOk ==
  ASSUME IInv, NEW r \in Requests, CancelArrives(r)
  PROVE  StepOk
<1>1. Types /\ BreakerInv /\ GateInv /\ Wired(r) /\ Held(r) /\ ApartInv /\ CountInv /\ WireInv /\ SleepInv
  BY DEF IInv, WireInv, HeldInv
<1>2. /\ UNCHANGED breaker /\ UNCHANGED <<counts, queue, dial, slot, drain>>
      /\ live' = live /\ dialing' = dialing /\ idle' = idle /\ woken' = woken /\ conn' = conn
      /\ wire' = wire /\ req' = [req EXCEPT ![r].stop = TRUE]
  BY DEF CancelArrives, pools
<1>3. PICK x : x = [req[r] EXCEPT !.stop = TRUE]
  OBVIOUS
<1>4. req[r] \in ReqType
  BY <1>1 DEF Types, RequestTypes
<1>5. /\ x \in ReqType /\ x.pc = req[r].pc /\ x.conn = req[r].conn /\ x.closed = req[r].closed
      /\ x.told = req[r].told /\ x.why = req[r].why /\ x.idem = req[r].idem
  BY <1>3, <1>4 DEF ReqType
<1>6. Becomes(r, x)
  BY <1>2, <1>3, <1>5 DEF Becomes
<1>7. /\ req' \in [Requests -> ReqType] /\ req'[r] = x
      /\ \A q \in Requests \ {r} : req'[q] = req[q]
  BY <1>1, <1>6, ReqNext DEF Types
<1>8. BreakerOk /\ tk' = tk
  BY <1>1, <1>2, BreakerQuiet DEF Types
<1>9. Others(r) /\ RequestTypes'
  BY <1>1, <1>2, <1>7, <1>8 DEF Others, Types, RequestTypes
<1>10. Held(r)'
  BY <1>1, <1>2, <1>5, <1>7, <1>8 DEF Held
<1>11. Wired(r)'
  BY <1>1, <1>2, <1>5, <1>7 DEF Wired
<1>12. GateInv'
  BY <1>1, <1>2, <1>5, <1>7, <1>9, GateKeeps
<1>13. PoolTypes'
  BY <1>1, <1>2 DEF Types, PoolTypes
<1>14. Mine(r)' = Mine(r) /\ Stack' = Stack
  BY <1>2, <1>5, <1>7 DEF Mine, Stack
<1>15. ApartInv' /\ Owned' = Owned
  <2>1. Stack' \cup Mine(r)' = Stack \cup Mine(r) /\ Stack' \cap Mine(r)' = {} /\ Distinct(idle')
    BY <1>1, <1>2, <1>14 DEF ApartInv, Distinct
  <2> QED BY <1>1, <1>9, <1>13, <2>1, Stays DEF Types
<1>16. CountInv'
  BY <1>1, <1>2, <1>15 DEF CountInv
<1>17. SleepInv'
  BY <1>1, <1>2, <1>5, <1>7, <1>9 DEF SleepInv, Asleep, Stuck, Others
<1> QED BY <1>2, <1>8, <1>9, <1>10, <1>11, <1>12, <1>13, <1>15, <1>16, <1>17, Steps

LEMMA DeclareOk ==
  ASSUME IInv, NEW r \in Requests, Declare(r)
  PROVE  StepOk
<1>1. Types /\ BreakerInv /\ GateInv /\ Wired(r) /\ Held(r)
  BY DEF IInv, WireInv, HeldInv
<1>2. /\ req[r].pc = "done" /\ UNCHANGED breaker /\ UNCHANGED <<counts, queue, dial, slot, drain>>
      /\ live' = live /\ dialing' = dialing /\ idle' = idle /\ woken' = woken /\ conn' = conn
      /\ wire' = wire \ {r}
      /\ req' = [req EXCEPT ![r] = [req[r] EXCEPT !.pc = "gone", !.idem = FALSE, !.told = "none"]]
  BY DEF Declare, pools
<1>3. PICK x : x = [req[r] EXCEPT !.pc = "gone", !.idem = FALSE, !.told = "none"]
  OBVIOUS
<1>4. req[r] \in ReqType /\ "gone" \in Pcs /\ "none" \in Tolds
  BY <1>1 DEF Types, RequestTypes, Pcs, Tolds
<1>5. /\ x \in ReqType /\ x.pc = "gone" /\ x.conn = req[r].conn /\ x.closed = req[r].closed
      /\ x.told = "none"
  BY <1>3, <1>4 DEF ReqType
<1>6. Becomes(r, x)
  BY <1>2, <1>3, <1>5 DEF Becomes
<1>7. /\ req' \in [Requests -> ReqType] /\ req'[r] = x
      /\ \A q \in Requests \ {r} : req'[q] = req[q]
  BY <1>1, <1>6, ReqNext DEF Types
<1>8. BreakerOk /\ tk' = tk
  BY <1>1, <1>2, BreakerQuiet DEF Types
<1>9. Others(r) /\ RequestTypes'
  BY <1>1, <1>2, <1>7, <1>8 DEF Others, Types, RequestTypes
<1>10. Held(r)'
  BY <1>1, <1>2, <1>5, <1>7, <1>8 DEF Held, Carrying, Undialled, Over
<1>11. Wired(r)'
  BY <1>5, <1>7 DEF Wired, Unsent, Undialled
<1>12. GateInv'
  BY <1>1, <1>2, <1>5, <1>7, <1>9, GateKeeps DEF Waiting
<1>13. Mine(r)' = Mine(r)
  BY <1>2, <1>5, <1>7 DEF Mine
<1>14. conn' \in [Conns -> ConnType]
  BY <1>1, <1>2 DEF Types, PoolTypes
<1>15. PoolTypes' /\ ApartInv' /\ CountInv' /\ SleepInv'
  BY <1>2, <1>5, <1>7, <1>9, <1>13, <1>14, PoolsKeep DEF IInv
<1> QED BY <1>2, <1>8, <1>9, <1>10, <1>11, <1>12, <1>15, Steps

-----------------------------------------------------------------------------
(* The invariant.                                                          *)

LEMMA InvInit == Init => IInv
<1> SUFFICES ASSUME Init PROVE IInv
  OBVIOUS
<1>1. \A r \in Requests :
        req[r] = [pc |-> "new", idem |-> FALSE, conn |-> NoConn, stop |-> FALSE,
                  closed |-> {}, why |-> NoWhy, told |-> "none"]
  BY DEF Init
<1>2. \A r \in Requests : dial[r] = [st |-> "none", conn |-> NoConn] /\ tk[r] = NoTicket
  BY DEF Init
<1>3. /\ slot = {} /\ woken = {} /\ live = 0 /\ dialing = 0 /\ idle = << >> /\ queue = << >>
      /\ wire = {} /\ period = {}
      /\ brk = [st |-> "closed", failures |-> 0, due |-> FALSE, probing |-> FALSE, gen |-> 0]
  BY DEF Init
<1>4. \A r \in Requests : req[r].pc = "new" /\ req[r].conn = NoConn /\ req[r].closed = {}
                          /\ req[r].told = "none" /\ dial[r].st = "none" /\ dial[r].conn = NoConn
  BY <1>1, <1>2
<1>5. NoTicket \in Ticket /\ NoTicket.probe = FALSE /\ NoTicket.recorded = TRUE /\ NoTicket.handles = {}
  BY DEF NoTicket, Ticket
<1>6. BreakerTypes
  <2>1. 0 \in 0..Failures - 1
    BY HttpAssumption
  <2>2. brk \in Breaker
    BY <1>3, <2>1 DEF Breaker
  <2> QED BY <1>3, <1>5, <2>2 DEF BreakerTypes, Init
<1>7. RequestTypes
  <2>1. [pc |-> "new", idem |-> FALSE, conn |-> NoConn, stop |-> FALSE,
         closed |-> {}, why |-> NoWhy, told |-> "none"] \in ReqType
    BY DEF ReqType, Pcs, NoWhy, Whys, Tolds
  <2>2. [st |-> "none", conn |-> NoConn] \in DialType
    BY DEF DialType
  <2>3. counts \in {"connect", "timeout", "5xx"}
    BY HttpAssumption DEF Init
  <2> QED BY <2>1, <2>2, <2>3 DEF RequestTypes, Init
<1>8. PoolTypes
  <2>1. NewConn \in ConnType
    BY DEF NewConn, ConnType
  <2> QED BY <1>3, <2>1 DEF PoolTypes, Init
<1>9. HeldInv
  BY <1>2, <1>3, <1>4, <1>5 DEF HeldInv, Held, Carrying, Undialled, Answered, Running, Connected, Over
<1>10. GateInv
  <2>1. Beyond = {}
    BY <1>4 DEF Beyond, Waiting
  <2>2. IsFiniteSet(Beyond) /\ Cardinality(Beyond) = 0
    BY <2>1, FS_EmptySet
  <2>3. Len(queue) = 0 /\ queue \in Seq(Requests)
    BY <1>3
  <2> QED BY <1>4, <2>2, <2>3, HttpAssumption DEF GateInv
<1>11. BreakerInv
  BY <1>2, <1>3, <1>5 DEF BreakerInv, ProbeInv, PeriodInv, Probing, Undecided
<1>12. Stack = {} /\ \A r \in Requests : Mine(r) = {}
  BY <1>3, <1>4 DEF Stack, Mine
<1>13. ApartInv
  BY <1>3, <1>12 DEF ApartInv
<1>14. CountInv
  <2>1. Owned = {}
    BY <1>7, <1>8, <1>12, OwnedIs
  <2> QED BY <1>3, <2>1, FS_EmptySet, HttpAssumption DEF CountInv
<1>15. WireInv
  BY <1>3, <1>4 DEF WireInv, Wired, Unsent, Undialled
<1>16. SleepInv
  BY <1>4 DEF SleepInv, Asleep
<1> QED BY <1>6, <1>7, <1>8, <1>9, <1>10, <1>11, <1>13, <1>14, <1>15, <1>16 DEF IInv, Types

LEMMA InvStep == IInv /\ [Next]_vars => StepOk
<1> SUFFICES ASSUME IInv, [Next]_vars PROVE StepOk
  OBVIOUS
<1>1. CASE UNCHANGED vars
  BY <1>1, StutterOk
<1>2. ASSUME NEW r \in Requests, Step(r) PROVE StepOk
  BY <1>2, RefuseOk, AdmitOk, LimitRefusesOk, AcquireOk, GrantedOk, GiveUpOk, DecideOk,
     DropClosedOk, UseIdleOk, StartDialOk, DialledOk, LeaveDialOk, NotDispatchedOk,
     DispatchOk, NoHeadOk, HeadArrivesOk, BodyFailsOk, BodyEndsOk, DiscardedOk, DeclareOk
     DEF Step
<1>3. ASSUME NEW r \in Requests, DialStep(r) PROVE StepOk
  BY <1>3, DialConnectsOk, DialFailsOk, DialRecordsOk, DialEndsOk DEF DialStep
<1>4. ASSUME NEW r \in Requests, Writes(r) \/ CancelArrives(r) PROVE StepOk
  BY <1>4, WritesOk, CancelArrivesOk
<1>5. ASSUME NEW c \in Conns, Ages(c) \/ Dies(c) PROVE StepOk
  BY <1>5, AgesOk, DiesOk
<1>6. CASE OpenElapses \/ Drains
  BY <1>6, OpenElapsesOk, DrainsOk
<1>7. CASE Done
  BY <1>7, StutterOk DEF Done
<1> QED BY <1>1, <1>2, <1>3, <1>4, <1>5, <1>6, <1>7 DEF Next

-----------------------------------------------------------------------------
(* What the engine promises.                                               *)

LEMMA InvAlways == Spec => []IInv
<1>1. IInv /\ [Next]_vars => IInv'
  BY InvStep DEF StepOk
<1> QED BY <1>1, InvInit, PTL DEF Spec

(* Type correctness: the pool's counters stay within MAX_CONNECTIONS and   *)
(* MAX_DIALS, the gate within MAX_REQUESTS and its FIFO within MAX_QUEUED. *)
THEOREM HttpTypeCorrect == Spec => []TypeOK
<1>1. IInv => TypeOK
  <2> SUFFICES ASSUME IInv PROVE TypeOK
    OBVIOUS
  <2>1. Types /\ CountInv /\ GateInv
    BY DEF IInv
  <2>2. brk \in Breaker
    BY <2>1 DEF Types, BreakerTypes
  <2>3. ASSUME NEW r \in Requests
        PROVE  /\ req[r].conn \in Conns \cup {NoConn}
               /\ req[r].told \in Tolds
               /\ tk[r].handles \subseteq {"req", "dial"}
    <3>1. req[r] \in ReqType /\ tk[r] \in Ticket
      BY <2>1 DEF Types, RequestTypes, BreakerTypes
    <3> QED BY <3>1 DEF ReqType, Ticket
  <2>4. Cardinality(Owned) \in Nat /\ Cardinality(slot) \in Nat
    BY <2>1, FS_CardinalityType DEF CountInv
  <2>5. live \in 0..MaxConnections /\ dialing \in 0..MaxDials
    BY <2>1, <2>4, HttpAssumption DEF CountInv
  <2>6. SlotsHeld <= MaxRequests
    BY <2>1 DEF GateInv, Beyond, SlotsHeld
  <2>7. Len(queue) <= MaxQueued
    BY <2>1 DEF GateInv
  <2> QED BY <2>2, <2>3, <2>5, <2>6, <2>7 DEF TypeOK, Breaker, Tolds
<1> QED BY <1>1, InvAlways, PTL

(* What a client is told is what happened on the wire: a request said to   *)
(* be unsent had no byte accepted by the socket, since the terminal is     *)
(* classified only after HttpConn::discard has awaited the writing task;   *)
(* one said to be unconfirmed, lost, timed out, incomplete or done did     *)
(* leave, and which of these it hears agrees with its idempotency.         *)
THEOREM FatesAreTrue == Spec => []FateIsTrue
<1>1. IInv => FateIsTrue
  BY DEF IInv, WireInv, Wired, FateIsTrue
<1> QED BY <1>1, InvAlways, PTL

(* The half-open breaker's probe slot (Breaker::admit) is taken exactly    *)
(* while one probe's outcome is open and its request or its dial still     *)
(* holds the ticket: never two probes, never a slot that stays taken.      *)
THEOREM ProbesAccounted == Spec => []ProbeAccounted
<1>1. IInv => ProbeAccounted
  <2> SUFFICES ASSUME IInv PROVE ProbeAccounted
    OBVIOUS
  <2> DEFINE probes == {r \in Requests : tk[r].probe /\ ~tk[r].recorded}
  <2>1. ProbeInv /\ HeldInv
    BY DEF IInv, BreakerInv
  <2>2. Cardinality(probes) = IF brk.st = "half" /\ brk.probing THEN 1 ELSE 0
    <3>1. CASE brk.probing
      <4>1. PICK r \in Requests : Probing(r)
        BY <2>1, <3>1 DEF ProbeInv
      <4>2. probes = {r}
        BY <2>1, <4>1 DEF ProbeInv, Probing
      <4>3. brk.st = "half"
        BY <2>1, <3>1 DEF ProbeInv
      <4> QED BY <3>1, <4>2, <4>3, FS_Singleton
    <3>2. CASE ~brk.probing
      <4>1. probes = {}
        BY <2>1, <3>2 DEF ProbeInv, Probing
      <4> QED BY <3>2, <4>1, FS_EmptySet
    <3> QED BY <3>1, <3>2
  <2>3. ASSUME NEW r \in probes PROVE tk[r].handles # {}
    <3>1. Held(r) /\ ~tk[r].recorded
      BY <2>1 DEF HeldInv
    <3> QED BY <3>1 DEF Held, NoTicket
  <2> QED BY <2>2, <2>3 DEF ProbeAccounted
<1> QED BY <1>1, InvAlways, PTL

(* Every connection is in one place - the idle stack, one request or one   *)
(* detached dial - and SubShared.live and .dialing count exactly the       *)
(* connections and the dials there are, whatever requests have left.       *)
THEOREM ConnectionsAreConserved == Spec => []ConnectionsConserved
<1>1. IInv => ConnectionsConserved
  <2> SUFFICES ASSUME IInv PROVE ConnectionsConserved
    OBVIOUS
  <2>1. ApartInv /\ CountInv /\ idle \in Seq(Conns)
    BY DEF IInv, Types, PoolTypes
  <2>2. /\ live = Cardinality(InUse \ {NoConn}) + Cardinality(slot)
        /\ dialing = Cardinality(slot)
    BY <2>1 DEF CountInv, Owned
  <2>3. Cardinality(Stack) = Len(idle)
    <3> DEFINE n == Len(idle)
    <3>1. n \in Nat /\ idle \in [1..n -> Conns] /\ DOMAIN idle = 1..n
      BY <2>1
    <3>2. Stack = {idle[i] : i \in 1..n}
      BY <3>1 DEF Stack
    <3>3. \A i, j \in 1..n : idle[i] = idle[j] => i = j
      BY <2>1 DEF ApartInv
    <3> HIDE DEF n
    <3>4. idle \in [1..n -> Stack]
      BY <3>1, <3>2
    <3>5. idle \in Injection(1..n, Stack)
      BY <3>1, <3>3, <3>4 DEF Injection, IsInjective
    <3>6. idle \in Surjection(1..n, Stack)
      BY <3>2, <3>4 DEF Surjection
    <3>7. ExistsBijection(1..n, Stack)
      BY <3>5, <3>6 DEF ExistsBijection, Bijection
    <3> QED BY <3>1, <3>7, FS_CountingElements DEF n
  <2>4. ASSUME NEW r \in Requests, NEW q \in Requests
        PROVE  /\ req[r].conn # NoConn =>
                    /\ req[r].conn \notin Stack
                    /\ req[r].conn # dial[q].conn
                    /\ r # q => req[r].conn # req[q].conn
               /\ dial[r].conn # NoConn =>
                    /\ dial[r].conn \notin Stack
                    /\ r # q => dial[r].conn # dial[q].conn
    <3>1. /\ \A p \in Requests : Mine(p) \cap Stack = {}
          /\ \A p \in Requests : p # r => Mine(p) \cap Mine(r) = {}
      BY <2>1 DEF ApartInv
    <3>2. \A p \in Requests : /\ req[p].conn # NoConn => req[p].conn \in Mine(p)
                              /\ dial[p].conn # NoConn => dial[p].conn \in Mine(p)
      BY DEF Mine
    <3>3. req[r].conn = NoConn \/ dial[r].conn = NoConn
      <4>1. Held(r) /\ dial[r] \in DialType
        BY DEF IInv, HeldInv, Types, RequestTypes
      <4> QED BY <4>1 DEF Held, Carrying, Undialled, Connected
    <3> QED BY <3>1, <3>2, <3>3
  <2> QED BY <2>2, <2>3, <2>4 DEF ConnectionsConserved
<1> QED BY <1>1, InvAlways, PTL

(* No wake-up is lost in Pools::take: a request asleep with none on its    *)
(* way could not be given a dial nor room for one, and a connection only   *)
(* while every dial place is taken, by dials that will wake it.            *)
THEOREM NoWakeupIsLost == Spec => []NoLostWakeup
<1>1. IInv => NoLostWakeup
  <2> SUFFICES ASSUME IInv, NEW r \in Requests, req[r].pc = "parked", r \notin woken
               PROVE  \/ Decision(r) \in {"wait", "again"}
                      \/ Decision(r) = "idle" /\ dialing >= MaxDials
    BY DEF NoLostWakeup
  <2>1. Stuck
    BY DEF IInv, SleepInv, Asleep
  <2>2. Types
    BY DEF IInv
  <2>3. live \in Int /\ dialing \in Int /\ MaxConnections \in Nat /\ MaxDials \in Nat
    BY <2>2, HttpAssumption DEF Types, PoolTypes
  <2>4. Kept > 0 => idle # << >>
    <3>1. Kept \in 0..Len(idle) /\ idle \in Seq(Conns)
      BY <2>2, KeptExists DEF Types, PoolTypes
    <3>2. idle = << >> => Len(idle) = 0
      OBVIOUS
    <3> QED BY <3>1, <3>2
  <2>5. /\ Decision(r) \in {"idle", "again", "dial", "evict", "wait"}
        /\ Decision(r) = "idle" => Kept > 0
        /\ Decision(r) = "dial" => live < MaxConnections /\ dialing < MaxDials
        /\ Decision(r) = "evict" => Kept > 0 /\ live >= MaxConnections
    BY <2>2, DecisionFacts
  <2> QED BY <2>1, <2>3, <2>4, <2>5 DEF Stuck
<1> QED BY <1>1, InvAlways, PTL

(* A closed breaker opens only on the outcome of a request let through, or *)
(* re-checked, in this closed period: TicketKind::Closed carries the       *)
(* generation, and Breaker::settle ignores another's.                      *)
THEOREM OpensFreshly == Spec => OpensOnFreshEvidence
<1>1. IInv /\ [Next]_vars =>
        [brk.st = "closed" /\ brk'.st = "open"
           => \E r \in period : ~tk[r].recorded /\ tk'[r].recorded]_vars
  BY InvStep DEF StepOk, FreshStep
<1> QED BY <1>1, InvAlways, PTL DEF Spec, OpensOnFreshEvidence

(* spawn_dial records a failed dial before it frees its places: at every   *)
(* step no failure still to be counted has already given its place up, so  *)
(* a dial never starts on a place freed by a failure the breaker has not   *)
(* seen.                                                                   *)
THEOREM FailuresSeenFirst == Spec => FailureSeenFirst
<1>1. IInv => brk.failures + Cardinality({q \in period : dial[q].st = "down" /\ q \notin slot})
                < Failures
  <2> SUFFICES ASSUME IInv
               PROVE  brk.failures
                        + Cardinality({q \in period : dial[q].st = "down" /\ q \notin slot})
                        < Failures
    OBVIOUS
  <2>1. brk \in Breaker /\ period \subseteq Requests
    BY DEF IInv, Types, BreakerTypes
  <2>2. {q \in period : dial[q].st = "down" /\ q \notin slot} = {}
    BY <2>1 DEF IInv, HeldInv, Held, Running
  <2>3. brk.failures \in 0..Failures - 1
    BY <2>1 DEF Breaker
  <2> QED BY <2>2, <2>3, FS_EmptySet, HttpAssumption
<1>2. IInv /\ [Next]_vars =>
        [\A r \in Requests :
           dial[r].st = "none" /\ dial'[r].st = "running" /\ ~tk[r].probe
             => brk.failures + Cardinality({q \in period : dial[q].st = "down" /\ q \notin slot})
                  < Failures]_vars
  BY <1>1
<1> QED BY <1>2, InvAlways, PTL DEF Spec, FailureSeenFirst
=============================================================================
