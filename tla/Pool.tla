-------------------------------- MODULE Pool --------------------------------
(***************************************************************************)
(* The connection pool of ferro-pool: Pool::checkout_declared, the         *)
(* Checkout guard with its instrumented statement entries, the streaming   *)
(* and COPY handles, Drop, and the liveness reaper of health.rs.           *)
(*                                                                         *)
(* What can go wrong is a connection reaching its next tenant while its    *)
(* server session still holds something of the previous one, or the pool   *)
(* owning more sessions than max_size.  The pool never looks at the        *)
(* session itself: it only has the flags tx_open, tainted and discard,     *)
(* which it derives from what each statement reported.  The model keeps    *)
(* both sides: `server' is the truth, `idle' and `lease' the flags.        *)
(***************************************************************************)
EXTENDS Naturals, Sequences, FiniteSets

CONSTANTS
  Clients,       \* callers of Pool::checkout (requests, transaction actors)
  Conns,         \* names for backend sessions; a dropped one may be reused
  MaxSize,       \* PoolConfig::max_size
  CleanProfile,  \* PoolBackend::clean_reset_profile() of the backend
  Kinds,         \* kinds of statement the callers run
  Reaper,        \* the task started by spawn_reaper
  NoConn         \* Option::None of a connection slot

AllKinds == {"plain", "hidden", "mutating", "opens", "closes", "savepoint"}

ASSUME SizeAssumption == MaxSize \in Nat \ {0}
ASSUME ClientAssumption == IsFiniteSet(Clients) /\ Reaper \notin Clients
ASSUME ConnAssumption == NoConn \notin Conns
(* PostgreSQL and SQLite answer Targeted, MySQL Full; none answers None.   *)
ASSUME ProfileAssumption == CleanProfile \in {"targeted", "full"}
ASSUME KindAssumption == Kinds \subseteq AllKinds

VARIABLES
  permits,   \* semaphore.available_permits()
  idle,      \* PoolInner::idle, a stack whose last element is the top
  pc,        \* where each caller, and the reaper, is
  lease,     \* the connection each of them has out of the stack, with flags
  budget,    \* reap_once: iterations left in this tick
  link,      \* state of each session's socket, as the driver knows it
  server     \* state of each session, as the backend knows it

vars == <<permits, idle, pc, lease, budget, link, server>>
poolVars == <<permits, idle, budget>>

Actors == Clients \cup {Reaper}

Handles == {"stream", "copyIn", "copyOut"}
Cleaning == {"rollback", "reset", "arm"}
Stages == {"out", "wait", "pop", "dial", "armNew", "held", "release",
           "tick", "ping"} \cup Cleaning \cup Handles

(* A permit is held from the acquire to its drop.                          *)
HasPermit(a) == pc[a] \notin {"out", "wait", "tick"}

(* The stages in which the actor has a connection out of the idle stack.   *)
Leasing == {"armNew", "held", "ping"} \cup Cleaning \cup Handles

Entries == [conn : Conns, txOpen : BOOLEAN, tainted : BOOLEAN]
Leases  == [conn : Conns \cup {NoConn}, txOpen : BOOLEAN, tainted : BOOLEAN,
            discard : BOOLEAN, pinned : BOOLEAN, errored : BOOLEAN,
            readonly : BOOLEAN, kind : AllKinds]
(* tx is the transaction state, rfq the last ReadyForQuery byte the driver *)
(* decoded, state the session state left behind, inStep whether no         *)
(* response is still owed.                                                 *)
Sessions == [tx : {"I", "T", "E"}, rfq : {"I", "T", "E"},
             state : SUBSET {"session", "prepared"},
             readonly : BOOLEAN, inStep : BOOLEAN]

NoLease == [conn |-> NoConn, txOpen |-> FALSE, tainted |-> FALSE,
            discard |-> FALSE, pinned |-> FALSE, errored |-> FALSE,
            readonly |-> FALSE, kind |-> "plain"]
NewSession == [tx |-> "I", rfq |-> "I", state |-> {}, readonly |-> FALSE,
               inStep |-> TRUE]

Init ==
  /\ permits = MaxSize
  /\ idle = <<>>
  /\ pc = [a \in Actors |-> "out"]
  /\ lease = [a \in Actors |-> NoLease]
  /\ budget = 0
  /\ link = [c \in Conns |-> "none"]
  /\ server = [c \in Conns |-> NewSession]

-----------------------------------------------------------------------------
(* The idle stack.                                                         *)

Top == idle[Len(idle)]
Below == SubSeq(idle, 1, Len(idle) - 1)

(* An entry popped off the stack: its connection and flags go along.       *)
Taken(l, entry) == [l EXCEPT !.conn = entry.conn, !.txOpen = entry.txOpen,
                             !.tainted = entry.tainted]

Goto(a, stage) == pc' = [pc EXCEPT ![a] = stage]

(* The connection is dropped: the pool forgets the session.                *)
Forget(c) ==
  /\ link' = [link EXCEPT ![c] = "none"]
  /\ server' = [server EXCEPT ![c] = NewSession]

-----------------------------------------------------------------------------
(* Pool::checkout_declared.                                                *)

Checkout(k, readonly) ==
  /\ pc[k] = "out"
  /\ Goto(k, "wait")
  /\ lease' = [lease EXCEPT ![k].readonly = readonly]
  /\ UNCHANGED <<permits, idle, budget, link, server>>

Acquire(k) ==
  /\ pc[k] = "wait"
  /\ permits > 0
  /\ permits' = permits - 1
  /\ Goto(k, "pop")
  /\ UNCHANGED <<idle, lease, budget, link, server>>

(* Mutant: the acquire is not bounded by checkout_timeout.                 *)
AcquireNeverTimesOut(k) == FALSE

(* tokio's timeout polls the acquire first: it elapses only for a waiter   *)
(* that no released permit has been assigned to.                           *)
AcquireTimeout(k) ==
  /\ pc[k] = "wait"
  /\ permits < Cardinality({j \in Clients : pc[j] = "wait"})
  /\ Goto(k, "out")
  /\ lease' = [lease EXCEPT ![k] = NoLease]
  /\ UNCHANGED <<permits, idle, budget, link, server>>

(* Mutant: every recycled connection gets the clean profile.               *)
ProfileIgnoresTaint(l) == CleanProfile

(* The hygiene profile of a recycled connection.                           *)
Profile(l) == IF l.tainted THEN "full" ELSE CleanProfile

(* Mutant: dials although a connection is idle.                            *)
PopNoneDialsAnyway(k) ==
  /\ pc[k] = "pop"
  /\ Goto(k, "dial")
  /\ UNCHANGED <<poolVars, lease, link, server>>

PopNone(k) ==
  /\ pc[k] = "pop"
  /\ idle = <<>>
  /\ Goto(k, "dial")
  /\ UNCHANGED <<poolVars, lease, link, server>>

(* Past max_lifetime (any moment may be), or the driver knows it closed.   *)
PopEvict(k) ==
  /\ pc[k] = "pop"
  /\ idle # <<>>
  /\ idle' = Below
  /\ Forget(Top.conn)
  /\ UNCHANGED <<permits, pc, lease, budget>>

PopUsable(k) ==
  /\ pc[k] = "pop"
  /\ idle # <<>>
  /\ link[Top.conn] # "closed"
  /\ idle' = Below
  /\ lease' = [lease EXCEPT ![k] = Taken(@, Top)]
  /\ Goto(k, IF Top.txOpen THEN "rollback" ELSE "reset")
  /\ UNCHANGED <<permits, budget, link, server>>

Dial(k, c) ==
  /\ pc[k] = "dial"
  /\ link[c] = "none"
  /\ link' = [link EXCEPT ![c] = "up"]
  /\ server' = [server EXCEPT ![c] = NewSession]
  /\ lease' = [lease EXCEPT ![k].conn = c]
  /\ Goto(k, "armNew")
  /\ UNCHANGED poolVars

(* Mutant: a failed dial keeps its permit.                                 *)
DialFailsLeaksPermit(k) ==
  /\ pc[k] = "dial"
  /\ Goto(k, "out")
  /\ lease' = [lease EXCEPT ![k] = NoLease]
  /\ UNCHANGED <<poolVars, link, server>>

DialFails(k) ==
  /\ pc[k] = "dial"
  /\ permits' = permits + 1
  /\ Goto(k, "out")
  /\ lease' = [lease EXCEPT ![k] = NoLease]
  /\ UNCHANGED <<idle, budget, link, server>>

(* The defensive ROLLBACK of a connection returned with tx_open.           *)
RecycleRollback(k) ==
  LET c == lease[k].conn IN
  /\ pc[k] = "rollback"
  /\ link[c] = "up"
  /\ server' = [server EXCEPT ![c] = [@ EXCEPT !.tx = "I", !.rfq = "I"]]
  /\ lease' = [lease EXCEPT ![k].txOpen = FALSE]
  /\ Goto(k, "reset")
  /\ UNCHANGED <<poolVars, link>>

(* DISCARD ALL cannot run inside a transaction block, and nothing can in   *)
(* an aborted one.                                                         *)
ResetAccepted(s, profile) == s.tx = "I" \/ (s.tx = "T" /\ profile = "targeted")
ResetState(s, profile) ==
  [s EXCEPT !.state = IF profile = "full" THEN {} ELSE @ \cap {"prepared"},
            !.readonly = FALSE]

RecycleReset(k) ==
  LET c == lease[k].conn IN
  /\ pc[k] = "reset"
  /\ link[c] = "up"
  /\ ResetAccepted(server[c], Profile(lease[k]))
  /\ server' = [server EXCEPT ![c] = ResetState(@, Profile(lease[k]))]
  /\ lease' = [lease EXCEPT ![k].tainted = FALSE]
  /\ Goto(k, "arm")
  /\ UNCHANGED <<poolVars, link>>

(* The cleanup errored or outlived checkout_timeout, or arming failed.     *)
RecycleFails(k) ==
  /\ pc[k] \in Cleaning
  /\ Forget(lease[k].conn)
  /\ lease' = [lease EXCEPT ![k] = [NoLease EXCEPT !.readonly = lease[k].readonly]]
  /\ Goto(k, "pop")
  /\ UNCHANGED poolVars

(* apply_readonly succeeded and Checkout::new wraps the connection.        *)
HandOut(k) ==
  LET c == lease[k].conn IN
  /\ pc[k] \in {"arm", "armNew"}
  /\ server' = [server EXCEPT ![c].readonly = lease[k].readonly]
  /\ lease' = [lease EXCEPT ![k] = [NoLease EXCEPT !.conn = c]]
  /\ Goto(k, "held")
  /\ UNCHANGED <<permits, idle, budget, link>>

(* Arming a freshly dialled connection fails the whole checkout.           *)
ArmNewFails(k) ==
  /\ pc[k] = "armNew"
  /\ Forget(lease[k].conn)
  /\ lease' = [lease EXCEPT ![k] = NoLease]
  /\ permits' = permits + 1
  /\ Goto(k, "out")
  /\ UNCHANGED <<idle, budget>>

(* The caller drops the checkout future (a CANCEL, a deadline): RAII drops *)
(* the connection and the permit it had got that far.                      *)
AbandonCheckout(k) ==
  /\ pc[k] \in {"wait", "pop", "dial", "armNew"} \cup Cleaning
  /\ permits' = IF HasPermit(k) THEN permits + 1 ELSE permits
  /\ IF pc[k] \in Leasing THEN Forget(lease[k].conn)
                           ELSE UNCHANGED <<link, server>>
  /\ lease' = [lease EXCEPT ![k] = NoLease]
  /\ Goto(k, "out")
  /\ UNCHANGED <<idle, budget>>

-----------------------------------------------------------------------------
(* What statements do to the server session (external: the database).      *)

(* "plain" leaves no session state; "hidden" leaves some that neither the  *)
(* lexer nor a tracker sees (a function body); "mutating" leaves some that *)
(* classify() reports; "opens" and "closes" are batches that begin or end  *)
(* a transaction behind a leading keyword the guard admits.                *)
Leaves(kind) == CASE kind = "hidden"   -> {"session"}
                  [] kind = "mutating" -> {"session", "prepared"}
                  [] OTHER             -> {}
Flagged(kind) == kind = "mutating"

TxAfterOk(tx, kind) == CASE kind = "opens"  -> "T"
                         [] kind = "closes" -> "I"
                         [] OTHER           -> tx

(* A statement that succeeds: its ReadyForQuery has been read.             *)
Succeeds(s, kind) ==
  [s EXCEPT !.tx = TxAfterOk(s.tx, kind), !.rfq = TxAfterOk(s.tx, kind),
            !.state = @ \cup Leaves(kind)]

(* A statement that fails: the byte is stale, the transaction may be       *)
(* aborted (PostgreSQL), still open (MySQL) or ended, and a batch may have *)
(* opened one or left state before the error.                              *)
TxAfterError(tx, kind) ==
  IF tx = "I" /\ kind # "opens" THEN {"I"} ELSE {"I", "T", "E"}
FailsTo(s, kind) ==
  UNION {{[s EXCEPT !.tx = t, !.state = st] : t \in TxAfterError(s.tx, kind)} :
           st \in {s.state, s.state \cup Leaves(kind)}}

-----------------------------------------------------------------------------
(* The bookkeeping every instrumented method runs after its statement.     *)

(* apply_tx_status: tx_open is assigned, an aborted block also taints.     *)
ApplyTxStatus(l, rfq) ==
  [l EXCEPT !.txOpen = rfq # "I", !.tainted = @ \/ rfq = "E"]

(* Mutant: an error trusts the status byte it read.                        *)
RuleATrustsByte(l, failed) == l

(* Rule A: on any error neither the byte nor the old flag can be trusted.  *)
RuleA(l, failed) ==
  [l EXCEPT !.txOpen = @ \/ failed, !.tainted = @ \/ failed]

(* apply_classify and apply_session_tracker only ever add a taint.         *)
ApplyClassify(l, kind) == [l EXCEPT !.tainted = @ \/ Flagged(kind)]

Bookkeep(l, rfq, failed, kind) ==
  ApplyClassify(RuleA(ApplyTxStatus(l, rfq), failed), kind)

(* Client k's statement ran: session s, outcome failed.                    *)
Ran(k, s, failed, kind) ==
  /\ server' = [server EXCEPT ![lease[k].conn] = s]
  /\ lease' = [lease EXCEPT ![k] = Bookkeep(@, s.rfq, failed, kind)]

Session(k) == server[lease[k].conn]
LinkUp(k) == link[lease[k].conn] = "up"

(* guard_tx_control: boundary verbs never pass, a savepoint only inside an *)
(* open transaction; both refusals return before the backend is called.    *)
GuardTxControl(k, kind) == kind = "savepoint" => lease[k].txOpen

(* Checkout::exec and Checkout::query.                                     *)
Exec(k, kind) ==
  /\ pc[k] = "held"
  /\ GuardTxControl(k, kind)
  /\ \/ /\ LinkUp(k)
        /\ Session(k).tx # "E"
        /\ Ran(k, Succeeds(Session(k), kind), FALSE, kind)
     \/ \E s \in FailsTo(Session(k), kind) : Ran(k, s, TRUE, kind)
  /\ UNCHANGED <<poolVars, pc, link>>

(* begin_tx_with: pin by hand, then the bookkeeping.  No lexer.            *)
BeginTxWith(k) ==
  /\ pc[k] = "held"
  /\ ~ lease[k].pinned
  /\ \/ /\ LinkUp(k)
        /\ Session(k).tx # "E"
        /\ server' = [server EXCEPT ![lease[k].conn] = Succeeds(@, "opens")]
        /\ lease' = [lease EXCEPT ![k] =
                       Bookkeep([@ EXCEPT !.pinned = TRUE, !.txOpen = TRUE],
                                "T", FALSE, "plain")]
     \/ \E s \in FailsTo(Session(k), "opens") : Ran(k, s, TRUE, "plain")
  /\ UNCHANGED <<poolVars, pc, link>>

(* tx_control: an engine-composed savepoint verb; ROLLBACK TO also leaves  *)
(* an aborted block.                                                       *)
TxControl(k) ==
  /\ pc[k] = "held"
  /\ lease[k].pinned
  /\ \/ /\ LinkUp(k)
        /\ Session(k).tx # "I"
        /\ Ran(k, [Session(k) EXCEPT !.tx = "T", !.rfq = "T"], FALSE, "plain")
     \/ \E s \in FailsTo(Session(k), "plain") : Ran(k, s, TRUE, "plain")
  /\ UNCHANGED <<poolVars, pc, link>>

(* commit_tx and rollback_tx: COMMIT of an aborted block succeeds, with    *)
(* the tag ROLLBACK.                                                       *)
EndTx(k) ==
  /\ pc[k] = "held"
  /\ lease[k].pinned
  /\ \/ /\ LinkUp(k)
        /\ server' = [server EXCEPT ![lease[k].conn] = Succeeds(@, "closes")]
        /\ lease' = [lease EXCEPT ![k] =
                       Bookkeep([@ EXCEPT !.pinned = FALSE, !.txOpen = FALSE],
                                "I", FALSE, "plain")]
     \/ \E s \in FailsTo(Session(k), "closes") : Ran(k, s, TRUE, "plain")
  /\ UNCHANGED <<poolVars, pc, link>>

(* Checkout::discard, the waker's latch for a statement it gave up on: a   *)
(* response is still owed on the session.                                  *)
Discard(k) ==
  /\ pc[k] = "held"
  /\ ~ lease[k].discard
  /\ server' = [server EXCEPT ![lease[k].conn].inStep = FALSE]
  /\ lease' = [lease EXCEPT ![k].discard = TRUE]
  /\ UNCHANGED <<poolVars, pc, link>>

-----------------------------------------------------------------------------
(* RowStreamHandle, CopyInHandle and CopyOutHandle.                        *)

(* The extended protocol takes one statement, so no batch opens or closes  *)
(* a transaction here, and query_stream refuses savepoints.                *)
Streamable == Kinds \cap {"plain", "hidden", "mutating"}

(* The handle is consumed: what it recorded goes with it.                  *)
Consumed(l) == [l EXCEPT !.errored = FALSE, !.kind = "plain"]

(* query_stream, copy_in and copy_out answered Ok: the statement runs and  *)
(* responses are owed until the handle is finished.                        *)
OpenHandle(k, handle, kind) ==
  /\ pc[k] = "held"
  /\ LinkUp(k)
  /\ Session(k).tx # "E"
  /\ server' = [server EXCEPT ![lease[k].conn] =
                  [Session(k) EXCEPT !.inStep = FALSE,
                                     !.state = @ \cup Leaves(kind)]]
  /\ lease' = [lease EXCEPT ![k].kind = kind]
  /\ Goto(k, handle)
  /\ UNCHANGED <<poolVars, link>>

(* The open failed, no handle exists: finalize_stream(true) runs here.     *)
(* copy_open_failed also discards unless the server itself said no.        *)
OpenHandleFails(k, handle, kind, sqlError) ==
  /\ pc[k] = "held"
  /\ \E s \in FailsTo(Session(k), kind) :
       LET condemned == handle # "stream" /\ ~ sqlError IN
       /\ server' = [server EXCEPT ![lease[k].conn] =
                       [s EXCEPT !.inStep = @ /\ ~ condemned]]
       /\ lease' = [lease EXCEPT ![k] =
                      [Bookkeep(lease[k], s.rfq, TRUE, kind)
                         EXCEPT !.discard = @ \/ condemned]]
  /\ UNCHANGED <<poolVars, pc, link>>

(* open_streamed_raced gives up on a query_stream in flight: its future is *)
(* dropped, so no bookkeeping runs and the caller taints by hand.  The     *)
(* driver task reads the answer the statement still gets.                  *)
OpenAbandoned(k, kind) ==
  /\ pc[k] = "held"
  /\ \E s \in FailsTo(Session(k), kind) \cup {Succeeds(Session(k), kind)} :
       server' = [server EXCEPT ![lease[k].conn] = s]
  /\ lease' = [lease EXCEPT ![k].tainted = TRUE]
  /\ UNCHANGED <<poolVars, pc, link>>

(* next() or send() yields an error.                                       *)
HandleErrs(k) ==
  /\ pc[k] \in Handles
  /\ ~ lease[k].errored
  /\ \E s \in FailsTo(Session(k), lease[k].kind) :
       server' = [server EXCEPT ![lease[k].conn] = s]
  /\ lease' = [lease EXCEPT ![k].errored = TRUE]
  /\ UNCHANGED <<poolVars, pc, link>>

(* finish(): drained and reclaimed within its bounds, or the error that    *)
(* latched the stream ended it; then finalize_stream.  On a clean drain    *)
(* the terminating ReadyForQuery has been read.                            *)
FinishHandle(k) ==
  LET l == lease[k]
      s == Session(k)
      t == IF l.errored THEN s ELSE [s EXCEPT !.rfq = s.tx]
  IN
  /\ pc[k] \in Handles
  /\ LinkUp(k) \/ l.errored
  /\ server' = [server EXCEPT ![l.conn] = [t EXCEPT !.inStep = TRUE]]
  /\ lease' = [lease EXCEPT ![k] =
                 Consumed(Bookkeep(l, t.rfq, l.errored, l.kind))]
  /\ Goto(k, "held")
  /\ UNCHANGED <<poolVars, link>>

(* A drain or reclaim that timed out or failed, or a COPY abort that was   *)
(* not acknowledged: responses are still owed.                             *)
FinishGivesUp(k) ==
  /\ pc[k] \in Handles
  /\ lease' = [lease EXCEPT ![k] =
                 [Consumed(Bookkeep(lease[k], Session(k).rfq, TRUE, lease[k].kind))
                    EXCEPT !.discard = TRUE]]
  /\ Goto(k, "held")
  /\ UNCHANGED <<poolVars, link, server>>

(* CopyInHandle::abort, acknowledged: CopyFail always counts as an error.  *)
AbortCopyIn(k) ==
  /\ pc[k] = "copyIn"
  /\ LinkUp(k)
  /\ \E s \in FailsTo(Session(k), lease[k].kind) :
       server' = [server EXCEPT ![lease[k].conn] = [s EXCEPT !.inStep = TRUE]]
  /\ lease' = [lease EXCEPT ![k] =
                 Consumed(Bookkeep(lease[k], Session(k).rfq, TRUE, lease[k].kind))]
  /\ Goto(k, "held")
  /\ UNCHANGED <<poolVars, link>>

(* A handle dropped without its terminal call: the synchronous safety net. *)
DropHandle(k) ==
  /\ pc[k] \in Handles
  /\ lease' = [lease EXCEPT ![k] =
                 [Consumed(lease[k]) EXCEPT !.tainted = TRUE, !.discard = TRUE]]
  /\ Goto(k, "held")
  /\ UNCHANGED <<poolVars, link, server>>

-----------------------------------------------------------------------------
(* Drop for Checkout: back on the stack unless discarded or known closed;  *)
(* the permit is a field, so it is released after the push.                *)

Entry(l) == [conn |-> l.conn, txOpen |-> l.txOpen, tainted |-> l.tainted]

Recyclable(l) == ~ l.discard /\ link[l.conn] # "closed"

DropCheckout(k) ==
  /\ pc[k] = "held"
  /\ IF Recyclable(lease[k])
       THEN /\ idle' = Append(idle, Entry(lease[k]))
            /\ UNCHANGED <<link, server>>
       ELSE /\ Forget(lease[k].conn)
            /\ UNCHANGED idle
  /\ lease' = [lease EXCEPT ![k] = NoLease]
  /\ Goto(k, "release")
  /\ UNCHANGED <<permits, budget>>

(* The transaction actor's teardown gives up on a rollback_tx that         *)
(* outlived teardown_timeout: none of its bookkeeping ran, so teardown     *)
(* taints by hand before it drops the Checkout.                            *)
TeardownGivesUp(k) ==
  LET l == [lease[k] EXCEPT !.tainted = TRUE]
      c == l.conn
  IN
  /\ pc[k] = "held"
  /\ l.pinned
  /\ IF Recyclable(l)
       THEN /\ idle' = Append(idle, Entry(l))
            /\ \E t \in {server[c].tx, "I"} :
                 server' = [server EXCEPT ![c].tx = t]
            /\ UNCHANGED link
       ELSE /\ Forget(c)
            /\ UNCHANGED idle
  /\ lease' = [lease EXCEPT ![k] = NoLease]
  /\ Goto(k, "release")
  /\ UNCHANGED <<permits, budget>>

ReleasePermit(a) ==
  /\ pc[a] = "release"
  /\ permits' = permits + 1
  /\ Goto(a, IF a = Reaper THEN "tick" ELSE "out")
  /\ UNCHANGED <<idle, lease, budget, link, server>>

-----------------------------------------------------------------------------
(* reap_once: one idle connection at a time, each under a permit.          *)

ReapTick ==
  /\ pc[Reaper] = "out"
  /\ idle # <<>>
  /\ budget' = Len(idle)
  /\ Goto(Reaper, "tick")
  /\ UNCHANGED <<permits, idle, lease, link, server>>

(* Mutant: the reaper pings a connection it left on the stack.             *)
ReapPopPeeks ==
  /\ pc[Reaper] = "tick"
  /\ budget > 0
  /\ permits > 0
  /\ \A k \in Clients : pc[k] # "wait"
  /\ idle # <<>>
  /\ permits' = permits - 1
  /\ budget' = budget - 1
  /\ lease' = [lease EXCEPT ![Reaper] = Taken(@, Top)]
  /\ Goto(Reaper, "ping")
  /\ UNCHANGED <<idle, link, server>>

(* try_acquire_owned never overtakes a queued waiter.                      *)
ReapPop ==
  /\ pc[Reaper] = "tick"
  /\ budget > 0
  /\ permits > 0
  /\ \A k \in Clients : pc[k] # "wait"
  /\ idle # <<>>
  /\ permits' = permits - 1
  /\ budget' = budget - 1
  /\ idle' = Below
  /\ lease' = [lease EXCEPT ![Reaper] = Taken(@, Top)]
  /\ Goto(Reaper, "ping")
  /\ UNCHANGED <<link, server>>

(* The tick is over: budget spent, no permit to be had, or nothing idle.   *)
ReapStop ==
  /\ pc[Reaper] = "tick"
  /\ \/ budget = 0
     \/ permits = 0
     \/ \E k \in Clients : pc[k] = "wait"
     \/ idle = <<>>
  /\ budget' = 0
  /\ Goto(Reaper, "out")
  /\ UNCHANGED <<permits, idle, lease, link, server>>

(* SELECT 1 answers, unless the block is aborted; flags go back as found.  *)
ReapKeep ==
  /\ pc[Reaper] = "ping"
  /\ link[lease[Reaper].conn] = "up"
  /\ Session(Reaper).tx # "E"
  /\ idle' = Append(idle, Entry(lease[Reaper]))
  /\ lease' = [lease EXCEPT ![Reaper] = NoLease]
  /\ Goto(Reaper, "release")
  /\ UNCHANGED <<permits, budget, link, server>>

(* Past max_lifetime, closed, or the ping failed.                          *)
ReapEvict ==
  /\ pc[Reaper] = "ping"
  /\ Forget(lease[Reaper].conn)
  /\ lease' = [lease EXCEPT ![Reaper] = NoLease]
  /\ Goto(Reaper, "release")
  /\ UNCHANGED <<permits, idle, budget>>

-----------------------------------------------------------------------------
(* The backend (external): a session may end at any moment; the driver     *)
(* task notices some time later, which is when is_closed turns true.       *)

ServerEnds(c) ==
  /\ link[c] = "up"
  /\ link' = [link EXCEPT ![c] = "dying"]
  /\ UNCHANGED <<poolVars, pc, lease, server>>

DriverNotices(c) ==
  /\ link[c] = "dying"
  /\ link' = [link EXCEPT ![c] = "closed"]
  /\ UNCHANGED <<poolVars, pc, lease, server>>

-----------------------------------------------------------------------------
CheckoutStep(k) ==
  \/ Acquire(k) \/ AcquireTimeout(k)
  \/ PopNone(k) \/ PopEvict(k) \/ PopUsable(k)
  \/ \E c \in Conns : Dial(k, c)
  \/ DialFails(k)
  \/ RecycleRollback(k) \/ RecycleReset(k) \/ RecycleFails(k)
  \/ HandOut(k) \/ ArmNewFails(k)

HandleStep(k) ==
  \/ HandleErrs(k) \/ FinishHandle(k) \/ FinishGivesUp(k)
  \/ AbortCopyIn(k) \/ DropHandle(k)

UseStep(k) ==
  \/ \E kind \in Kinds : Exec(k, kind)
  \/ BeginTxWith(k) \/ TxControl(k) \/ EndTx(k)
  \/ Discard(k)
  \/ \E kind \in Streamable : OpenAbandoned(k, kind)
  \/ \E handle \in Handles, kind \in Streamable :
       \/ OpenHandle(k, handle, kind)
       \/ \E sqlError \in BOOLEAN : OpenHandleFails(k, handle, kind, sqlError)
  \/ HandleStep(k)

ReaperStep == ReapTick \/ ReapPop \/ ReapStop \/ ReapKeep \/ ReapEvict

Next ==
  \/ \E k \in Clients :
       \/ \E readonly \in BOOLEAN : Checkout(k, readonly)
       \/ CheckoutStep(k) \/ AbandonCheckout(k)
       \/ UseStep(k) \/ DropCheckout(k) \/ TeardownGivesUp(k)
  \/ \E a \in Actors : ReleasePermit(a)
  \/ ReaperStep
  \/ \E c \in Conns : ServerEnds(c) \/ DriverNotices(c)

Spec == Init /\ [][Next]_vars

(* Every await of a checkout is bounded (the acquire, the dial, the        *)
(* cleanup) or needs no answer, and a dropped Checkout releases its permit *)
(* synchronously.  Callers are owed no fairness, nor is a ping.            *)
FairSpec ==
  /\ Spec
  /\ \A k \in Clients : WF_vars(CheckoutStep(k)) /\ WF_vars(ReleasePermit(k))

-----------------------------------------------------------------------------
(* Properties.                                                             *)

(* Every variable stays in its domain.                                     *)
TypeOK ==
  /\ permits \in Nat
  /\ idle \in Seq(Entries)
  /\ pc \in [Actors -> Stages]
  /\ lease \in [Actors -> Leases]
  /\ budget \in Nat
  /\ link \in [Conns -> {"none", "up", "dying", "closed"}]
  /\ server \in [Conns -> Sessions]

(* Where a connection is: nowhere, on the idle stack, or leased -- never   *)
(* in two places, and none the pool has not forgotten is in no place.      *)
(* This is what "removed from the idle stack for the lifetime of the       *)
(* guard" (pin.rs) rests on, the reaper's pop-ping-push included.          *)
OnePlace ==
  /\ \A a \in Actors : (lease[a].conn # NoConn) <=> (pc[a] \in Leasing)
  /\ \A a, b \in Actors :
       a # b /\ lease[a].conn # NoConn => lease[a].conn # lease[b].conn
  /\ \A i, j \in 1..Len(idle) : i # j => idle[i].conn # idle[j].conn
  /\ \A i \in 1..Len(idle), a \in Actors : idle[i].conn # lease[a].conn
  /\ \A c \in Conns : link[c] # "none" <=>
       \/ \E i \in 1..Len(idle) : idle[i].conn = c
       \/ \E a \in Actors : lease[a].conn = c

(* Every permit is accounted for: a checkout that times out, fails, is     *)
(* abandoned at any await, or is dropped gives back exactly what it took.  *)
PermitsConserved ==
  permits + Cardinality({a \in Actors : HasPermit(a)}) = MaxSize

(* The pool never owns more sessions than max_size, whatever races between *)
(* a checkout that found the stack empty and a reaper holding one of its   *)
(* connections for a ping (the "S4 CRITICAL fix" of health.rs).            *)
Capacity ==
  Cardinality({c \in Conns : link[c] # "none"}) <= MaxSize

(* The flags f admit to everything session s still holds that the recycle  *)
(* they select would not remove.                                           *)
Covers(f, s) ==
  /\ s.tx # "I" => f.txOpen
  /\ "prepared" \in s.state => f.tainted

(* The pool's flags never claim less than the truth: on the stack, with    *)
(* the reaper, and in a caller's hands between statements, after any       *)
(* sequence of successes, failures, stale status bytes, batches that open  *)
(* transactions, abandoned streams and COPYs.                              *)
FlagsCover ==
  /\ \A i \in 1..Len(idle) : /\ Covers(idle[i], server[idle[i].conn])
                             /\ server[idle[i].conn].inStep
  /\ \A a \in Actors : pc[a] \in {"held", "ping"} =>
       /\ Covers(lease[a], Session(a))
       /\ Session(a).inStep \/ lease[a].discard

(* A session nobody used: no transaction, no state, nothing owed.          *)
Pristine(s) == s.tx = "I" /\ s.state = {} /\ s.inStep

(* Charter rule 6: whatever its previous tenants did, the connection a     *)
(* checkout hands out carries nothing of theirs, and is armed read-only    *)
(* exactly as this caller declared.                                        *)
HandsOutPristine ==
  [][\A k \in Clients :
       pc[k] # "held" /\ pc'[k] = "held" /\ pc[k] \notin Handles =>
         LET s == server'[lease'[k].conn] IN
         Pristine(s) /\ s.readonly = lease[k].readonly]_vars

(* A checkout always ends, in a hand-out or an error, although callers may *)
(* keep connections for ever, sessions die and pings hang: nobody waits on *)
(* the pool without bound.                                                 *)
CheckoutEnds ==
  \A k \in Clients : pc[k] = "wait" ~> pc[k] \in {"held", "out"}

=============================================================================
