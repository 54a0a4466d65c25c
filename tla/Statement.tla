------------------------------ MODULE Statement ------------------------------
(* Autocommit statements on a pool: the buffered EXEC, the streamed EXEC and   *)
(* COPY TO STDOUT (services/sql.rs, services/copy.rs), each raced with its      *)
(* deadline and its CANCEL, and the out-of-band cancel, which travels on a      *)
(* connection of its own and may arrive when its target serves someone else.    *)
EXTENDS Integers, FiniteSets, Fate

CONSTANTS
  Requests, Conns, None,
  MaxCancels           \* bound: out-of-band cancels under way at once

ASSUME StatementAssumption == None \notin Requests \cup Conns /\ MaxCancels \in Nat

Kinds == {"exec", "stream", "copyOut"}

VARIABLES
  kind, readonly,      \* what each request is
  at,                  \* where its handler is
  stopped,             \* its token fired or its deadline passed
  co,                  \* the connection it holds
  tainted,             \* the connection needs a full reset before its next user
  serving,             \* the statement each server session runs
  reply,               \* the answer the server sent and the handler has not read
  cancels,             \* connections an out-of-band cancel is under way to
  effect,              \* history: what became of each statement at the server
  told                 \* the code each request ended with

vars == <<kind, readonly, at, stopped, co, tainted, serving, reply, cancels, effect, told>>

Answers == {"none", "ok", "sql", "cancel", "lost", "backend"}

TypeOK ==
  /\ kind \in [Requests -> Kinds] /\ readonly \in [Requests -> BOOLEAN]
  /\ at \in [Requests -> {"queue", "check", "wait", "drain", "open", "pull", "finish", "ended"}]
  /\ stopped \subseteq Requests
  /\ co \in [Requests -> Conns \cup {None}]
  /\ \A r, s \in Requests : r # s /\ co[r] = co[s] => co[r] = None
  /\ tainted \subseteq Conns
  /\ serving \in [Conns -> Requests \cup {None}]
  /\ reply \in [Requests -> Answers]
  /\ cancels \in [Conns -> 0 .. MaxCancels]
  /\ effect \in [Requests -> {"waiting", "parsing", "refused", "running", "applied", "failed"}]
  /\ told \in [Requests -> Codes \cup {"none"}]

Init ==
  /\ kind \in [Requests -> Kinds]
  /\ readonly \in [Requests -> BOOLEAN]
  /\ at = [r \in Requests |-> "queue"]
  /\ stopped = {}
  /\ co = [r \in Requests |-> None]
  /\ tainted = {}
  /\ serving = [c \in Conns |-> None]
  /\ reply = [r \in Requests |-> "none"]
  /\ cancels = [c \in Conns |-> 0]
  /\ effect = [r \in Requests |-> "waiting"]
  /\ told = [r \in Requests |-> "none"]

request == <<kind, readonly, stopped>>
db == <<serving, reply, cancels, effect>>

Goto(r, where) == at' = [at EXCEPT ![r] = where]
Held == {co[r] : r \in Requests} \ {None}
Context(r, sent) == [readonly |-> readonly[r], sent |-> sent, inTx |-> FALSE]

(* The terminal is declared; the connection goes back, tainted or not.         *)
End(r, code, taint) ==
  /\ Goto(r, "ended")
  /\ told' = [told EXCEPT ![r] = code]
  /\ co' = [co EXCEPT ![r] = None]
  /\ tainted' = IF taint THEN tainted \cup ({co[r]} \ {None}) ELSE tainted

-----------------------------------------------------------------------------
(* The checkout.                                                               *)

(* pool.checkout_declared.  A tainted connection is reset first: the reset     *)
(* queues behind the statement the server still runs there.                    *)
Checkout(r) ==
  /\ at[r] = "queue"
  /\ \E c \in Conns \ Held :
        /\ serving[c] = None
        /\ co' = [co EXCEPT ![r] = c]
        /\ tainted' = tainted \ {c}
  /\ Goto(r, "check")
  /\ UNCHANGED <<request, db, told>>

(* The pool's own error, or the deadline and the CANCEL raced with it (not     *)
(* raced by the streamed EXEC).  Nothing was sent.                             *)
CheckoutFails(r) ==
  /\ at[r] = "queue"
  /\ \/ \E err \in {"timeout", "closed", "lost"} :
           End(r, ClassifyFate(err, Context(r, FALSE)), FALSE)
     \/ /\ r \in stopped /\ kind[r] # "stream"
        /\ \E err \in {"timeout", "cancel"} :
              End(r, ClassifyFate(err, Context(r, FALSE)), FALSE)
  /\ UNCHANGED <<request, db>>

(* run_exec_on_pool: no time left, nothing is dispatched.                      *)
NoTimeLeft(r) ==
  /\ at[r] = "check"
  /\ kind[r] = "exec"
  /\ r \in stopped
  /\ End(r, ClassifyFate("timeout", Context(r, FALSE)), FALSE)
  /\ UNCHANGED <<request, db>>

(* The driver call is polled: the statement is first prepared, a round trip of *)
(* its own.                                                                    *)
Begin(r) ==
  /\ at[r] = "check"
  /\ serving' = [serving EXCEPT ![co[r]] = r]
  /\ effect' = [effect EXCEPT ![r] = "parsing"]
  /\ Goto(r, IF kind[r] = "exec" THEN "wait" ELSE "open")
  /\ UNCHANGED <<request, co, tainted, reply, cancels, told>>

-----------------------------------------------------------------------------
(* The server, and the way to it.                                              *)

Answer(r, c, a, e) ==
  /\ serving[c] = r
  /\ serving' = [serving EXCEPT ![c] = None]
  /\ reply' = [reply EXCEPT ![r] = IF at[r] = "ended" THEN "none" ELSE a]
  /\ effect' = [effect EXCEPT ![r] = e]

(* The parse fails, or the arguments do not fit what it inferred, or the link  *)
(* is lost: the statement is never executed.                                   *)
PrepareFails(c) ==
  LET r == serving[c] IN
  /\ r # None
  /\ effect[r] = "parsing"
  /\ \E a \in {"sql", "lost"} : Answer(r, c, a, "refused")
  /\ UNCHANGED <<request, at, co, tainted, cancels, told>>

(* The statement is executed by a driver call that is still polled, drained or *)
(* not; the parse of a dropped one has no successor.                           *)
Execute(c) ==
  LET r == serving[c] IN
  /\ r # None
  /\ effect[r] = "parsing"
  /\ IF at[r] = "ended" THEN Answer(r, c, "none", "refused")
     ELSE /\ effect' = [effect EXCEPT ![r] = "running"]
          /\ UNCHANGED <<serving, reply>>
  /\ UNCHANGED <<request, at, co, tainted, cancels, told>>

(* A statement completes, is rejected, or loses its link: then nobody knows    *)
(* whether it ran to its end.  A reply the driver cannot decode is "backend".  *)
ServerAnswers(c) ==
  LET r == serving[c] IN
  /\ r # None
  /\ effect[r] = "running"
  /\ \/ Answer(r, c, "ok", "applied")
     \/ Answer(r, c, "sql", "failed")
     \/ Answer(r, c, "backend", "applied")
     \/ \E e \in {"applied", "failed"} : Answer(r, c, "lost", e)
  /\ UNCHANGED <<request, at, co, tainted, cancels, told>>

(* cancel_handle.cancel(): best effort, within its dial budget.                *)
FireCancel(r) ==
  cancels' = IF cancels[co[r]] < MaxCancels THEN [cancels EXCEPT ![co[r]] = @ + 1] ELSE cancels

(* The cancel reaches whatever the connection serves then, or nothing.         *)
CancelLands(c) ==
  /\ cancels[c] > 0
  /\ cancels' = [cancels EXCEPT ![c] = @ - 1]
  /\ \/ LET r == serving[c] IN
           r # None /\ Answer(r, c, "cancel", IF effect[r] = "parsing" THEN "refused" ELSE "failed")
     \/ UNCHANGED <<serving, reply, effect>>
  /\ UNCHANGED <<request, at, co, tainted, told>>

-----------------------------------------------------------------------------
(* run_autocommit_exec.                                                        *)

(* Deadline or CANCEL before the answer: fire the cancel, then drain.          *)
ExecStopped(r) ==
  /\ at[r] = "wait"
  /\ r \in stopped
  /\ reply[r] = "none"
  /\ FireCancel(r)
  /\ Goto(r, "drain")
  /\ UNCHANGED <<request, co, tainted, serving, reply, effect, told>>

(* Mutant: whatever a drained statement answers is taken for a cancel.         *)
DeclareStopped(r) ==
  IF at[r] = "drain" THEN {ClassifyFate("cancel", Context(r, FALSE))}
  ELSE IF reply[r] = "ok" THEN {"Ok", "Unsupported"}
  ELSE {ClassifyFate(reply[r], Context(r, TRUE))}

(* declare_autocommit_exec: a statement that completed is a success, unless    *)
(* its result does not fit one frame; an error is that of a sent statement.    *)
Declare(r) ==
  IF reply[r] = "ok" THEN {"Ok", "Unsupported"}
  ELSE {ClassifyFate(reply[r], Context(r, TRUE))}

ExecAnswered(r) ==
  /\ at[r] \in {"wait", "drain"}
  /\ kind[r] = "exec"
  /\ reply[r] # "none"
  /\ \E code \in Declare(r) : End(r, code, reply[r] # "ok")
  /\ reply' = [reply EXCEPT ![r] = "none"]
  /\ UNCHANGED <<request, serving, cancels, effect>>

-----------------------------------------------------------------------------
(* run_autocommit_streamed and run_copy_out.                                   *)

(* query_stream answers once rows can be pulled: the statement still runs, or  *)
(* its answer is already there.                                                *)
Opened(r) ==
  /\ at[r] = "open"
  /\ effect[r] \in {"running", "applied"}
  /\ reply[r] \in {"none", "ok"}
  /\ Goto(r, "pull")
  /\ UNCHANGED <<request, co, tainted, db, told>>

OpenFails(r) ==
  /\ at[r] = "open"
  /\ reply[r] \notin {"none", "ok"}
  /\ End(r, ClassifyFate(reply[r], Context(r, TRUE)), TRUE)
  /\ reply' = [reply EXCEPT ![r] = "none"]
  /\ UNCHANGED <<request, serving, cancels, effect>>

(* open_streamed_raced: the open is dropped, not drained; the connection goes  *)
(* back tainted with the statement perhaps still running.                      *)
OpenStopped(r) ==
  /\ at[r] = "open"
  /\ kind[r] = "stream"
  /\ r \in stopped
  /\ FireCancel(r)
  /\ End(r, ClassifyFate("cancel", Context(r, TRUE)), TRUE)
  /\ UNCHANGED <<request, serving, reply, effect>>

(* A COPY's open is drained, however long the server takes to answer it.       *)
OpenStoppedDrains(r) ==
  /\ at[r] = "open"
  /\ kind[r] = "copyOut"
  /\ r \in stopped
  /\ FireCancel(r)
  /\ Goto(r, "drain")
  /\ told' = [told EXCEPT ![r] = ClassifyFate("cancel", Context(r, TRUE))]
  /\ UNCHANGED <<request, co, tainted, serving, reply, effect>>

OpenDrained(r) ==
  /\ at[r] = "drain"
  /\ kind[r] = "copyOut"
  /\ \/ reply[r] \notin {"none", "ok"} /\ End(r, told[r], TRUE)
     \/ /\ effect[r] \in {"running", "applied"} /\ reply[r] \in {"none", "ok"}
        /\ Goto(r, "finish")
        /\ UNCHANGED <<co, tainted, told>>
  /\ reply' = [reply EXCEPT ![r] = IF @ = "ok" THEN @ ELSE "none"]
  /\ UNCHANGED <<request, serving, cancels, effect>>

(* The loop ends early: a stop, a row above the frame limit, the client gone.  *)
(* The cancel is fired (a COPY whose client is gone does not), and the rest is *)
(* drained before the terminal.                                                *)
PullAborts(r) ==
  /\ at[r] = "pull"
  /\ \E err \in {"cancel", "unsupported", "lost"} :
        /\ err = "cancel" => r \in stopped
        /\ err = "unsupported" => kind[r] = "stream"
        /\ IF err = "lost" /\ kind[r] = "copyOut" THEN UNCHANGED cancels ELSE FireCancel(r)
        /\ told' = [told EXCEPT ![r] = ClassifyFate(err, Context(r, TRUE))]
  /\ Goto(r, "finish")
  /\ UNCHANGED <<request, co, tainted, serving, reply, effect>>

PullAnswered(r) ==
  /\ at[r] = "pull"
  /\ reply[r] # "none"
  /\ End(r, IF reply[r] = "ok" THEN "Ok" ELSE ClassifyFate(reply[r], Context(r, TRUE)),
         reply[r] # "ok")
  /\ reply' = [reply EXCEPT ![r] = "none"]
  /\ UNCHANGED <<request, serving, cancels, effect>>

(* handle.finish(): the drain, bounded by checkout_timeout; a connection that  *)
(* is not drained in time is discarded, and its statement may go on.           *)
Drained(r) ==
  /\ at[r] = "finish"
  /\ reply[r] # "none"
  /\ End(r, told[r], TRUE)
  /\ reply' = [reply EXCEPT ![r] = "none"]
  /\ UNCHANGED <<request, serving, cancels, effect>>

(* Mutant: the drain waits for the server, whatever the time.                  *)
DrainWaits(r) ==
  /\ at[r] = "finish"
  /\ reply[r] = "none"
  /\ serving[co[r]] # r
  /\ End(r, told[r], TRUE)
  /\ UNCHANGED <<request, db>>

DrainTimesOut(r) ==
  /\ at[r] = "finish"
  /\ reply[r] = "none"
  /\ End(r, told[r], TRUE)
  /\ UNCHANGED <<request, db>>

Stop(r) ==
  /\ r \notin stopped
  /\ at[r] # "ended"
  /\ stopped' = stopped \cup {r}
  /\ UNCHANGED <<kind, readonly, at, co, tainted, db, told>>

Done == (\A r \in Requests : at[r] = "ended") /\ UNCHANGED vars

HandlerSteps(r) ==
  \/ Checkout(r) \/ CheckoutFails(r) \/ NoTimeLeft(r) \/ Begin(r)
  \/ ExecStopped(r) \/ ExecAnswered(r)
  \/ OpenFails(r) \/ OpenStopped(r) \/ OpenStoppedDrains(r)
  \/ PullAborts(r) \/ PullAnswered(r) \/ Drained(r) \/ DrainTimesOut(r)

Next ==
  \/ \E r \in Requests : HandlerSteps(r) \/ Opened(r) \/ OpenDrained(r) \/ Stop(r)
  \/ \E c \in Conns : PrepareFails(c) \/ Execute(c) \/ ServerAnswers(c) \/ CancelLands(c)
  \/ Done

Spec == Init /\ [][Next]_vars

(* A handler that can go on does, and the pool's and the drain's own timers    *)
(* fire; nothing is asked of the server or of a cancel.                        *)
FairSpec ==
  /\ Spec
  /\ \A r \in Requests : WF_vars(HandlerSteps(r))

-----------------------------------------------------------------------------

Over(r) == at[r] = "ended"
NotApplied == {"waiting", "refused", "failed"}

(* fate.rs, sql.rs, copy.rs: the terminal tells the truth, whoever's cancel    *)
(* stopped the statement and even if the server still runs it.  A code that     *)
(* lets the client repeat a write is given only when the write has not been     *)
(* applied and never will be, and success only when it has.                     *)
AnswerIsTrue ==
  \A r \in Requests :
     /\ Over(r) /\ ~ readonly[r] /\ told[r] \in Retryable => effect[r] \in NotApplied
     /\ Over(r) /\ told[r] = "Ok" => effect[r] = "applied"

(* sql.rs run_exec_on_pool, copy.rs: timeout_ms and CANCEL bound the wait for a *)
(* connection, and a stream abandoned while it is opened or pulled is answered *)
(* even when the server never answers; only a drained statement waits for it.  *)
StoppedIsAnswered ==
  \A r \in Requests :
     r \in stopped /\ at[r] \in {"queue", "check", "open", "pull"} ~> Over(r) \/ at[r] = "drain"

=============================================================================
