------------------------------- MODULE Session -------------------------------
(* One connection of a PHP worker: the reader loop, the in-flight registry,   *)
(* a handler and a supervisor task for every request, the one ordered channel *)
(* to the writer, and the teardown (ferrod/src/session).                      *)
(*                                                                            *)
(* Handlers are the services.  Here they only do what the session can notice: *)
(* stream DATA, declare an outcome and return, return without one or panic,   *)
(* and look at their cancel token or not.  What a DATA frame costs in credit  *)
(* and in the session's byte cap is StreamFlow.                               *)
EXTENDS Integers, Sequences, FiniteSets

CONSTANTS
  Ids,                 \* request ids a client uses (never 0)
  MaxRequests,         \* bound: request frames the client sends
  MaxData,             \* bound: DATA frames of one request
  MaxInflight,         \* config.max_inflight
  Slack                \* what the control channel holds beyond max_inflight

ASSUME SessionAssumption ==
  /\ MaxRequests \in Nat /\ MaxData \in Nat
  /\ MaxInflight \in Nat \ {0} /\ Slack \in Nat
  /\ 0 \notin Ids

(* Request frames are numbered in the order in which they are read.           *)
Requests == 1 .. MaxRequests
NoReq == 0

VARIABLES
  phase,               \* where the session task is
  held,                \* what it waits to put on the channel
  next,                \* the number of the next request frame
  id,                  \* the id of each request that was accepted
  registry,            \* the in-flight registry: id to request
  handler,             \* the state of each request's handler task
  cancelled,           \* the requests whose CancellationToken has fired
  data,                \* DATA frames each handler has sent
  sup,                 \* the state of each request's supervisor task
  chan,                \* the control channel
  writer,              \* the writer task: "up" or "gone"
  seen                 \* history: the frames written for each request

tasks == <<handler, cancelled, data, sup>>
vars == <<phase, held, next, id, registry, handler, cancelled, data, sup, chan, writer, seen>>

(* HELLO_ACK, PONG and the session's own error END on id 0 belong to no        *)
(* request; nothing here tells them apart.                                    *)
Frame == [kind : {"data", "end", "session"}, req : Requests \cup {NoReq}]
OfSession == [kind |-> "session", req |-> NoReq]
Nothing == [kind |-> "none", req |-> NoReq]

Capacity == MaxInflight + Slack
Permits == {r \in Requests : sup[r] = "await"}

(* One type per variable; the channel's slots cover the frames on it and the   *)
(* permits reserved for terminals.                                             *)
TypeOK ==
  /\ phase \in {"hello", "sendAck", "loop", "sendLoop", "sendDown", "sendFlush", "reserve",
                "drain", "flush", "over"}
  /\ held \in [kind : {"none", "end", "session", "slot"}, req : Requests \cup {NoReq}]
  /\ next \in 1 .. MaxRequests + 1
  /\ id \in [Requests -> Ids \cup {NoReq}]
  /\ registry \in [Ids -> Requests \cup {NoReq}]
  /\ handler \in [Requests -> {"none", "run", "sending", "ended"}]
  /\ cancelled \subseteq Requests
  /\ data \in [Requests -> 0 .. MaxData]
  /\ sup \in [Requests -> {"none", "await", "sent", "gone", "aborted"}]
  /\ chan \in Seq(Frame)
  /\ Len(chan) + Cardinality(Permits) <= Capacity
  /\ writer \in {"up", "gone"}
  /\ seen \in [Requests -> Seq({"data", "end"})]

-----------------------------------------------------------------------------
(* The control channel.  A permit reserved by reserve_owned takes a slot until *)
(* its supervisor sends on it or is aborted.                                   *)

Room == writer = "up" /\ Len(chan) + Cardinality(Permits) < Capacity

InFlight == {i \in Ids : registry[i] # NoReq}
Running(r) == handler[r] \in {"run", "sending"}

(* The tokens of these requests fire.  Only a running handler looks at its own.*)
Told(rs) == cancelled \cup {r \in rs : Running(r)}

(* Everything that holds a Sender: the session task until it drops its own, a  *)
(* handler through its Responder, a supervisor through its permit.             *)
Senders ==
  \/ phase \notin {"flush", "over"}
  \/ \E r \in Requests : Running(r) \/ sup[r] = "await"

Init ==
  /\ phase = "hello"
  /\ held = Nothing
  /\ next = 1
  /\ id = [r \in Requests |-> NoReq]
  /\ registry = [i \in Ids |-> NoReq]
  /\ handler = [r \in Requests |-> "none"]
  /\ cancelled = {}
  /\ data = [r \in Requests |-> 0]
  /\ sup = [r \in Requests |-> "none"]
  /\ chan = <<>>
  /\ writer = "up"
  /\ seen = [r \in Requests |-> <<>>]

-----------------------------------------------------------------------------
(* The handshake: one frame, read under handshake_timeout.                     *)

(* A HELLO with the right registry hash and manifest: build the handler, probe *)
(* the pools within their budget, send HELLO_ACK.                              *)
Hello ==
  /\ phase = "hello"
  /\ phase' = "sendAck"
  /\ held' = OfSession
  /\ UNCHANGED <<next, id, registry, tasks, chan, writer, seen>>

(* A first frame that does not decode, sets a reserved or an unknown flag, is  *)
(* not HELLO, or names another registry or manifest: one error END, and close. *)
HelloRefused ==
  /\ phase = "hello"
  /\ phase' = "sendFlush"
  /\ held' = OfSession
  /\ UNCHANGED <<next, id, registry, tasks, chan, writer, seen>>

(* EOF or nothing in time: close without a word.                               *)
HelloNever ==
  /\ phase = "hello"
  /\ phase' = "flush"
  /\ UNCHANGED <<held, next, id, registry, tasks, chan, writer, seen>>

-----------------------------------------------------------------------------
(* The reader loop.                                                            *)

(* control_tx.send(frame).await of the session task: it waits for room, and    *)
(* fails once the writer is gone.                                              *)
Sending == {"sendAck", "sendLoop", "sendDown", "sendFlush"}
After == CASE phase \in {"sendAck", "sendLoop"} -> "loop"
           [] phase = "sendDown" -> "down"
           [] phase = "sendFlush" -> "flush"

TeardownTellsNobody ==
  /\ phase' = "drain"
  /\ UNCHANGED cancelled

(* Leaving the loop: liveness.end, registry.cancel_all, and the session's      *)
(* transactions are aborted (TxService), in that order, then the drain.        *)
Teardown ==
  /\ phase' = "drain"
  /\ cancelled' = Told({registry[i] : i \in InFlight})

(* The acknowledgement is the one frame sent before the loop: if the writer is *)
(* gone already there is nothing to tear down.                                 *)
SendFails ==
  /\ phase \in Sending
  /\ writer = "gone"
  /\ held' = Nothing
  /\ IF phase \in {"sendAck", "sendFlush"}
     THEN phase' = "flush" /\ UNCHANGED cancelled
     ELSE Teardown
  /\ UNCHANGED <<next, id, registry, handler, data, sup, chan, writer, seen>>

Send ==
  /\ phase \in Sending
  /\ Room
  /\ chan' = Append(chan, held)
  /\ held' = Nothing
  /\ IF After = "down" THEN Teardown ELSE phase' = After /\ UNCHANGED cancelled
  /\ UNCHANGED <<next, id, registry, handler, data, sup, writer, seen>>

(* A request frame that never reaches a handler is answered on its id.         *)
Refuse(r) ==
  /\ phase' = "sendLoop"
  /\ held' = [kind |-> "end", req |-> r]
  /\ UNCHANGED <<id, registry>>

InsertReplaces(r, i) ==
  IF registry[i] = NoReq /\ Cardinality(InFlight) >= MaxInflight
  THEN Refuse(r)
  ELSE /\ registry' = [registry EXCEPT ![i] = r]
       /\ id' = [id EXCEPT ![r] = i]
       /\ phase' = "reserve"
       /\ held' = [kind |-> "slot", req |-> r]

(* registry.insert: an id in use or a full registry is refused, else the id is *)
(* taken and the session task waits for the terminal's slot.                   *)
Insert(r, i) ==
  IF registry[i] # NoReq \/ Cardinality(InFlight) >= MaxInflight
  THEN Refuse(r)
  ELSE /\ registry' = [registry EXCEPT ![i] = r]
       /\ id' = [id EXCEPT ![r] = i]
       /\ phase' = "reserve"
       /\ held' = [kind |-> "slot", req |-> r]

ReadRequest(i) ==
  /\ phase = "loop"
  /\ next <= MaxRequests
  /\ next' = next + 1
  /\ Insert(next, i)
  /\ UNCHANGED <<tasks, chan, writer, seen>>

(* An unknown flag bit, an unknown service or method, a refused admin verb or  *)
(* the reserved id 0: answered at once, on whatever id the frame carries.      *)
ReadUnroutable ==
  /\ phase = "loop"
  /\ next <= MaxRequests
  /\ next' = next + 1
  /\ Refuse(next)
  /\ UNCHANGED <<tasks, chan, writer, seen>>

(* The slot is reserved before the handler runs; then handler and supervisor   *)
(* are spawned.                                                                *)
Reserve ==
  /\ phase = "reserve"
  /\ Room
  /\ phase' = "loop"
  /\ held' = Nothing
  /\ handler' = [handler EXCEPT ![held.req] = "run"]
  /\ sup' = [sup EXCEPT ![held.req] = "await"]
  /\ UNCHANGED <<next, id, registry, cancelled, data, chan, writer, seen>>

ReserveFails ==
  /\ phase = "reserve"
  /\ writer = "gone"
  /\ registry' = [registry EXCEPT ![id[held.req]] = NoReq]
  /\ held' = Nothing
  /\ phase' = "drain"
  /\ cancelled' = Told({registry[i] : i \in InFlight} \ {held.req})
  /\ UNCHANGED <<next, id, handler, data, sup, chan, writer, seen>>

(* The CANCEL flag on a frame, whatever the frame is.                          *)
ReadCancel(i) ==
  /\ phase = "loop"
  /\ registry[i] # NoReq
  /\ cancelled' = Told({registry[i]})
  /\ UNCHANGED <<phase, held, next, id, registry, handler, data, sup, chan,
                 writer, seen>>

ReadPing ==
  /\ phase = "loop"
  /\ phase' = "sendLoop"
  /\ held' = OfSession
  /\ UNCHANGED <<next, id, registry, tasks, chan, writer, seen>>

(* A header that does not decode, a reserved flag, or COPY data against its    *)
(* contract ends the session with one END on id 0.                             *)
ReadFatal ==
  /\ phase = "loop"
  /\ phase' = "sendDown"
  /\ held' = OfSession
  /\ UNCHANGED <<next, id, registry, tasks, chan, writer, seen>>

(* GOODBYE and EOF both leave the loop.                                        *)
ReadEnd ==
  /\ phase = "loop"
  /\ Teardown
  /\ UNCHANGED <<held, next, id, registry, handler, data, sup, chan, writer, seen>>

-----------------------------------------------------------------------------
(* A handler and its Responder.                                                *)

(* send_stream_frame, past credit and cap: the send that waits for room.       *)
StartData(r) ==
  /\ handler[r] = "run"
  /\ data[r] < MaxData
  /\ handler' = [handler EXCEPT ![r] = "sending"]
  /\ UNCHANGED <<phase, held, next, id, registry, cancelled, data, sup, chan,
                 writer, seen>>

SendData(r) ==
  /\ handler[r] = "sending"
  /\ r \notin cancelled
  /\ Room
  /\ chan' = Append(chan, [kind |-> "data", req |-> r])
  /\ data' = [data EXCEPT ![r] = @ + 1]
  /\ handler' = [handler EXCEPT ![r] = "run"]
  /\ UNCHANGED <<phase, held, next, id, registry, cancelled, sup, writer, seen>>

(* The token, the deadline or a closed channel end the send; the handler then  *)
(* stops streaming.                                                            *)
SendAborted(r) ==
  /\ handler[r] = "sending"
  /\ handler' = [handler EXCEPT ![r] = "run"]
  /\ data' = [data EXCEPT ![r] = MaxData]
  /\ UNCHANGED <<phase, held, next, id, registry, cancelled, sup, chan, writer, seen>>

(* Mutant: the id is freed when the Responder is dropped.                      *)
HandlerEndsAndFrees(r) ==
  /\ handler[r] = "run"
  /\ handler' = [handler EXCEPT ![r] = "ended"]
  /\ cancelled' = cancelled \ {r}
  /\ registry' = [registry EXCEPT ![id[r]] = NoReq]
  /\ UNCHANGED <<phase, held, next, id, data, sup, chan, writer, seen>>

(* end_ok, end_error, end_cancelled, or a return or a panic without one: the   *)
(* task ends and the Responder with its Sender is gone.                        *)
HandlerEnds(r) ==
  /\ handler[r] = "run"
  /\ handler' = [handler EXCEPT ![r] = "ended"]
  /\ cancelled' = cancelled \ {r}
  /\ UNCHANGED <<phase, held, next, id, registry, data, sup, chan, writer, seen>>

-----------------------------------------------------------------------------
(* A supervisor: the one sender of the terminal.  Where the handler declared   *)
(* nothing the terminal is a synthesized error.                                *)

(* Mutants: one does not wait for the handler's task, one sends on the shared  *)
(* channel and not on the slot reserved for it.                                *)
SupervisorSendsEarly(r) ==
  /\ sup[r] = "await"
  /\ handler[r] \in {"run", "sending", "ended"}
  /\ sup' = [sup EXCEPT ![r] = "sent"]
  /\ chan' = IF writer = "up" THEN Append(chan, [kind |-> "end", req |-> r]) ELSE chan
  /\ UNCHANGED <<phase, held, next, id, registry, handler, cancelled, data, writer, seen>>

SupervisorTrySends(r) ==
  /\ sup[r] = "await"
  /\ handler[r] = "ended"
  /\ sup' = [sup EXCEPT ![r] = "sent"]
  /\ chan' = IF Room THEN Append(chan, [kind |-> "end", req |-> r]) ELSE chan
  /\ UNCHANGED <<phase, held, next, id, registry, handler, cancelled, data, writer, seen>>

SupervisorSends(r) ==
  /\ sup[r] = "await"
  /\ handler[r] = "ended"
  /\ sup' = [sup EXCEPT ![r] = "sent"]
  /\ chan' = IF writer = "up" THEN Append(chan, [kind |-> "end", req |-> r]) ELSE chan
  /\ UNCHANGED <<phase, held, next, id, registry, handler, cancelled, data, writer, seen>>

(* registry.remove, the next statement: another thread may run in between.     *)
SupervisorFrees(r) ==
  /\ sup[r] = "sent"
  /\ sup' = [sup EXCEPT ![r] = "gone"]
  /\ registry' = [registry EXCEPT ![id[r]] = NoReq]
  /\ UNCHANGED <<phase, held, next, id, handler, cancelled, data, chan, writer, seen>>

-----------------------------------------------------------------------------
(* The writer.                                                                 *)

Write ==
  /\ writer = "up"
  /\ chan # <<>>
  /\ chan' = Tail(chan)
  /\ LET f == Head(chan) IN
     seen' = IF f.kind \in {"data", "end"}
             THEN [seen EXCEPT ![f.req] = Append(@, f.kind)]
             ELSE seen
  /\ UNCHANGED <<phase, held, next, id, registry, tasks, writer>>

(* A failed write, or a channel whose last Sender is gone.                     *)
WriteFails ==
  /\ writer = "up"
  /\ chan # <<>>
  /\ writer' = "gone"
  /\ chan' = <<>>
  /\ UNCHANGED <<phase, held, next, id, registry, tasks, seen>>

WriterEnds ==
  /\ writer = "up"
  /\ chan = <<>>
  /\ ~ Senders
  /\ writer' = "gone"
  /\ UNCHANGED <<phase, held, next, id, registry, tasks, chan, seen>>

-----------------------------------------------------------------------------
(* The end of the session task: drain_supervisors, drop(control_tx), and the   *)
(* writer is awaited.                                                          *)

Drained ==
  /\ phase = "drain"
  /\ \A r \in Requests : sup[r] \in {"none", "gone"}
  /\ phase' = "flush"
  /\ UNCHANGED <<held, next, id, registry, tasks, chan, writer, seen>>

(* drain_deadline: abort_all reaches a supervisor at its only await.  Its      *)
(* handler goes on.                                                            *)
DrainTimeout ==
  /\ phase = "drain"
  /\ \E r \in Requests : sup[r] \in {"await", "sent"}
  /\ phase' = "flush"
  /\ sup' = [r \in Requests |-> IF sup[r] = "await" THEN "aborted" ELSE sup[r]]
  /\ UNCHANGED <<held, next, id, registry, handler, cancelled, data, chan,
                 writer, seen>>

Over ==
  /\ phase = "flush"
  /\ writer = "gone"
  /\ phase' = "over"
  /\ UNCHANGED <<held, next, id, registry, tasks, chan, writer, seen>>

(* A session that is over stays over.                                          *)
Done ==
  /\ phase = "over"
  /\ \A r \in Requests : ~ Running(r) /\ sup[r] # "sent"
  /\ UNCHANGED vars

HandlerSteps(r) == StartData(r) \/ SendData(r) \/ SendAborted(r) \/ HandlerEnds(r)
SupervisorSteps(r) == SupervisorSends(r) \/ SupervisorFrees(r)
WriterSteps == Write \/ WriteFails \/ WriterEnds
TaskSteps ==
  \/ SendFails \/ Send \/ Reserve \/ ReserveFails \/ Drained \/ DrainTimeout \/ Over
Reads ==
  \/ Hello \/ HelloRefused \/ HelloNever \/ ReadUnroutable \/ ReadPing \/ ReadFatal
  \/ ReadEnd \/ \E i \in Ids : ReadRequest(i) \/ ReadCancel(i)

Next ==
  \/ Reads \/ TaskSteps \/ WriterSteps \/ Done
  \/ \E r \in Requests : HandlerSteps(r) \/ SupervisorSteps(r)

Spec == Init /\ [][Next]_vars

(* Tokio runs every task that can run, and the client reads.  Nothing is asked *)
(* of handlers.                                                                *)
FairSpec ==
  /\ Spec
  /\ WF_vars(TaskSteps)
  /\ WF_vars(WriterSteps)
  /\ \A r \in Requests : WF_vars(SupervisorSteps(r))

(* Every handler ends once its token has fired.                                *)
CooperativeSpec ==
  /\ FairSpec
  /\ \A r \in Requests : WF_vars(r \in cancelled /\ (SendAborted(r) \/ HandlerEnds(r)))

-----------------------------------------------------------------------------

(* session/mod.rs, supervisor.rs: what the client reads is what RequestStream  *)
(* promises.  Two ENDs, an END before a DATA frame of its request or a frame   *)
(* for a request nobody sent would each break it.                              *)
Client == INSTANCE RequestStream
            WITH asked <- 1 .. next - 1, open <- (writer = "up")
ImplementsRequestStream == Client!Spec

Ended(r) == \E k \in 1 .. Len(seen[r]) : seen[r][k] = "end"
Accepted(r) == handler[r] # "none"

(* supervisor.rs: the id is freed after the END is on the channel, so a client *)
(* can always tell which of two accepted requests with one id a frame is for:  *)
(* the later one is silent until the earlier one's END has been read.          *)
IdNeverAmbiguous ==
  \A r, s \in Requests :
     r < s /\ Accepted(r) /\ Accepted(s) /\ id[r] = id[s] /\ seen[s] # <<>> => Ended(r)

(* registry.rs: a handler that runs under a supervisor is the one its id names,*)
(* so CANCEL and WINDOW_UPDATE reach it and nobody else, at most max_inflight  *)
(* run, and once the teardown has begun every one of them has been told.       *)
CancelReaches ==
  /\ \A r \in Requests :
        Running(r) /\ sup[r] = "await" =>
           /\ registry[id[r]] = r
           /\ phase \in {"drain", "flush", "over"} => r \in cancelled
  /\ Cardinality({r \in Requests : Running(r) /\ sup[r] = "await"}) <= MaxInflight

(* supervisor.rs: a handler that has ended, however it ended, is answered: its *)
(* END is written unless the connection fails or the drain runs out of time.   *)
EndIsDelivered ==
  \A r \in Requests :
     handler[r] = "ended" ~> Ended(r) \/ writer = "gone" \/ sup[r] = "aborted"

(* mod.rs: a session whose handlers heed their tokens ends once its loop has.  *)
SessionEnds == phase = "drain" ~> phase = "over"

=============================================================================
