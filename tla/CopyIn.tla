-------------------------------- MODULE CopyIn --------------------------------
(* One COPY ... FROM STDIN: the client that sends its data, the credit the    *)
(* engine grants it, the reader that never waits, the handler that forwards to *)
(* the server, and the code the request ends with (services/copy.rs,           *)
(* session/registry.rs, Responder::open_inbound and grant).                    *)
(*                                                                            *)
(* In a transaction the handler runs in the transaction's actor, which rolls   *)
(* back and tombstones when it answers Broken (TxService).                     *)
EXTENDS Integers, Sequences, SequencesExt, Fate

CONSTANTS
  WindowFrames, WindowBytes,   \* config.copy_in_window_frames, _bytes
  Sizes,               \* chunk sizes
  MaxChunks,           \* bound: chunks the client sends
  ControlRoom          \* bound: frames on their way to the client

(* Config::validate: the window is not empty.                                  *)
ASSUME CopyAssumption ==
  /\ WindowFrames \in Nat \ {0} /\ WindowBytes \in Nat \ {0}
  /\ Sizes \subseteq Nat /\ MaxChunks \in Nat /\ ControlRoom \in Nat \ {0}

VARIABLES
  h,                   \* where the handler is
  inTx,                \* the request carries a tx_id
  stopped,             \* the token fired or the deadline passed
  why,                 \* the open was interrupted
  credit,              \* InboundCell.credit
  pending,             \* Regrant: consumed since the last grant
  grant,               \* the grant being sent
  inbound,             \* the inbound channel
  hand,                \* the chunk being forwarded
  up, down,            \* the socket: frames to the engine, frames to the client
  session,             \* "up", "gone" or "killed" by a violation
  mine,                \* the client's own view of its credit
  begun,               \* the client has read the first grant
  todo,                \* chunks the client has still to send; -1 after COPY_DONE
  server,              \* the COPY at the server: "aborted" before its end-of-data
  told, ended          \* the code it ended with, and what the actor is answered

vars == <<h, inTx, stopped, why, credit, pending, grant, inbound, hand, up, down, session,
          mine, begun, todo, server, told, ended>>

Amount == [frames : 0 .. WindowFrames, bytes : 0 .. WindowBytes]
Zero == [frames |-> 0, bytes |-> 0]
Window == [frames |-> WindowFrames, bytes |-> WindowBytes]
Plus(a, b) == [frames |-> a.frames + b.frames, bytes |-> a.bytes + b.bytes]
Chunk(n) == [frames |-> 1, bytes |-> n]
Minus(a, b) == [frames |-> a.frames - b.frames, bytes |-> a.bytes - b.bytes]
Covers(a, b) == b.frames <= a.frames /\ b.bytes <= a.bytes

COPY_DONE == -1
Nothing == -2
IsChunk(n) == n >= 0
Total(s) == FoldSeq(LAMBDA n, t : IF IsChunk(n) THEN Plus(t, Chunk(n)) ELSE t, Zero, s)

(* The handler's InboundRx lives: the reader delivers into its channel.        *)
Open == h \in {"checkout", "open", "opening", "granting", "recv", "forward"}

TypeOK ==
  /\ h \in {"capacity", "checkout", "open", "opening", "granting", "recv", "forward",
            "finishing", "ended"}
  /\ inTx \in BOOLEAN /\ stopped \in BOOLEAN /\ why \in BOOLEAN
  /\ credit \in Amount /\ pending \in Amount /\ grant \in Amount /\ mine \in Amount
  /\ inbound \in Seq(Sizes \cup {COPY_DONE}) /\ Len(inbound) <= WindowFrames + 1
  /\ hand \in Sizes \cup {Nothing}
  /\ up \in Seq(Sizes \cup {COPY_DONE})
  /\ down \in Seq(Amount)
  /\ session \in {"up", "gone", "killed"}
  /\ todo \in -1 .. MaxChunks /\ begun \in BOOLEAN
  /\ server \in {"none", "copying", "aborted", "deciding", "applied", "failed"}
  /\ told \in Codes \cup {"none"} /\ ended \in {"none", "Intact", "Broken"}

Init ==
  /\ h = "capacity"
  /\ inTx \in BOOLEAN
  /\ stopped = FALSE /\ why = FALSE
  /\ credit = Zero /\ pending = Zero /\ grant = Zero
  /\ inbound = <<>> /\ hand = Nothing
  /\ up = <<>> /\ down = <<>> /\ session = "up"
  /\ mine = Zero /\ begun = FALSE
  /\ todo \in 0 .. MaxChunks
  /\ server = "none"
  /\ told = "none" /\ ended = "none"

flow == <<credit, pending, grant>>
wire == <<up, down, session, mine, begun, todo>>

Context(sent) == [readonly |-> FALSE, sent |-> sent, inTx |-> inTx]

(* The request ends: its terminal, the actor's answer, and InboundRx dropped.  *)
End(code, answer) ==
  /\ h' = "ended"
  /\ told' = code
  /\ ended' = answer
  /\ hand' = Nothing /\ inbound' = <<>>
  /\ UNCHANGED <<inTx, stopped, why, flow, wire>>

(* copy_stopped_before_done, classified as unsent: nothing can have applied.   *)
NotApplied == ClassifyFate("cancel", Context(FALSE))
EndsTx(err) == err \notin {"sql", "unsupported"}
Answer(err) == IF EndsTx(err) THEN "Broken" ELSE "Intact"

-----------------------------------------------------------------------------
(* open_inbound: wait for the session's inbound cap; no credit yet.            *)

Capacity ==
  /\ h = "capacity"
  /\ h' = IF inTx THEN "open" ELSE "checkout"
  /\ UNCHANGED <<inTx, stopped, why, flow, inbound, hand, wire, server, told, ended>>

CapacityStopped ==
  /\ h = "capacity"
  /\ stopped
  /\ End(NotApplied, "Broken")
  /\ UNCHANGED server

(* run_autocommit_copy: the checkout, raced with the deadline and the token.   *)
Checkout ==
  /\ h = "checkout"
  /\ h' = "open"
  /\ UNCHANGED <<inTx, stopped, why, flow, inbound, hand, wire, server, told, ended>>

CheckoutFails ==
  /\ h = "checkout"
  /\ \/ stopped /\ End(ClassifyFate("timeout", Context(FALSE)), "Intact")
     \/ stopped /\ End(NotApplied, "Intact")
     \/ \E err \in {"timeout", "closed", "lost"} :
           End(ClassifyFate(err, Context(FALSE)), "Intact")
  /\ UNCHANGED server

(* co.copy_in(sql): the statement goes out.                                    *)
OpenStarts ==
  /\ h = "open"
  /\ h' = "opening"
  /\ UNCHANGED <<inTx, stopped, why, flow, inbound, hand, wire, server, told, ended>>

(* Deadline or CANCEL while it opens: fire the backend's cancel and await it.  *)
OpenStopped ==
  /\ h = "opening"
  /\ stopped /\ ~ why
  /\ why' = TRUE
  /\ UNCHANGED <<h, inTx, stopped, flow, inbound, hand, wire, server, told, ended>>

(* grant: the engine's own accounting first, then the frame.  (The mutant      *)
(* leaves the accounting out.)                                                 *)
GrantingForgets(amount) ==
  /\ h' = "granting"
  /\ grant' = amount
  /\ UNCHANGED credit

Granting(amount) ==
  /\ h' = "granting"
  /\ credit' = Plus(credit, amount)
  /\ grant' = amount

OpenOk ==
  /\ h = "opening"
  /\ IF why
     THEN End(NotApplied, "Broken") /\ server' = "aborted"
     ELSE /\ Granting(Window)
          /\ server' = "copying"
          /\ UNCHANGED <<inTx, stopped, why, pending, inbound, hand, wire, told, ended>>

(* copy_in_open_failed: only the server's own answer, or a refusal that sent   *)
(* nothing, is a known fate.                                                   *)
OpenFailedCode(err) ==
  LET known == err \in {"sql", "cancel", "unsupported"}
  IN IF why /\ known THEN ClassifyFate("cancel", Context(FALSE))
                     ELSE ClassifyFate(err, Context(~ known))

(* Without an answer the statement may have run, and as something else than a  *)
(* COPY: then it has committed.                                                *)
OpenErr ==
  /\ h = "opening"
  /\ \E err \in {"sql", "cancel", "unsupported", "lost", "backend"} :
        /\ server' \in IF err \in {"lost", "backend"} THEN {"applied", "failed"} ELSE {"aborted"}
        /\ End(OpenFailedCode(err), IF why THEN "Broken" ELSE Answer(err))

-----------------------------------------------------------------------------
(* The data loop.                                                              *)

(* control_tx.send of the WINDOW_UPDATE: neither token nor deadline is raced.  *)
GrantSent ==
  /\ h = "granting"
  /\ session = "up"
  /\ Len(down) < ControlRoom
  /\ down' = Append(down, grant)
  /\ grant' = Zero
  /\ h' = "recv"
  /\ UNCHANGED <<inTx, stopped, why, credit, pending, inbound, hand, up, session, mine, begun,
                 todo, server, told, ended>>

GrantFails ==
  /\ h = "granting"
  /\ session # "up"
  /\ End(NotApplied, "Broken")
  /\ server' = "aborted"

Recv ==
  /\ h = "recv"
  /\ ~ stopped
  /\ inbound # <<>>
  /\ inbound' = Tail(inbound)
  /\ IF Head(inbound) = COPY_DONE
     THEN h' = "finishing" /\ server' = "deciding" /\ UNCHANGED hand
     ELSE h' = "forward" /\ hand' = Head(inbound) /\ UNCHANGED server
  /\ UNCHANGED <<inTx, stopped, why, flow, wire, told, ended>>

RecvStopped ==
  /\ h = "recv"
  /\ stopped
  /\ End(NotApplied, "Broken")
  /\ server' = "aborted"

(* Regrant::consumed: once half the window, in frames or in bytes, has been    *)
(* consumed, exactly that much is granted again.  (The mutant waits for all of *)
(* it.)                                                                        *)
HalfUp(n) == (n + 1) \div 2
DueWhenEmpty(c) == c.frames >= WindowFrames /\ c.bytes >= WindowBytes
Due(c) == c.frames >= HalfUp(WindowFrames) \/ c.bytes >= HalfUp(WindowBytes)

Forwarded ==
  /\ h = "forward"
  /\ hand' = Nothing
  /\ LET c == Plus(pending, Chunk(hand)) IN
     IF Due(c) THEN Granting(c) /\ pending' = Zero
               ELSE h' = "recv" /\ pending' = c /\ UNCHANGED <<credit, grant>>
  /\ UNCHANGED <<inTx, stopped, why, inbound, wire, server, told, ended>>

(* Stopped under the backend's backpressure, or the server or the link failed. *)
ForwardFails ==
  /\ h = "forward"
  /\ \/ stopped /\ End(NotApplied, "Broken")
     \/ \E err \in {"sql", "cancel", "lost"} :
           End(ClassifyFate(err, Context(FALSE)), Answer(err))
  /\ server' = "aborted"

(* handle.finish(): from here the COPY may apply.  Deadline and CANCEL fire    *)
(* the backend's cancel and keep waiting, so they only make an error likelier. *)
Decided(outcome) == h = "finishing" /\ server' = outcome

FinishOk == Decided("applied") /\ End("Ok", "Intact")

(* Mutant: a stop after the end-of-data is classified like one before it.      *)
FinishErrUnsent ==
  \/ \E err \in {"sql", "cancel"} :
        Decided("failed") /\ End(ClassifyFate(err, Context(FALSE)), Answer(err))
  \/ \E outcome \in {"applied", "failed"} :
        Decided(outcome) /\ End(ClassifyFate("lost", Context(FALSE)), "Broken")

FinishErr ==
  \/ \E err \in {"sql", "cancel"} :
        Decided("failed") /\ End(ClassifyFate(err, Context(TRUE)), Answer(err))
  \/ \E outcome \in {"applied", "failed"} :
        Decided(outcome) /\ End(ClassifyFate("lost", Context(TRUE)), "Broken")

-----------------------------------------------------------------------------
(* The client.  It sends nothing before the first grant, and only what its     *)
(* credit covers; COPY data is divisible, so any chunk that fits will do.      *)

ReadGrant ==
  /\ session = "up"
  /\ down # <<>>
  /\ mine' = Plus(mine, Head(down))
  /\ down' = Tail(down)
  /\ begun' = TRUE
  /\ UNCHANGED <<h, inTx, stopped, why, flow, inbound, hand, up, session, todo, server, told, ended>>

SendChunk(n) ==
  /\ session = "up"
  /\ todo > 0
  /\ Covers(mine, Chunk(n))
  /\ mine' = Minus(mine, Chunk(n))
  /\ todo' = todo - 1
  /\ up' = Append(up, n)
  /\ UNCHANGED <<h, inTx, stopped, why, flow, inbound, hand, down, session, begun, server,
                 told, ended>>

SendDone ==
  /\ session = "up"
  /\ todo = 0
  /\ begun
  /\ todo' = -1
  /\ up' = Append(up, COPY_DONE)
  /\ UNCHANGED <<h, inTx, stopped, why, flow, inbound, hand, down, session, mine, begun,
                 server, told, ended>>

(* Registry::deliver, from the reader loop: never waits; a late frame is       *)
(* discarded, one beyond the credit or the channel kills the session.          *)
Deliver ==
  /\ session = "up"
  /\ up # <<>>
  /\ up' = Tail(up)
  /\ LET item == Head(up) IN
     CASE h \in {"finishing", "ended"} -> UNCHANGED <<session, credit, inbound>>
       [] h = "capacity" \/ (Open /\ IsChunk(item) /\ ~ Covers(credit, Chunk(item)))
            \/ Len(inbound) > WindowFrames ->
            session' = "killed" /\ UNCHANGED <<credit, inbound>>
       [] OTHER ->
            /\ credit' = IF IsChunk(item) THEN Minus(credit, Chunk(item)) ELSE credit
            /\ inbound' = Append(inbound, item)
            /\ UNCHANGED session
  /\ UNCHANGED <<h, inTx, stopped, why, pending, grant, hand, down, mine, begun, todo, server,
                 told, ended>>

(* CANCEL, the deadline, or the session's end, which cancels every token.      *)
Stop ==
  /\ ~ stopped
  /\ h # "ended"
  /\ stopped' = TRUE
  /\ UNCHANGED <<h, inTx, why, flow, inbound, hand, wire, server, told, ended>>

ClientGone ==
  /\ session = "up"
  /\ h # "ended"
  /\ session' = "gone"
  /\ up' = <<>> /\ down' = <<>> /\ mine' = Zero
  /\ stopped' = TRUE
  /\ UNCHANGED <<h, inTx, why, flow, inbound, hand, begun, todo, server, told, ended>>

Done == h = "ended" /\ UNCHANGED vars

HandlerSteps ==
  \/ Capacity \/ CapacityStopped \/ Checkout \/ CheckoutFails \/ OpenStarts \/ OpenStopped
  \/ OpenOk \/ OpenErr \/ GrantSent \/ GrantFails \/ Recv \/ RecvStopped
  \/ Forwarded \/ ForwardFails \/ FinishOk \/ FinishErr
ClientSteps == ReadGrant \/ SendDone \/ \E n \in Sizes : SendChunk(n)

Next == HandlerSteps \/ ClientSteps \/ Deliver \/ Stop \/ ClientGone \/ Done

Spec == Init /\ [][Next]_vars

(* The client reads, has data or says it is done; the server answers or the    *)
(* link to it fails.                                                           *)
FairSpec ==
  Spec /\ WF_vars(HandlerSteps) /\ WF_vars(ClientSteps) /\ WF_vars(Deliver)

-----------------------------------------------------------------------------

(* registry.rs deliver: a client that stays within the grants it has read is   *)
(* never taken for one that breaks the contract.                               *)
LawfulClientSurvives == session # "killed"

(* copy.rs: a code that lets the client repeat the COPY is only given when     *)
(* nothing of it can apply: the COPY never reached its end-of-data, or the     *)
(* transaction it ran in is ended.                                             *)
RetryIsSafe ==
  told \in Retryable => IF inTx THEN ended = "Broken" ELSE server \notin {"applied", "deciding"}

(* responder.rs consumed: no deadlock.  A client that goes on sending what it  *)
(* may is granted more, and every COPY ends.                                   *)
CopyEnds == <>(h = "ended")

=============================================================================
