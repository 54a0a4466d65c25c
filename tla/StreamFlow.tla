------------------------------ MODULE StreamFlow ------------------------------
(* Server-to-client flow control of one session: a credit window for every    *)
(* stream, one byte cap for all of them, the ordered channel and the writer   *)
(* (session/flow.rs, Responder::send_stream_frame, writer.rs).  A locked       *)
(* section is one step; a wait is the steps check, register, recheck and poll, *)
(* because another task may run between any two of them.                       *)
EXTENDS Integers, Sequences, FiniteSets, SequencesExt

CONSTANTS
  Streams,             \* requests that stream
  Sizes,               \* payload sizes of their frames
  MaxFramePayload,     \* the codec's ceiling
  WindowFrames, WindowBytes,   \* config.credit_frames, config.credit_bytes
  Cap,                 \* config.session_cap_bytes
  ChannelCapacity,     \* slots of the control channel that DATA may use
  MaxFrames            \* bound: frames the streams produce together

(* Config::validate: a frame of the largest size fits both windows.            *)
ASSUME FlowAssumption ==
  /\ IsFiniteSet(Streams) /\ Sizes \subseteq Nat \ {0}
  /\ MaxFramePayload \in Nat /\ WindowFrames \in Nat \ {0} /\ WindowBytes \in Nat
  /\ Cap \in Nat /\ ChannelCapacity \in Nat \ {0} /\ MaxFrames \in Nat
  /\ MaxFramePayload <= WindowBytes /\ MaxFramePayload <= Cap

VARIABLES
  pc,                  \* where each producer is
  size,                \* the payload of the frame it is sending
  left,                \* frames that may still be produced (a bound)
  stopped,             \* the producers whose token fired or whose deadline passed
  credit,              \* the CreditCell of each stream
  permit,              \* the permit notify_one stored in it
  used,                \* SessionCap.used
  heard,               \* registered on the cap, and notify_waiters came since
  releasing,           \* who has released cap bytes and not called notify_waiters yet
  chan, writing,       \* the channel, and the frame the writer holds
  writer,              \* "up" or "gone"
  updating,            \* the streams replenished and not notified yet
  unread               \* history: what the client read and has not granted back

vars == <<pc, size, left, stopped, credit, permit, used, heard, releasing, chan, writing,
          writer, updating, unread>>

Frame == [of : Streams, size : Sizes]
Credit == [frames : 0 .. WindowFrames, bytes : 0 .. WindowBytes]
NoCredit == [frames |-> 0, bytes |-> 0]
Window == [frames |-> WindowFrames, bytes |-> WindowBytes]
Writer == "writer"

(* The sum of the weights w of a sequence's elements.                          *)
Total(w, seq) ==
  LET upto[i \in 0 .. Len(seq)] == IF i = 0 THEN 0 ELSE upto[i - 1] + w[seq[i]]
  IN upto[Len(seq)]

Size == [f \in Frame |-> f.size]

(* The frames between producer and socket.                                     *)
Queued == writing \o chan

TypeOK ==
  /\ pc \in [Streams -> {"idle", "debit", "debitAgain", "debitPoll", "debitPark",
                         "reserve", "reserveAgain", "reservePoll", "reservePark",
                         "send", "ended"}]
  /\ size \in [Streams -> Sizes \cup {0}]
  /\ left \in 0 .. MaxFrames
  /\ stopped \subseteq Streams
  /\ credit \in [Streams -> Credit]
  /\ permit \in [Streams -> BOOLEAN]
  /\ used \in 0 .. Cap
  /\ heard \subseteq Streams
  /\ releasing \subseteq Streams \cup {Writer}
  /\ chan \in Seq(Frame) /\ Len(chan) <= ChannelCapacity
  /\ writing \in Seq(Frame) /\ Len(writing) <= 1
  /\ writer \in {"up", "gone"}
  /\ updating \subseteq Streams
  /\ unread \in [Streams -> Credit]

Init ==
  /\ pc = [p \in Streams |-> "idle"]
  /\ size = [p \in Streams |-> 0]
  /\ left = MaxFrames
  /\ stopped = {}
  /\ credit = [p \in Streams |-> Window]
  /\ permit = [p \in Streams |-> FALSE]
  /\ used = 0
  /\ heard = {}
  /\ releasing = {}
  /\ chan = <<>> /\ writing = <<>> /\ writer = "up"
  /\ updating = {}
  /\ unread = [p \in Streams |-> NoCredit]

cell == <<credit, permit>>
cap == <<used, heard, releasing>>
link == <<chan, writing, writer>>
client == <<updating, unread>>

Goto(p, where) == pc' = [pc EXCEPT ![p] = where]

(* send_stream_frame returns: Ok, or an error that ends the stream.            *)
Return(p, where) == Goto(p, where) /\ size' = [size EXCEPT ![p] = 0]

-----------------------------------------------------------------------------
(* send_stream_frame.                                                          *)

(* A frame above the codec's ceiling fails before anything is taken.           *)
Produce(p) ==
  /\ pc[p] = "idle"
  /\ left > 0
  /\ left' = left - 1
  /\ \E n \in Sizes :
        IF n > MaxFramePayload
        THEN Goto(p, "ended") /\ UNCHANGED size
        ELSE Goto(p, "debit") /\ size' = [size EXCEPT ![p] = n]
  /\ UNCHANGED <<stopped, cell, cap, link, client>>

Finish(p) ==
  /\ pc[p] = "idle"
  /\ Goto(p, "ended")
  /\ UNCHANGED <<size, left, stopped, cell, cap, link, client>>

(* Credit::try_debit, all or nothing.                                          *)
Fits(p) == credit[p].frames > 0 /\ size[p] <= credit[p].bytes
Debited(p) == [credit EXCEPT ![p] = [frames |-> @.frames - 1, bytes |-> @.bytes - size[p]]]

TryDebit(p, from, otherwise) ==
  /\ pc[p] = from
  /\ IF Fits(p)
     THEN Goto(p, "reserve") /\ credit' = Debited(p)
     ELSE Goto(p, otherwise) /\ UNCHANGED credit
  /\ UNCHANGED <<size, left, stopped, permit, cap, link, client>>

(* debit_or_wait: check, build the Notified, check again.                      *)
Debit(p) == TryDebit(p, "debit", "debitAgain")
DebitAgain(p) == TryDebit(p, "debitAgain", "debitPoll")

(* The select!: token and deadline first, then the Notified, which is ready at *)
(* once if notify_one has stored a permit.                                     *)
DebitPoll(p) ==
  /\ pc[p] = "debitPoll"
  /\ IF p \in stopped THEN Return(p, "ended") /\ UNCHANGED permit
     ELSE /\ Goto(p, IF permit[p] THEN "debit" ELSE "debitPark")
          /\ permit' = [permit EXCEPT ![p] = FALSE]
          /\ UNCHANGED size
  /\ UNCHANGED <<left, stopped, credit, cap, link, client>>

(* SessionCap::try_reserve.                                                    *)
TryReserve(p, from, otherwise) ==
  /\ pc[p] = from
  /\ IF used + size[p] <= Cap
     THEN Goto(p, "send") /\ used' = used + size[p]
     ELSE Goto(p, otherwise) /\ UNCHANGED used
  /\ heard' = heard \ {p}
  /\ UNCHANGED <<size, left, stopped, cell, releasing, link, client>>

(* reserve_or_wait, in the same shape; its Notified counts from its creation.   *)
Reserve(p) == TryReserve(p, "reserve", "reserveAgain")

ReserveAgain(p) ==
  /\ pc[p] = "reserveAgain"
  /\ IF used + size[p] <= Cap
     THEN Goto(p, "send") /\ used' = used + size[p]
     ELSE Goto(p, "reservePoll") /\ UNCHANGED used
  /\ UNCHANGED <<size, left, stopped, cell, heard, releasing, link, client>>

ReservePoll(p) ==
  /\ pc[p] = "reservePoll"
  /\ IF p \in stopped THEN Return(p, "ended")
     ELSE Goto(p, IF p \in heard THEN "reserve" ELSE "reservePark") /\ UNCHANGED size
  /\ heard' = heard \ {p}
  /\ UNCHANGED <<left, stopped, cell, used, releasing, link, client>>

(* Mutant: the wait for the cap is not raced with the token.                   *)
UnparkCreditOnly(p) ==
  /\ pc[p] = "debitPark"
  /\ p \in stopped
  /\ Return(p, "ended")
  /\ UNCHANGED <<left, stopped, cell, cap, link, client>>

(* A parked producer whose token or deadline fires unwinds with nothing held.  *)
Unpark(p) ==
  /\ pc[p] \in {"debitPark", "reservePark"}
  /\ p \in stopped
  /\ Return(p, "ended")
  /\ UNCHANGED <<left, stopped, cell, cap, link, client>>

(* CapReserve::drop: the bytes under the lock, then notify_waiters.            *)
Release(who, bytes) ==
  /\ used' = used - bytes
  /\ releasing' = releasing \cup {who}
  /\ UNCHANGED heard

(* The guard rides in the message; a token, a deadline or a closed channel     *)
(* drops the message and with it the guard.                                    *)
Enqueue(p) ==
  /\ pc[p] = "send"
  /\ p \notin stopped
  /\ writer = "up"
  /\ Len(chan) < ChannelCapacity
  /\ chan' = Append(chan, [of |-> p, size |-> size[p]])
  /\ Return(p, "idle")
  /\ UNCHANGED <<left, stopped, cell, cap, writing, writer, client>>

(* Mutant: the bytes of a dropped send are forgotten.                          *)
EnqueueAbortsLeaks(p) ==
  /\ pc[p] = "send"
  /\ p \in stopped \/ writer = "gone"
  /\ Return(p, "ended")
  /\ UNCHANGED <<left, stopped, cell, cap, link, client>>

(* The writer or the caller is gone: the reserved bytes go back.                *)
EnqueueAborts(p) ==
  /\ pc[p] = "send"
  /\ p \in stopped \/ writer = "gone"
  /\ Return(p, "ended")
  /\ Release(p, size[p])
  /\ UNCHANGED <<left, stopped, cell, link, client>>

(* Mutant: one waiter is woken, fit or not.                                    *)
NotifyOneWaiter(who) ==
  /\ who \in releasing
  /\ releasing' = releasing \ {who}
  /\ \/ \E p \in Streams : pc[p] = "reservePark" /\ Goto(p, "reserve") /\ UNCHANGED heard
     \/ /\ \A p \in Streams : pc[p] # "reservePark"
        /\ UNCHANGED <<pc, heard>>
  /\ UNCHANGED <<size, left, stopped, cell, used, link, client>>

(* notify_waiters: everyone parked on the cap wakes, everyone registered will. *)
NotifyWaiters(who) ==
  /\ who \in releasing
  /\ releasing' = releasing \ {who}
  /\ pc' = [p \in Streams |-> IF pc[p] = "reservePark" THEN "reserve" ELSE pc[p]]
  /\ heard' = heard \cup {p \in Streams : pc[p] \in {"reserveAgain", "reservePoll"}}
  /\ UNCHANGED <<size, left, stopped, cell, used, link, client>>

-----------------------------------------------------------------------------
(* The writer.  A slot is free once the frame is taken, its bytes once it is   *)
(* written.                                                                    *)

Take ==
  /\ writer = "up"
  /\ writing = <<>> /\ chan # <<>> /\ Writer \notin releasing
  /\ writing' = <<Head(chan)>>
  /\ chan' = Tail(chan)
  /\ UNCHANGED <<pc, size, left, stopped, cell, cap, writer, client>>

Written ==
  /\ writer = "up"
  /\ writing # <<>>
  /\ LET f == Head(writing) IN
     /\ unread' = IF pc[f.of] = "ended" THEN unread
                  ELSE [unread EXCEPT ![f.of] = [frames |-> @.frames + 1,
                                                 bytes |-> @.bytes + f.size]]
     /\ Release(Writer, f.size)
  /\ writing' = <<>>
  /\ UNCHANGED <<pc, size, left, stopped, cell, chan, writer, updating>>

(* A failed write ends the writer; the receiver goes, and every queued message *)
(* with its guard.                                                             *)
WriteFails ==
  /\ writer = "up"
  /\ writing # <<>>
  /\ writer' = "gone"
  /\ Release(Writer, Total(Size, Queued))
  /\ chan' = <<>> /\ writing' = <<>>
  /\ UNCHANGED <<pc, size, left, stopped, cell, client>>

-----------------------------------------------------------------------------
(* The client and the session's reader.                                        *)

(* WINDOW_UPDATE {frames, bytes} for what the client has read, routed by id    *)
(* (one for a request that is over is ignored).  Mutate, then notify_one.      *)
Replenish(p) ==
  /\ unread[p].frames > 0
  /\ p \notin updating
  /\ unread' = [unread EXCEPT ![p] = NoCredit]
  /\ IF pc[p] = "ended" THEN UNCHANGED <<credit, updating>>
     ELSE /\ credit' = [credit EXCEPT ![p] = [frames |-> @.frames + unread[p].frames,
                                              bytes |-> @.bytes + unread[p].bytes]]
          /\ updating' = updating \cup {p}
  /\ UNCHANGED <<pc, size, left, stopped, permit, cap, link>>

(* Mutant: only a parked producer is told.                                     *)
NotifyOneStoresNothing(p) ==
  /\ p \in updating
  /\ updating' = updating \ {p}
  /\ IF pc[p] = "debitPark" THEN Goto(p, "debit") ELSE UNCHANGED pc
  /\ UNCHANGED <<size, left, stopped, cell, cap, link, unread>>

NotifyOne(p) ==
  /\ p \in updating
  /\ updating' = updating \ {p}
  /\ IF pc[p] = "debitPark"
     THEN Goto(p, "debit") /\ UNCHANGED permit
     ELSE permit' = [permit EXCEPT ![p] = TRUE] /\ UNCHANGED pc
  /\ UNCHANGED <<size, left, stopped, credit, cap, link, unread>>

(* A CANCEL, a deadline, or the teardown that follows the writer's end.        *)
Stop(p) ==
  /\ p \notin stopped /\ pc[p] # "ended"
  /\ stopped' = stopped \cup {p}
  /\ UNCHANGED <<pc, size, left, cell, cap, link, client>>

Done ==
  /\ \A p \in Streams : pc[p] = "ended"
  /\ UNCHANGED vars

ProducerSteps(p) ==
  \/ Produce(p) \/ Finish(p) \/ Debit(p) \/ DebitAgain(p) \/ DebitPoll(p)
  \/ Reserve(p) \/ ReserveAgain(p) \/ ReservePoll(p) \/ Unpark(p)
  \/ Enqueue(p) \/ EnqueueAborts(p)
Notifications ==
  \/ \E who \in Streams \cup {Writer} : NotifyWaiters(who)
  \/ \E p \in Streams : NotifyOne(p)

Next ==
  \/ Take \/ Written \/ WriteFails \/ Notifications \/ Done
  \/ \E p \in Streams : ProducerSteps(p) \/ Replenish(p) \/ Stop(p)

Spec == Init /\ [][Next]_vars

(* Tasks that can run do; the session tears down when its writer is gone.      *)
FairSpec ==
  /\ Spec
  /\ \A p \in Streams : WF_vars(ProducerSteps(p)) /\ WF_vars(writer = "gone" /\ Stop(p))
  /\ WF_vars(Notifications)
  /\ WF_vars(Take)

(* A client that reads what is written and grants back what it read.           *)
ClientReads ==
  /\ WF_vars(Written \/ WriteFails)
  /\ \A p \in Streams : WF_vars(Replenish(p))

-----------------------------------------------------------------------------

(* What a producer holds of the cap, and what the frames of one stream weigh.  *)
Held == [p \in Streams |-> IF pc[p] = "send" THEN size[p] ELSE 0]
BytesOf(p) == [f \in Frame |-> IF f.of = p THEN f.size ELSE 0]
CountOf(p) == [f \in Frame |-> IF f.of = p THEN 1 ELSE 0]

(* What a producer past its debit has taken and not put into the channel.      *)
Taken(p) ==
  IF pc[p] \in {"reserve", "reserveAgain", "reservePoll", "reservePark", "send"}
  THEN [frames |-> 1, bytes |-> size[p]] ELSE NoCredit

(* flow.rs CapReserve and Credit.  The bytes counted against the session are   *)
(* those of the frames a producer is sending, of the queued ones and of the    *)
(* one being written, released once each whichever way a frame ends, and       *)
(* within the cap; and what a client may still receive, what is on its way to  *)
(* it and what it has not granted back are together the window it was given.   *)
Conserved ==
  /\ used = Total(Size, Queued) + Total(Held, SetToSeq(Streams))
  /\ used <= Cap
  /\ \A p \in Streams :
       pc[p] # "ended" =>
         LET frames == credit[p].frames + Taken(p).frames + Total(CountOf(p), Queued)
                       + unread[p].frames
             bytes == credit[p].bytes + Taken(p).bytes + Total(BytesOf(p), Queued)
                      + unread[p].bytes
         IN /\ frames <= WindowFrames /\ bytes <= WindowBytes
            /\ writer = "up" => frames = WindowFrames /\ bytes = WindowBytes

(* flow.rs: register, then recheck.  A producer parked although it could go on *)
(* has a notification coming.                                                  *)
NoLostWakeup ==
  \A p \in Streams :
     /\ pc[p] = "debitPark" /\ Fits(p) => p \in updating
     /\ pc[p] = "reservePark" /\ used + size[p] <= Cap => releasing # {}

(* responder.rs: a stopped producer unwinds, whatever the client does.         *)
StoppedUnwinds == \A p \in Streams : p \in stopped ~> pc[p] = "ended"

(* flow.rs, writer.rs: with a client that reads and grants, every stream gets  *)
(* through: neither window is lost to the other streams.                       *)
StreamsGetThrough == ClientReads => \A p \in Streams : <>(pc[p] = "ended")

=============================================================================
