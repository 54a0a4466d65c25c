---------------------------- MODULE SessionProofs ----------------------------
(* Theorems about Session, for every set of ids, every max_inflight and every *)
(* length of the control channel: it implements RequestStream, ids are never  *)
(* ambiguous, and a CANCEL reaches the handler its id names.                  *)
EXTENDS Session, TLAPS, FiniteSetTheorems, SequenceTheorems

-----------------------------------------------------------------------------
(* The inductive invariant.                                                   *)

EndOf(r) == [kind |-> "end", req |-> r]
OnChannel(r) == \E k \in 1 .. Len(chan) : chan[k] = EndOf(r)

(* Nothing of request r is still to be put on the channel.                    *)
Closed(r) ==
  /\ r < next
  /\ handler[r] \in {"none", "ended"}
  /\ sup[r] # "await"
  /\ held.req # r

(* What the session task holds, by where it is.  The request it holds is one   *)
(* that was read and has no task yet.                                         *)
HeldInv ==
  /\ phase \in {"sendAck", "sendDown", "sendFlush"} => held = OfSession
  /\ phase = "sendLoop" => held = OfSession \/ (held.kind = "end" /\ held.req \in Requests)
  /\ phase = "reserve" => held.kind = "slot" /\ held.req \in Requests
  /\ phase \notin Sending \cup {"reserve"} => held = Nothing
  /\ held.req \in Requests => held.req = next - 1

(* A request that was not read, or waits at the session task, has no task and  *)
(* no frame.                                                                  *)
Silent(r) ==
  /\ handler[r] = "none" /\ sup[r] = "none"
  /\ seen[r] = <<>>
  /\ \A k \in 1 .. Len(chan) : chan[k].req # r
FreshInv == \A r \in Requests : r >= next \/ held.req = r => Silent(r)

(* A handler and its supervisor are spawned together, in the loop only, and    *)
(* the supervisor outlives the handler unless the drain has aborted it.       *)
TaskInv ==
  /\ \A r \in Requests :
       /\ handler[r] = "none" <=> sup[r] = "none"
       /\ sup[r] \in {"sent", "gone"} => handler[r] = "ended"
       /\ sup[r] = "aborted" => phase \in {"flush", "over"}
       /\ handler[r] # "none" => id[r] \in Ids
       /\ handler[r] = "sending" => data[r] < MaxData
  /\ phase \in {"hello", "sendAck", "sendFlush"} => \A r \in Requests : handler[r] = "none"

(* The registry names exactly the requests whose supervisor has not freed      *)
(* their id, and the one that waits for its slot.                             *)
RegistryInv ==
  /\ \A r \in Requests : sup[r] \in {"await", "sent"} => registry[id[r]] = r
  /\ phase = "reserve" => id[held.req] \in Ids /\ registry[id[held.req]] = held.req
  /\ \A i \in Ids : registry[i] # NoReq => id[registry[i]] = i /\ registry[i] < next
  /\ Cardinality(InFlight) <= MaxInflight

(* Once the loop is left every supervised handler has been told.              *)
ToldInv ==
  phase \in {"drain", "flush", "over"} =>
    \A r \in Requests : Running(r) /\ sup[r] = "await" => r \in cancelled

(* The frames of a request: DATA, then one END, then nothing.                 *)
FrameInv ==
  /\ \A k \in 1 .. Len(chan) : chan[k].kind = "session" <=> chan[k].req = NoReq
  /\ \A r \in Requests : Ended(r) \/ OnChannel(r) => Closed(r)
  /\ \A r \in Requests : Ended(r) => \A k \in 1 .. Len(chan) : chan[k].req # r
  /\ \A j, k \in 1 .. Len(chan) :
       j < k /\ chan[j].kind = "end" => chan[k].req # chan[j].req

(* The END of r is behind the writer, or ahead of every frame of s.            *)
EndAhead(r, s) ==
  \/ writer = "gone"
  \/ Ended(r)
  \/ \E k \in 1 .. Len(chan) : chan[k] = EndOf(r) /\ \A j \in 1 .. k : chan[j].req # s

(* An id is taken again only behind the END of the request that had it.       *)
EndSent(r) == writer = "gone" \/ Ended(r) \/ OnChannel(r)
Taken(s) == Accepted(s) \/ (phase = "reserve" /\ held.req = s)
OrderInv ==
  /\ \A r \in Requests : sup[r] \in {"sent", "gone"} => EndSent(r)
  /\ \A r, s \in Requests :
       r < s /\ Accepted(r) /\ Taken(s) /\ id[r] = id[s] => EndAhead(r, s)

IInv ==
  TypeOK /\ HeldInv /\ FreshInv /\ TaskInv /\ RegistryInv /\ ToldInv /\ FrameInv
  /\ OrderInv /\ IdNeverAmbiguous

-----------------------------------------------------------------------------
(* Types, and the bound of the channel.                                       *)

(* The permits are finitely many.                                             *)
LEMMA PermitsFinite == IsFiniteSet(Permits) /\ Cardinality(Permits) \in Nat
<1>1. IsFiniteSet(Requests)
  BY FS_Interval, SessionAssumption DEF Requests
<1>2. Permits \in SUBSET Requests
  BY DEF Permits
<1>. QED
  BY <1>1, <1>2, FS_Subset, FS_CardinalityType

(* A slot is free: one more frame, or one more permit, is within the bound.   *)
LEMMA RoomFits ==
  ASSUME TypeOK, Room
  PROVE  Len(chan) \in Nat /\ Len(chan) + Cardinality(Permits) + 1 <= Capacity
  BY PermitsFinite, SessionAssumption DEF TypeOK, Room, Capacity

(* A supervisor that sends or is aborted gives its permit back.                *)
LEMMA PermitSpent ==
  ASSUME TypeOK, NEW r \in Requests, sup[r] = "await",
         NEW to \in {"none", "sent", "gone", "aborted"},
         sup' = [sup EXCEPT ![r] = to]
  PROVE  Cardinality(Permits') = Cardinality(Permits) - 1
<1>1. Permits' = Permits \ {r}
  BY DEF Permits, TypeOK
<1>2. r \in Permits
  BY DEF Permits
<1>. QED
  BY <1>1, <1>2, PermitsFinite, FS_RemoveElement

(* Tokens are those of requests.                                              *)
LEMMA ToldType ==
  ASSUME TypeOK, NEW rs, rs \subseteq {registry[i] : i \in InFlight}
  PROVE  Told(rs) \subseteq Requests
<1>1. \A i \in InFlight : registry[i] \in Requests
  BY DEF TypeOK, InFlight
<1>2. rs \subseteq Requests
  BY <1>1
<1>. QED
  BY <1>2 DEF Told, TypeOK

LEMMA TeardownType ==
  ASSUME TypeOK, Teardown
  PROVE  cancelled' \subseteq Requests
  BY ToldType DEF Teardown

LEMMA TypeInit == Init => TypeOK
<1>. SUFFICES ASSUME Init PROVE TypeOK
  OBVIOUS
<1>1. Permits = {}
  BY DEF Init, Permits
<1>2. Len(chan) + Cardinality(Permits) <= Capacity
  BY <1>1, FS_EmptySet, SessionAssumption DEF Init, Capacity
<1>. QED
  BY <1>2, SessionAssumption DEF Init, TypeOK, Requests, NoReq, Nothing, Frame

(* The steps of the session task.                                             *)
LEMMA TypeReads ==
  ASSUME TypeOK, HeldInv, Reads
  PROVE  TypeOK'
<1>. USE SessionAssumption DEF TypeOK, Permits, tasks
<1>1. CASE Hello
  BY <1>1 DEF Hello, OfSession, NoReq
<1>2. CASE HelloRefused
  BY <1>2 DEF HelloRefused, OfSession, NoReq
<1>3. CASE HelloNever
  BY <1>3 DEF HelloNever
<1>4. ASSUME next <= MaxRequests PROVE next \in Requests /\ next + 1 \in 1 .. MaxRequests + 1
  BY <1>4 DEF Requests
<1>5. CASE ReadUnroutable
  BY <1>4, <1>5 DEF ReadUnroutable, Refuse
<1>6. CASE ReadPing
  BY <1>6 DEF ReadPing, OfSession, NoReq
<1>7. CASE ReadFatal
  BY <1>7 DEF ReadFatal, OfSession, NoReq
<1>8. CASE ReadEnd
  BY <1>8, TeardownType DEF ReadEnd, Teardown
<1>9. ASSUME NEW i \in Ids, ReadRequest(i) PROVE TypeOK'
  <2>1. next \in Requests /\ next' \in 1 .. MaxRequests + 1
    BY <1>4, <1>9 DEF ReadRequest
  <2>2. CASE Refuse(next)
    BY <1>9, <2>1, <2>2 DEF ReadRequest, Refuse
  <2>3. CASE ~ Refuse(next)
    BY <1>9, <2>1, <2>3 DEF ReadRequest, Insert
  <2>. QED
    BY <2>2, <2>3
<1>10. ASSUME NEW i \in Ids, ReadCancel(i) PROVE TypeOK'
  BY <1>10 DEF ReadCancel, Told
<1>. QED
  BY <1>1, <1>2, <1>3, <1>5, <1>6, <1>7, <1>8, <1>9, <1>10 DEF Reads

LEMMA TypeTaskSteps ==
  ASSUME TypeOK, HeldInv, FreshInv, TaskSteps
  PROVE  TypeOK'
<1>1. CASE SendFails
  <2>1. cancelled' \subseteq Requests /\ phase' \in {"flush", "drain"}
    <3>1. (phase' = "flush" /\ cancelled' = cancelled) \/ Teardown
      BY <1>1 DEF SendFails
    <3>. QED
      BY <3>1, TeardownType DEF TypeOK, Teardown
  <2>. QED
    BY <1>1, <2>1 DEF SendFails, TypeOK, Permits, Nothing, NoReq
<1>2. CASE Send
  <2>1. held \in Frame
    <3>1. held = OfSession \/ (held.kind = "end" /\ held.req \in Requests)
      BY <1>2 DEF Send, HeldInv, Sending
    <3>2. CASE held = OfSession
      BY <3>2 DEF OfSession, Frame
    <3>3. CASE held.kind = "end" /\ held.req \in Requests
      BY <3>3 DEF TypeOK, Frame
    <3>. QED
      BY <3>1, <3>2, <3>3
  <2>2. chan' \in Seq(Frame) /\ Len(chan') = Len(chan) + 1
    BY <1>2, <2>1, AppendProperties DEF Send, TypeOK
  <2>3. Len(chan') + Cardinality(Permits') <= Capacity
    BY <1>2, <2>2, RoomFits, PermitsFinite DEF Send, Permits
  <2>4. phase' \in {"loop", "drain", "flush"} /\ cancelled' \subseteq Requests
    <3>1. (phase' \in {"loop", "flush"} /\ cancelled' = cancelled) \/ Teardown
      BY <1>2 DEF Send, After, Sending
    <3>. QED
      BY <3>1, TeardownType DEF TypeOK, Teardown
  <2>. QED
    BY <1>2, <2>2, <2>3, <2>4 DEF Send, TypeOK, Nothing, NoReq
<1>3. CASE Reserve
  <2>1. held.req \in Requests /\ sup[held.req] = "none"
    BY <1>3 DEF Reserve, HeldInv, FreshInv, Silent
  <2>2. Permits' = Permits \cup {held.req} /\ held.req \notin Permits
    BY <1>3, <2>1 DEF Reserve, Permits, TypeOK
  <2>3. Len(chan') + Cardinality(Permits') <= Capacity
    <3>1. Cardinality(Permits') = Cardinality(Permits) + 1
      BY <2>2, PermitsFinite, FS_AddElement
    <3>2. Len(chan) + Cardinality(Permits) + 1 <= Capacity /\ chan' = chan
      BY <1>3, RoomFits DEF Reserve
    <3>. QED
      BY <3>1, <3>2, PermitsFinite DEF TypeOK
  <2>. QED
    BY <1>3, <2>1, <2>3 DEF Reserve, TypeOK, Nothing, NoReq
<1>4. CASE ReserveFails
  <2>1. cancelled' \subseteq Requests
    BY <1>4, ToldType DEF ReserveFails
  <2>. QED
    BY <1>4, <2>1 DEF ReserveFails, TypeOK, Permits, Nothing, NoReq
<1>5. CASE Drained
  BY <1>5 DEF Drained, TypeOK, Permits, tasks
<1>6. CASE DrainTimeout
  <2>1. Permits' = {}
    BY <1>6 DEF DrainTimeout, Permits
  <2>2. Len(chan') + Cardinality(Permits') <= Capacity
    BY <1>6, <2>1, PermitsFinite, FS_EmptySet, SessionAssumption
       DEF DrainTimeout, TypeOK, Capacity
  <2>. QED
    BY <1>6, <2>2 DEF DrainTimeout, TypeOK
<1>7. CASE Over
  BY <1>7 DEF Over, TypeOK, Permits, tasks
<1>. QED
  BY <1>1, <1>2, <1>3, <1>4, <1>5, <1>6, <1>7 DEF TaskSteps

(* The steps of a handler, of a supervisor and of the writer.                  *)
LEMMA TypeHandler ==
  ASSUME TypeOK, TaskInv, NEW r \in Requests, HandlerSteps(r)
  PROVE  TypeOK'
<1>1. CASE StartData(r)
  BY <1>1 DEF StartData, TypeOK, Permits
<1>2. CASE SendData(r)
  <2>1. chan' \in Seq(Frame) /\ Len(chan') = Len(chan) + 1
    BY <1>2, AppendProperties DEF SendData, TypeOK, Frame
  <2>2. Len(chan') + Cardinality(Permits') <= Capacity
    BY <1>2, <2>1, RoomFits, PermitsFinite DEF SendData, Permits
  <2>3. data[r] + 1 \in 0 .. MaxData
    <3>1. data[r] \in 0 .. MaxData /\ data[r] < MaxData
      BY <1>2 DEF SendData, TypeOK, TaskInv
    <3>. QED
      BY <3>1, SessionAssumption
  <2>. QED
    BY <1>2, <2>1, <2>2, <2>3 DEF SendData, TypeOK
<1>3. CASE SendAborted(r)
  BY <1>3, SessionAssumption DEF SendAborted, TypeOK, Permits
<1>4. CASE HandlerEnds(r)
  BY <1>4 DEF HandlerEnds, TypeOK, Permits
<1>. QED
  BY <1>1, <1>2, <1>3, <1>4 DEF HandlerSteps

LEMMA TypeSupervisor ==
  ASSUME TypeOK, NEW r \in Requests, SupervisorSteps(r)
  PROVE  TypeOK'
<1>1. CASE SupervisorSends(r)
  <2>1. Cardinality(Permits') = Cardinality(Permits) - 1
    BY <1>1, PermitSpent DEF SupervisorSends
  <2>2. chan' \in Seq(Frame) /\ Len(chan') <= Len(chan) + 1 /\ Len(chan') \in Nat
    <3>1. [kind |-> "end", req |-> r] \in Frame /\ chan \in Seq(Frame)
      BY DEF Frame, TypeOK
    <3>2. chan' \in {chan, Append(chan, [kind |-> "end", req |-> r])}
      BY <1>1 DEF SupervisorSends
    <3>. QED
      BY <3>1, <3>2, AppendProperties, LenProperties
  <2>3. Len(chan') + Cardinality(Permits') <= Capacity
    BY <2>1, <2>2, PermitsFinite, SessionAssumption DEF TypeOK, Capacity
  <2>. QED
    BY <1>1, <2>2, <2>3 DEF SupervisorSends, TypeOK
<1>2. CASE SupervisorFrees(r)
  <2>1. Permits' = Permits
    BY <1>2 DEF SupervisorFrees, Permits, TypeOK
  <2>. QED
    BY <1>2, <2>1 DEF SupervisorFrees, TypeOK
<1>. QED
  BY <1>1, <1>2 DEF SupervisorSteps

LEMMA TypeWriter ==
  ASSUME TypeOK, FrameInv, WriterSteps
  PROVE  TypeOK'
<1>1. Permits' = Permits
  BY DEF WriterSteps, Write, WriteFails, WriterEnds, tasks, Permits
<1>2. CASE Write
  <2>1. chan' \in Seq(Frame) /\ Len(chan') = Len(chan) - 1 /\ Head(chan) \in Frame
    BY <1>2, HeadTailProperties DEF Write, TypeOK
  <2>2. Len(chan') + Cardinality(Permits') <= Capacity
    BY <1>1, <2>1, PermitsFinite, SessionAssumption DEF TypeOK, Capacity
  <2>3. seen' \in [Requests -> Seq({"data", "end"})]
    <3>1. CASE Head(chan).kind \in {"data", "end"} /\ Head(chan).req \in Requests
      <4>1. Append(seen[Head(chan).req], Head(chan).kind) \in Seq({"data", "end"})
        BY <3>1, AppendProperties DEF TypeOK
      <4>. QED
        BY <1>2, <3>1, <4>1 DEF Write, TypeOK
    <3>2. CASE Head(chan).kind \notin {"data", "end"}
      BY <1>2, <3>2 DEF Write, TypeOK
    <3>3. Head(chan).kind = "session" <=> Head(chan).req = NoReq
      BY <1>2, HeadTailProperties, EmptySeq DEF Write, TypeOK, FrameInv
    <3>. QED
      BY <2>1, <3>1, <3>2, <3>3 DEF Frame
  <2>. QED
    BY <1>2, <2>1, <2>2, <2>3 DEF Write, TypeOK, tasks
<1>3. CASE WriteFails
  BY <1>1, <1>3, PermitsFinite, SessionAssumption
     DEF WriteFails, TypeOK, tasks, Capacity
<1>4. CASE WriterEnds
  BY <1>1, <1>4 DEF WriterEnds, TypeOK, tasks
<1>. QED
  BY <1>2, <1>3, <1>4 DEF WriterSteps

-----------------------------------------------------------------------------
(* The session task, the tasks it spawns, and the registry.                   *)

(* What the next request frame finds.                                         *)
LEMMA NextIsFresh ==
  ASSUME TypeOK, FreshInv, next <= MaxRequests
  PROVE  next \in Requests /\ Silent(next)
<1>1. next \in Requests
  BY SessionAssumption DEF TypeOK, Requests
<1>. QED
  BY <1>1 DEF FreshInv, TypeOK

LEMMA HeldStep ==
  ASSUME TypeOK, HeldInv, Next
  PROVE  HeldInv'
<1>. USE DEF HeldInv, TypeOK, tasks
<1>0. 0 \notin Requests /\ next \in Int
  BY SessionAssumption DEF Requests
<1>1. CASE Reads
  <2>. USE DEF OfSession, Nothing, NoReq, Sending
  <2>1. CASE Hello
    BY <1>0, <2>1 DEF Hello
  <2>2. CASE HelloRefused
    BY <1>0, <2>2 DEF HelloRefused
  <2>3. CASE HelloNever
    BY <2>3 DEF HelloNever
  <2>4. CASE ReadUnroutable
    BY <1>0, <2>4, SessionAssumption DEF ReadUnroutable, Refuse, Requests
  <2>5. CASE ReadPing
    BY <1>0, <2>5 DEF ReadPing
  <2>6. CASE ReadFatal
    BY <1>0, <2>6 DEF ReadFatal
  <2>7. CASE ReadEnd
    BY <2>7 DEF ReadEnd, Teardown
  <2>8. ASSUME NEW i \in Ids, ReadRequest(i) PROVE HeldInv'
    <3>1. next \in Requests /\ next = next' - 1
      BY <1>0, <2>8, SessionAssumption DEF ReadRequest, Requests
    <3>2. \/ phase' = "sendLoop" /\ held' = [kind |-> "end", req |-> next]
          \/ phase' = "reserve" /\ held' = [kind |-> "slot", req |-> next]
      BY <2>8 DEF ReadRequest, Insert, Refuse
    <3>. QED
      BY <3>1, <3>2
  <2>9. ASSUME NEW i \in Ids, ReadCancel(i) PROVE HeldInv'
    BY <2>9 DEF ReadCancel
  <2>. QED
    BY <1>1, <2>1, <2>2, <2>3, <2>4, <2>5, <2>6, <2>7, <2>8, <2>9 DEF Reads
<1>2. CASE TaskSteps
  BY <1>0, <1>2 DEF TaskSteps, SendFails, Send, Reserve, ReserveFails, Drained, DrainTimeout,
     Over, Teardown, After, Sending, Nothing, NoReq
<1>3. CASE WriterSteps \/ Done
  BY <1>3 DEF WriterSteps, Write, WriteFails, WriterEnds, Done, vars
<1>4. ASSUME NEW r \in Requests, HandlerSteps(r) \/ SupervisorSteps(r) PROVE HeldInv'
  BY <1>4 DEF HandlerSteps, StartData, SendData, SendAborted, HandlerEnds, SupervisorSteps,
              SupervisorSends, SupervisorFrees
<1>. QED
  BY <1>1, <1>2, <1>3, <1>4 DEF Next

LEMMA TaskStep ==
  ASSUME TypeOK, HeldInv, TaskInv, RegistryInv, Next
  PROVE  TaskInv'
<1>. USE DEF TaskInv, TypeOK, tasks
<1>1. CASE Reads
  BY <1>1 DEF Reads, Hello, HelloRefused, HelloNever, ReadUnroutable, ReadPing, ReadFatal, ReadEnd, ReadRequest, ReadCancel, Insert, Refuse, Teardown, Requests
<1>2. CASE TaskSteps
  BY <1>2 DEF TaskSteps, SendFails, Send, Reserve, ReserveFails, Drained, DrainTimeout, Over,
              Teardown, After, Sending, Nothing, NoReq, HeldInv, RegistryInv
<1>3. CASE WriterSteps \/ Done
  BY <1>3 DEF WriterSteps, Write, WriteFails, WriterEnds, Done, vars
<1>4. ASSUME NEW r \in Requests, HandlerSteps(r) \/ SupervisorSteps(r) PROVE TaskInv'
  BY <1>4 DEF HandlerSteps, StartData, SendData, SendAborted, HandlerEnds, SupervisorSteps,
              SupervisorSends, SupervisorFrees
<1>. QED
  BY <1>1, <1>2, <1>3, <1>4 DEF Next

(* A frame of request r is put on the channel by r's tasks or by the session   *)
(* task that holds it.                                                        *)
LEMMA FreshStep ==
  ASSUME TypeOK, HeldInv, FreshInv, TaskInv, FrameInv, Next
  PROVE  FreshInv'
<1>. SUFFICES ASSUME NEW r \in Requests, (r >= next \/ held.req = r)'
              PROVE  Silent(r)'
  BY DEF FreshInv
<1>0. next \in Nat /\ NoReq \notin Requests /\ r \in Nat /\ next \in Nat
  BY SessionAssumption DEF Requests, NoReq, TypeOK
<1>1. CASE Reads
  <2>1. UNCHANGED <<handler, sup, seen, chan>>
    BY <1>1 DEF Reads, Hello, HelloRefused, HelloNever, ReadUnroutable, ReadPing, ReadFatal,
       ReadEnd, ReadRequest, ReadCancel, tasks
  <2>2. next' \in {next, next + 1} /\ (held' = held \/ held'.req \in {NoReq, next})
    <3>1. ASSUME NEW i \in Ids, ReadRequest(i)
          PROVE  next' = next + 1 /\ held'.req = next
      BY <3>1 DEF ReadRequest, Insert, Refuse
    <3>2. ASSUME NEW i \in Ids, ReadCancel(i)
          PROVE  next' = next /\ held' = held
      BY <3>2 DEF ReadCancel
    <3>. QED
      BY <1>1, <3>1, <3>2 DEF Reads, Hello, HelloRefused, HelloNever, ReadUnroutable, ReadPing,
         ReadFatal, ReadEnd, Refuse, OfSession
  <2>3. r >= next \/ held.req = r
    BY <1>0, <2>2
  <2>. QED
    BY <2>1, <2>3 DEF FreshInv, Silent
<1>2. CASE TaskSteps
  <2>1. next' = next /\ seen' = seen /\ (held' = held \/ held'.req = NoReq)
    BY <1>2 DEF TaskSteps, SendFails, Send, Reserve, ReserveFails, Drained, DrainTimeout,
       Over, Nothing
  <2>2. (r >= next \/ held.req = r) /\ Silent(r)
    BY <1>0, <2>1 DEF FreshInv
  <2>3. CASE Send
    <3>1. held'.req = NoReq /\ r >= next /\ held.req < next
      BY <1>0, <2>1, <2>3 DEF Send, Nothing, HeldInv, TypeOK, NoReq
    <3>2. \A k \in 1 .. Len(chan') : chan'[k].req # r
      BY <1>0, <2>2, <2>3, <3>1 DEF Send, Silent, TypeOK
    <3>. QED
      BY <2>1, <2>2, <2>3, <3>2 DEF Send, Silent
  <2>4. CASE Reserve
    <3>1. held.req # r
      BY <1>0, <2>1, <2>4 DEF Reserve, Nothing, HeldInv, NoReq
    <3>. QED
      BY <2>2, <2>4, <3>1 DEF Reserve, Silent, TypeOK
  <2>5. CASE DrainTimeout
    BY <2>2, <2>5 DEF DrainTimeout, Silent
  <2>6. CASE SendFails \/ ReserveFails \/ Drained \/ Over
    BY <2>2, <2>6 DEF SendFails, ReserveFails, Drained, Over, Silent, tasks
  <2>. QED
    BY <1>2, <2>3, <2>4, <2>5, <2>6 DEF TaskSteps
<1>3. CASE WriterSteps \/ Done
  <2>1. (r >= next \/ held.req = r) /\ UNCHANGED <<handler, sup>>
    BY <1>3 DEF WriterSteps, Write, WriteFails, WriterEnds, Done, tasks, vars
  <2>2. Silent(r)
    BY <2>1 DEF FreshInv
  <2>3. CASE Write
    <3>1. Head(chan).req # r /\ Head(chan) = chan[1] /\ Len(chan) \in Nat \ {0}
      BY <2>2, <2>3, HeadTailProperties, EmptySeq DEF Write, Silent, TypeOK
    <3>2. seen'[r] = seen[r]
      BY <2>3, <3>1 DEF Write, TypeOK
    <3>3. \A k \in 1 .. Len(chan') : chan'[k].req # r
      BY <2>2, <2>3, <3>1 DEF Write, Silent, TypeOK
    <3>. QED
      BY <2>1, <2>2, <3>2, <3>3 DEF Silent
  <2>4. CASE WriteFails \/ WriterEnds \/ Done
    BY <2>1, <2>2, <2>4 DEF WriteFails, WriterEnds, Done, vars, Silent
  <2>. QED
    BY <1>3, <2>3, <2>4 DEF WriterSteps
<1>4. ASSUME NEW q \in Requests, HandlerSteps(q) \/ SupervisorSteps(q) PROVE Silent(r)'
  <2>1. UNCHANGED <<next, held, seen>> /\ handler[q] # "none"
    BY <1>4 DEF HandlerSteps, StartData, SendData, SendAborted, HandlerEnds, SupervisorSteps,
       SupervisorSends, SupervisorFrees, TaskInv
  <2>2. Silent(r) /\ r # q
    BY <2>1 DEF FreshInv, Silent
  <2>3. handler'[r] = handler[r] /\ sup'[r] = sup[r]
    BY <1>4, <2>2 DEF HandlerSteps, StartData, SendData, SendAborted, HandlerEnds,
       SupervisorSteps, SupervisorSends, SupervisorFrees, TypeOK
  <2>4. chan' = chan \/ \E f \in Frame : f.req = q /\ chan' = Append(chan, f)
    BY <1>4 DEF HandlerSteps, StartData, SendData, SendAborted, HandlerEnds, SupervisorSteps,
       SupervisorSends, SupervisorFrees, Frame
  <2>5. \A k \in 1 .. Len(chan') : chan'[k].req # r
    BY <2>2, <2>4 DEF Silent, TypeOK
  <2>. QED
    BY <2>1, <2>2, <2>3, <2>5 DEF Silent
<1>. QED
  BY <1>1, <1>2, <1>3, <1>4 DEF Next

(* The registry holds at most one id for each request.                        *)
LEMMA InFlightFinite ==
  ASSUME TypeOK, RegistryInv
  PROVE  IsFiniteSet(InFlight) /\ Cardinality(InFlight) \in Nat
<1>1. IsFiniteSet(Requests)
  BY FS_Interval, SessionAssumption DEF Requests
<1>. DEFINE f == [i \in InFlight |-> registry[i]]
<1>2. f \in Injection(InFlight, Requests)
  <2>1. f \in [InFlight -> Requests]
    BY DEF InFlight, TypeOK
  <2>2. \A i, j \in InFlight : f[i] = f[j] => i = j
    BY DEF RegistryInv, InFlight
  <2>. QED
    BY <2>1, <2>2 DEF Injection, IsInjective
<1>. QED
  BY <1>1, <1>2, FS_Injection, FS_CardinalityType

(* An id given back makes room for another.                                   *)
LEMMA IdFreed ==
  ASSUME TypeOK, RegistryInv, NEW i \in Ids, registry' = [registry EXCEPT ![i] = NoReq]
  PROVE  Cardinality(InFlight') <= MaxInflight
<1>1. InFlight' \subseteq InFlight
  BY DEF InFlight, TypeOK
<1>2. Cardinality(InFlight') <= Cardinality(InFlight) /\ Cardinality(InFlight') \in Nat
  BY <1>1, InFlightFinite, FS_Subset, FS_CardinalityType
<1>. QED
  BY <1>2, InFlightFinite, SessionAssumption DEF RegistryInv

LEMMA RegistryStep ==
  ASSUME TypeOK, HeldInv, FreshInv, TaskInv, RegistryInv, Next
  PROVE  RegistryInv'
<1>0. NoReq \notin Requests /\ next \in Nat /\ next < next + 1
  BY SessionAssumption DEF Requests, NoReq, TypeOK
<1>1. ASSUME UNCHANGED <<registry, id>>, next' \in {next, next + 1},
             phase' = "reserve" => phase = "reserve" /\ held' = held,
             \A r \in Requests : sup'[r] \in {"await", "sent"} => sup[r] \in {"await", "sent"}
      PROVE  RegistryInv'
  <2>1. InFlight' = InFlight
    BY <1>1 DEF InFlight
  <2>2. \A i \in Ids : registry[i] # NoReq => registry[i] \in Nat /\ registry[i] < next'
    BY <1>0, <1>1, SessionAssumption DEF RegistryInv, TypeOK, Requests
  <2>. QED
    BY <1>1, <2>1, <2>2 DEF RegistryInv
<1>2. ASSUME NEW i \in Ids, ReadRequest(i) PROVE RegistryInv'
  <2>1. next \in Requests /\ sup[next] = "none" /\ next' = next + 1 /\ sup' = sup /\ phase = "loop"
    BY <1>2, NextIsFresh DEF ReadRequest, Silent, tasks
  <2>2. CASE Refuse(next)
    BY <1>1, <2>1, <2>2 DEF Refuse
  <2>3. CASE ~ Refuse(next)
    <3>1. /\ registry[i] = NoReq /\ ~ (Cardinality(InFlight) >= MaxInflight)
          /\ registry' = [registry EXCEPT ![i] = next]
          /\ id' = [id EXCEPT ![next] = i]
          /\ held'.req = next
      BY <1>2, <2>3 DEF ReadRequest, Insert
    <3>2. InFlight' = InFlight \cup {i} /\ i \notin InFlight
      BY <1>0, <2>1, <3>1 DEF InFlight, TypeOK
    <3>3. Cardinality(InFlight') <= MaxInflight
      <4>1. Cardinality(InFlight') = Cardinality(InFlight) + 1
        BY <3>2, InFlightFinite, FS_AddElement
      <4>. QED
        BY <3>1, <4>1, InFlightFinite, SessionAssumption
    <3>4. \A r \in Requests : sup[r] \in {"await", "sent"} => registry'[id'[r]] = r
      BY <2>1, <3>1, <1>0 DEF RegistryInv, TypeOK, TaskInv
    <3>5. \A j \in Ids : registry'[j] # NoReq => id'[registry'[j]] = j /\ registry'[j] < next'
      <4>1. SUFFICES ASSUME NEW j \in Ids, registry'[j] # NoReq
                     PROVE  id'[registry'[j]] = j /\ registry'[j] < next'
        OBVIOUS
      <4>2. CASE j = i
        BY <1>0, <2>1, <3>1, <4>2 DEF TypeOK
      <4>3. CASE j # i
        <5>1. registry'[j] = registry[j] /\ registry[j] \in Requests /\ id[registry[j]] = j
              /\ registry[j] < next
          BY <3>1, <4>1, <4>3 DEF TypeOK, RegistryInv
        <5>2. registry[j] \in Nat
          BY <5>1, SessionAssumption DEF Requests
        <5>. QED
          BY <1>0, <2>1, <3>1, <5>1, <5>2 DEF TypeOK
      <4>. QED
        BY <4>2, <4>3
    <3>. QED
      BY <2>1, <3>1, <3>3, <3>4, <3>5 DEF RegistryInv, TypeOK
  <2>. QED
    BY <2>2, <2>3
<1>3. CASE ReserveFails
  <2>1. /\ held.req \in Requests /\ id[held.req] \in Ids /\ sup[held.req] = "none"
        /\ registry[id[held.req]] = held.req
    BY <1>3 DEF ReserveFails, HeldInv, FreshInv, Silent, RegistryInv
  <2>2. Cardinality(InFlight') <= MaxInflight
    BY <1>3, <2>1, IdFreed DEF ReserveFails
  <2>3. \A r \in Requests : sup[r] \in {"await", "sent"} => registry'[id[r]] = r
    BY <1>3, <2>1 DEF ReserveFails, RegistryInv, TypeOK, TaskInv
  <2>. QED
    BY <1>3, <2>1, <2>2, <2>3 DEF ReserveFails, RegistryInv, TypeOK
<1>4. ASSUME NEW r \in Requests, SupervisorFrees(r) PROVE RegistryInv'
  <2>1. registry[id[r]] = r /\ id[r] \in Ids /\ sup[r] = "sent"
    BY <1>4 DEF SupervisorFrees, RegistryInv, TaskInv
  <2>2. Cardinality(InFlight') <= MaxInflight
    BY <1>4, <2>1, IdFreed DEF SupervisorFrees
  <2>3. \A q \in Requests : sup'[q] \in {"await", "sent"} =>
           sup[q] \in {"await", "sent"} /\ q # r
    BY <1>4 DEF SupervisorFrees, TypeOK
  <2>4. \A q \in Requests : sup'[q] \in {"await", "sent"} => registry'[id[q]] = q
    BY <1>4, <2>1, <2>3 DEF SupervisorFrees, RegistryInv, TypeOK, TaskInv
  <2>5. phase = "reserve" => /\ held.req \in Requests /\ held.req # r /\ id[held.req] \in Ids
                             /\ id[held.req] # id[r] /\ registry[id[held.req]] = held.req
    BY <2>1 DEF HeldInv, FreshInv, Silent, RegistryInv
  <2>6. phase = "reserve" => id[held.req] \in Ids /\ registry'[id[held.req]] = held.req
    BY <1>4, <2>5 DEF SupervisorFrees, TypeOK
  <2>7. \A i \in Ids : registry'[i] # NoReq => registry'[i] = registry[i]
    BY <1>4 DEF SupervisorFrees, TypeOK
  <2>8. UNCHANGED <<id, next, phase, held>>
    BY <1>4 DEF SupervisorFrees
  <2>. QED
    BY <2>2, <2>4, <2>6, <2>7, <2>8 DEF RegistryInv
<1>5. CASE Reserve
  <2>1. held.req \in Requests /\ registry[id[held.req]] = held.req
    BY <1>5 DEF Reserve, HeldInv, RegistryInv
  <2>2. InFlight' = InFlight
    BY <1>5 DEF Reserve, InFlight
  <2>. QED
    BY <1>5, <2>1, <2>2 DEF Reserve, RegistryInv, TypeOK
<1>6. CASE Hello \/ HelloRefused \/ HelloNever \/ ReadUnroutable \/ ReadPing \/ ReadFatal \/ ReadEnd
           \/ \E i \in Ids : ReadCancel(i)
  BY <1>1, <1>6 DEF Hello, HelloRefused, HelloNever, ReadUnroutable, ReadPing, ReadFatal, ReadEnd,
     ReadCancel, Refuse, Teardown, tasks
<1>7. CASE SendFails \/ Send \/ Drained \/ DrainTimeout \/ Over
  BY <1>1, <1>7 DEF SendFails, Send, Drained, DrainTimeout, Over, Teardown, After, Sending, tasks
<1>8. CASE WriterSteps \/ Done
  BY <1>1, <1>8 DEF WriterSteps, Write, WriteFails, WriterEnds, Done, tasks, vars
<1>9. ASSUME NEW r \in Requests, HandlerSteps(r) \/ SupervisorSends(r) PROVE RegistryInv'
  BY <1>1, <1>9 DEF HandlerSteps, StartData, SendData, SendAborted, HandlerEnds, SupervisorSends,
     TypeOK
<1>. QED
  BY <1>2, <1>3, <1>4, <1>5, <1>6, <1>7, <1>8, <1>9 DEF Next, Reads, TaskSteps, SupervisorSteps

(* Leaving the loop tells every supervised handler, since the registry names   *)
(* them all.                                                                  *)
LEMMA ToldStep ==
  ASSUME TypeOK, HeldInv, FreshInv, TaskInv, RegistryInv, ToldInv, Next
  PROVE  ToldInv'
<1>. SUFFICES ASSUME phase' \in {"drain", "flush", "over"}, NEW r \in Requests,
                     Running(r)', sup'[r] = "await"
              PROVE  r \in cancelled'
  BY DEF ToldInv
<1>0. ASSUME Running(r), sup[r] = "await"
      PROVE  \E i \in InFlight : registry[i] = r
  BY <1>0, SessionAssumption DEF RegistryInv, TaskInv, Running, InFlight, NoReq, Requests
<1>1. CASE Reads
  BY <1>0, <1>1 DEF Reads, Hello, HelloRefused, HelloNever, ReadUnroutable, ReadPing, ReadFatal,
     ReadEnd, ReadRequest, ReadCancel, Insert, Refuse, Teardown, Told, Running, tasks, TaskInv
<1>2. CASE TaskSteps
  <2>1. CASE Reserve
    BY <2>1 DEF Reserve
  <2>2. CASE ReserveFails
    BY <1>0, <2>2 DEF ReserveFails, Told, Running, HeldInv, FreshInv, Silent
  <2>3. CASE SendFails \/ Send
    <3>1. UNCHANGED <<handler, sup>> /\ Running(r) /\ sup[r] = "await"
      BY <2>3 DEF SendFails, Send, Running
    <3>2. phase \in {"sendAck", "sendFlush"} => FALSE
      BY <3>1 DEF TaskInv, Running
    <3>3. Teardown
      BY <2>3, <3>2 DEF SendFails, Send, After, Sending
    <3>. QED
      BY <1>0, <3>1, <3>3 DEF Teardown, Told
  <2>4. CASE Drained \/ DrainTimeout \/ Over
    BY <2>4 DEF Drained, DrainTimeout, Over, ToldInv, Running, tasks
  <2>. QED
    BY <1>2, <2>1, <2>2, <2>3, <2>4 DEF TaskSteps
<1>3. CASE WriterSteps \/ Done
  BY <1>3 DEF WriterSteps, Write, WriteFails, WriterEnds, Done, vars, tasks, ToldInv, Running
<1>4. ASSUME NEW q \in Requests, HandlerSteps(q) \/ SupervisorSteps(q) PROVE r \in cancelled'
  BY <1>4 DEF HandlerSteps, StartData, SendData, SendAborted, HandlerEnds, SupervisorSteps,
     SupervisorSends, SupervisorFrees, TypeOK, ToldInv, Running
<1>. QED
  BY <1>1, <1>2, <1>3, <1>4 DEF Next

-----------------------------------------------------------------------------
(* The frames of a request.                                                   *)

(* Once the END of a request is on the channel nothing more is put there.      *)
LEMMA ClosedStays ==
  ASSUME TypeOK, HeldInv, TaskInv, NEW r \in Requests, Closed(r), Next
  PROVE  Closed(r)'
<1>0. NoReq \notin Requests /\ next \in Nat /\ r \in Nat
  BY SessionAssumption DEF Requests, NoReq, TypeOK
<1>1. CASE Reads
  <2>1. next' \in {next, next + 1} /\ (held' = held \/ held'.req \in {NoReq, next})
    <3>1. ASSUME NEW i \in Ids, ReadRequest(i)
          PROVE  next' = next + 1 /\ held'.req = next
      BY <3>1 DEF ReadRequest, Insert, Refuse
    <3>2. ASSUME NEW i \in Ids, ReadCancel(i)
          PROVE  next' = next /\ held' = held
      BY <3>2 DEF ReadCancel
    <3>. QED
      BY <1>1, <3>1, <3>2 DEF Reads, Hello, HelloRefused, HelloNever, ReadUnroutable, ReadPing,
         ReadFatal, ReadEnd, Refuse, OfSession
  <2>2. UNCHANGED <<handler, sup>>
    BY <1>1 DEF Reads, Hello, HelloRefused, HelloNever, ReadUnroutable, ReadPing, ReadFatal,
       ReadEnd, ReadRequest, ReadCancel, tasks
  <2>. QED
    BY <1>0, <2>1, <2>2 DEF Closed
<1>2. CASE TaskSteps
  <2>1. next' = next /\ (held' = held \/ held'.req = NoReq)
    BY <1>2 DEF TaskSteps, SendFails, Send, Reserve, ReserveFails, Drained, DrainTimeout,
       Over, Nothing
  <2>2. handler'[r] = handler[r] /\ sup'[r] # "await"
    BY <1>2 DEF TaskSteps, SendFails, Send, Reserve, ReserveFails, Drained, DrainTimeout,
       Over, tasks, Closed, TypeOK
  <2>. QED
    BY <1>0, <2>1, <2>2 DEF Closed
<1>3. CASE WriterSteps \/ Done
  BY <1>3 DEF WriterSteps, Write, WriteFails, WriterEnds, Done, tasks, vars, Closed
<1>4. ASSUME NEW q \in Requests, HandlerSteps(q) \/ SupervisorSteps(q) PROVE Closed(r)'
  BY <1>4 DEF HandlerSteps, StartData, SendData, SendAborted, HandlerEnds, SupervisorSteps,
     SupervisorSends, SupervisorFrees, TypeOK, Closed
<1>. QED
  BY <1>1, <1>2, <1>3, <1>4 DEF Next

(* The four things a step can do to the channel.  What it pushes is of a       *)
(* request that is not closed, and an END closes it.                          *)
Pushes(f) ==
  /\ f.kind = "session" <=> f.req = NoReq
  /\ f.req \in Requests => ~ Closed(f.req)
  /\ f.kind = "end" => Closed(f.req)'
  /\ chan' = Append(chan, f)
  /\ UNCHANGED <<writer, seen>>
Breaks == writer' = "gone" /\ chan' = <<>> /\ seen' = seen

LEMMA ChannelStep ==
  ASSUME TypeOK, HeldInv, FreshInv, TaskInv, Next
  PROVE  UNCHANGED <<chan, writer, seen>> \/ Write \/ Breaks \/ \E f \in Frame : Pushes(f)
<1>0. NoReq \notin Requests /\ next \in Nat /\ next < next + 1
  BY SessionAssumption DEF Requests, NoReq, TypeOK
<1>1. CASE Reads
  BY <1>1 DEF Reads, Hello, HelloRefused, HelloNever, ReadUnroutable, ReadPing, ReadFatal,
     ReadEnd, ReadRequest, ReadCancel
<1>2. CASE Send
  <2>1. held = OfSession \/ (held.kind = "end" /\ held.req \in Requests)
    BY <1>2 DEF Send, HeldInv, Sending
  <2>3. CASE held = OfSession
    <3>1. Pushes(OfSession) /\ OfSession \in Frame
      BY <1>0, <1>2, <2>3 DEF Send, Pushes, OfSession, Frame
    <3>. QED
      BY <3>1
  <2>4. CASE held.kind = "end" /\ held.req \in Requests
    <3>0. PICK r \in Requests : held.req = r
      BY <2>4
    <3>1. Silent(r) /\ r < next
      BY <1>0, <3>0 DEF FreshInv, HeldInv
    <3>2. Closed(r)' /\ ~ Closed(r)
      BY <1>0, <1>2, <3>0, <3>1 DEF Send, Closed, Silent, Nothing
    <3>3. held = EndOf(r) /\ EndOf(r) \in Frame
      BY <2>4, <3>0 DEF EndOf, TypeOK, Frame
    <3>4. Pushes(EndOf(r))
      BY <1>0, <1>2, <3>2, <3>3 DEF Send, Pushes, EndOf
    <3>. QED
      BY <3>3, <3>4
  <2>. QED
    BY <2>1, <2>3, <2>4
<1>3. CASE SendFails \/ Reserve \/ ReserveFails \/ Drained \/ DrainTimeout \/ Over
  BY <1>3 DEF SendFails, Reserve, ReserveFails, Drained, DrainTimeout, Over
<1>4. CASE WriterSteps \/ Done
  BY <1>4 DEF WriterSteps, WriteFails, WriterEnds, Done, vars, Breaks
<1>5. ASSUME NEW r \in Requests, HandlerSteps(r)
      PROVE  UNCHANGED <<chan, writer, seen>> \/ \E f \in Frame : Pushes(f)
  <2>1. CASE SendData(r)
    <3>1. [kind |-> "data", req |-> r] \in Frame
      BY DEF Frame
    <3>2. Pushes([kind |-> "data", req |-> r])
      BY <1>0, <2>1 DEF SendData, Pushes, Closed
    <3>. QED
      BY <3>1, <3>2
  <2>. QED
    BY <1>5, <2>1 DEF HandlerSteps, StartData, SendAborted, HandlerEnds
<1>6. ASSUME NEW r \in Requests, SupervisorSteps(r)
      PROVE  UNCHANGED <<chan, writer, seen>> \/ \E f \in Frame : Pushes(f)
  <2>1. CASE SupervisorSends(r) /\ writer = "up"
    <3>1. EndOf(r) \in Frame
      BY DEF Frame, EndOf
    <3>2. handler[r] = "ended" /\ sup[r] = "await" /\ held.req # r /\ r < next
      <4>1. handler[r] # "none" /\ handler[r] = "ended" /\ sup[r] = "await"
        BY <2>1 DEF SupervisorSends
      <4>2. ~ (r >= next \/ held.req = r)
        BY <4>1 DEF FreshInv, Silent
      <4>. QED
        BY <1>0, <4>1, <4>2, SessionAssumption DEF Requests
    <3>3. Closed(r)' /\ ~ Closed(r)
      BY <2>1, <3>2 DEF SupervisorSends, Closed, TypeOK
    <3>4. Pushes(EndOf(r))
      BY <1>0, <2>1, <3>3 DEF SupervisorSends, Pushes, EndOf
    <3>. QED
      BY <3>1, <3>4
  <2>. QED
    BY <1>6, <2>1 DEF SupervisorSteps, SupervisorSends, SupervisorFrees
<1>. QED
  BY <1>1, <1>2, <1>3, <1>4, <1>5, <1>6 DEF Next, TaskSteps

(* The indices of a channel that a frame was put on, or taken from.            *)
LEMMA PushIndex ==
  ASSUME TypeOK, NEW f \in Frame, chan' = Append(chan, f)
  PROVE  /\ Len(chan) \in Nat /\ Len(chan') = Len(chan) + 1
         /\ \A k \in 1 .. Len(chan) : k \in 1 .. Len(chan') /\ chan'[k] = chan[k]
         /\ \A k \in 1 .. Len(chan') : \/ k \in 1 .. Len(chan) /\ chan'[k] = chan[k]
                                       \/ k = Len(chan) + 1 /\ chan'[k] = f
  BY DEF TypeOK

LEMMA PopIndex ==
  ASSUME TypeOK, Write
  PROVE  /\ Len(chan) \in Nat \ {0} /\ Len(chan') = Len(chan) - 1
         /\ Head(chan) = chan[1] /\ 1 \in 1 .. Len(chan) /\ chan[1] \in Frame
         /\ \A k \in 1 .. Len(chan') : k + 1 \in 1 .. Len(chan) /\ chan'[k] = chan[k + 1]
  BY HeadTailProperties, EmptySeq DEF TypeOK, Write

(* A frame that is written adds to what its request has seen, and only there.  *)
LEMMA WriteSees ==
  ASSUME TypeOK, FrameInv, Write, NEW r \in Requests
  PROVE  /\ Ended(r) => Ended(r)'
         /\ Ended(r)' => Ended(r) \/ chan[1] = EndOf(r)
         /\ chan[1] = EndOf(r) => Ended(r)'
         /\ chan[1].req # r => seen'[r] = seen[r]
<1>1. chan[1] \in Frame /\ Head(chan) = chan[1] /\ (chan[1].kind = "session" <=> chan[1].req = NoReq)
  BY PopIndex DEF FrameInv
<1>2. NoReq \notin Requests
  BY SessionAssumption DEF Requests, NoReq
<1>3. CASE chan[1].req # r
  <2>1. seen'[r] = seen[r]
    BY <1>1, <1>3 DEF Write, TypeOK
  <2>. QED
    BY <1>3, <2>1 DEF Ended, EndOf
<1>4. CASE chan[1].req = r
  <2>1. chan[1].kind \in {"data", "end"}
    BY <1>1, <1>2, <1>4 DEF Frame
  <2>2. seen'[r] = Append(seen[r], chan[1].kind) /\ seen[r] \in Seq({"data", "end"})
    BY <1>1, <1>4, <2>1 DEF Write, TypeOK
  <2>3. Ended(r)' <=> Ended(r) \/ chan[1].kind = "end"
    BY <2>1, <2>2 DEF Ended
  <2>4. chan[1].kind = "end" <=> chan[1] = EndOf(r)
    BY <1>1, <1>4 DEF EndOf, Frame
  <2>. QED
    BY <1>4, <2>3, <2>4
<1>. QED
  BY <1>3, <1>4

(* DATA frames, one END, nothing: on the wire and behind it on the channel.    *)
LEMMA FrameStep ==
  ASSUME TypeOK, HeldInv, FreshInv, TaskInv, FrameInv, Next
  PROVE  FrameInv'
<1>0. \A r \in Requests : Closed(r) => Closed(r)'
  BY ClosedStays
<1>1. CASE UNCHANGED <<chan, writer, seen>>
  BY <1>0, <1>1 DEF FrameInv, Ended, OnChannel
<1>2. CASE Breaks
  BY <1>0, <1>2 DEF Breaks, FrameInv, Ended, OnChannel
<1>3. ASSUME NEW f \in Frame, Pushes(f) PROVE FrameInv'
  <2>1. /\ f.kind = "session" <=> f.req = NoReq
        /\ f.req \in Requests => ~ Closed(f.req)
        /\ f.kind = "end" => Closed(f.req)'
        /\ chan' = Append(chan, f) /\ seen' = seen
    BY <1>3 DEF Pushes
  <2>2. /\ Len(chan) \in Nat /\ Len(chan') = Len(chan) + 1
        /\ \A k \in 1 .. Len(chan') : \/ k \in 1 .. Len(chan) /\ chan'[k] = chan[k]
                                      \/ k = Len(chan) + 1 /\ chan'[k] = f
    BY <2>1, PushIndex
  <2>3. \A k \in 1 .. Len(chan') : chan'[k].kind = "session" <=> chan'[k].req = NoReq
    BY <2>1, <2>2 DEF FrameInv
  <2>4. \A r \in Requests : Ended(r)' <=> Ended(r)
    BY <2>1 DEF Ended
  <2>5. \A r \in Requests : Ended(r)' \/ OnChannel(r)' => Closed(r)'
    <3>1. SUFFICES ASSUME NEW r \in Requests, Ended(r)' \/ OnChannel(r)' PROVE Closed(r)'
      OBVIOUS
    <3>2. Ended(r) \/ OnChannel(r) \/ f = EndOf(r)
      BY <2>2, <2>4, <3>1 DEF OnChannel, EndOf
    <3>. QED
      BY <1>0, <2>1, <3>2 DEF FrameInv, EndOf
  <2>6. \A r \in Requests : Ended(r)' => \A k \in 1 .. Len(chan') : chan'[k].req # r
    BY <2>1, <2>2, <2>4 DEF FrameInv
  <2>7. ASSUME NEW j \in 1 .. Len(chan'), NEW k \in 1 .. Len(chan'), j < k, chan'[j].kind = "end"
        PROVE  chan'[k].req # chan'[j].req
    <3>1. j \in 1 .. Len(chan) /\ chan'[j] = chan[j] /\ chan[j] \in Frame
      BY <2>2, <2>7 DEF TypeOK
    <3>2. CASE k \in 1 .. Len(chan) /\ chan'[k] = chan[k]
      BY <2>7, <3>1, <3>2 DEF FrameInv
    <3>3. CASE chan'[k] = f
      <4>1. chan[j].req \in Requests
        BY <2>7, <3>1 DEF FrameInv, Frame
      <4>2. chan[j] = EndOf(chan[j].req)
        BY <2>7, <3>1 DEF EndOf, Frame
      <4>3. Closed(chan[j].req)
        BY <3>1, <4>1, <4>2 DEF FrameInv, OnChannel
      <4>. QED
        BY <2>1, <3>1, <3>3, <4>1, <4>3
    <3>. QED
      BY <2>2, <3>2, <3>3
  <2>. QED
    BY <2>3, <2>5, <2>6, <2>7 DEF FrameInv
<1>4. CASE Write
  <2>1. /\ Len(chan) \in Nat \ {0} /\ Len(chan') = Len(chan) - 1
        /\ 1 \in 1 .. Len(chan) /\ chan[1] \in Frame
        /\ \A k \in 1 .. Len(chan') : k + 1 \in 1 .. Len(chan) /\ chan'[k] = chan[k + 1]
    BY <1>4, PopIndex
  <2>2. \A r \in Requests : Ended(r)' => Ended(r) \/ chan[1] = EndOf(r)
    BY <1>4, WriteSees
  <2>3. \A k \in 1 .. Len(chan') : chan'[k].kind = "session" <=> chan'[k].req = NoReq
    BY <2>1 DEF FrameInv
  <2>4. \A r \in Requests : Ended(r)' \/ OnChannel(r)' => Closed(r)'
    <3>1. \A r \in Requests : OnChannel(r)' => OnChannel(r)
      BY <2>1 DEF OnChannel, EndOf
    <3>2. \A r \in Requests : chan[1] = EndOf(r) => OnChannel(r)
      BY <2>1 DEF OnChannel
    <3>. QED
      BY <1>0, <2>2, <3>1, <3>2 DEF FrameInv
  <2>5. \A r \in Requests : Ended(r)' => \A k \in 1 .. Len(chan') : chan'[k].req # r
    <3>1. SUFFICES ASSUME NEW r \in Requests, Ended(r)', NEW k \in 1 .. Len(chan')
                   PROVE  chan'[k].req # r
      OBVIOUS
    <3>2. k + 1 \in 1 .. Len(chan) /\ chan'[k] = chan[k + 1] /\ 1 < k + 1
      BY <2>1
    <3>3. CASE Ended(r)
      BY <3>2, <3>3 DEF FrameInv
    <3>4. CASE chan[1] = EndOf(r)
      BY <2>1, <3>2, <3>4 DEF FrameInv, EndOf
    <3>. QED
      BY <2>2, <3>1, <3>3, <3>4
  <2>6. ASSUME NEW j \in 1 .. Len(chan'), NEW k \in 1 .. Len(chan'), j < k, chan'[j].kind = "end"
        PROVE  chan'[k].req # chan'[j].req
    <3>1. j + 1 \in 1 .. Len(chan) /\ k + 1 \in 1 .. Len(chan) /\ j + 1 < k + 1
          /\ chan'[j] = chan[j + 1] /\ chan'[k] = chan[k + 1]
      BY <2>1, <2>6
    <3>. QED
      BY <2>6, <3>1 DEF FrameInv
  <2>. QED
    BY <2>3, <2>4, <2>5, <2>6 DEF FrameInv
<1>. QED
  BY <1>1, <1>2, <1>3, <1>4, ChannelStep

LEMMA EndAheadStays ==
  ASSUME TypeOK, HeldInv, FreshInv, TaskInv, FrameInv, Next,
         NEW r \in Requests, NEW s, EndAhead(r, s)
  PROVE  EndAhead(r, s)'
<1>0. writer = "gone" => writer' = "gone"
  BY ChannelStep DEF Write, Breaks, Pushes, TypeOK
<1>1. CASE UNCHANGED <<chan, writer, seen>>
  BY <1>1 DEF EndAhead, Ended
<1>2. CASE Breaks
  BY <1>2 DEF Breaks, EndAhead
<1>3. ASSUME NEW f \in Frame, Pushes(f) PROVE EndAhead(r, s)'
  <2>1. Ended(r) => Ended(r)'
    BY <1>3 DEF Pushes, Ended
  <2>2. ASSUME NEW k \in 1 .. Len(chan), chan[k] = EndOf(r), \A j \in 1 .. k : chan[j].req # s
        PROVE  EndAhead(r, s)'
    <3>1. k \in 1 .. Len(chan') /\ \A j \in 1 .. k : chan'[j] = chan[j]
      BY <1>3, PushIndex DEF Pushes
    <3>. QED
      BY <2>2, <3>1 DEF EndAhead, EndOf
  <2>. QED
    BY <1>0, <2>1, <2>2 DEF EndAhead
<1>4. CASE Write
  <2>1. ASSUME NEW k \in 1 .. Len(chan), chan[k] = EndOf(r), \A j \in 1 .. k : chan[j].req # s
        PROVE  EndAhead(r, s)'
    <3>1. CASE k = 1
      BY <1>4, <2>1, <3>1, WriteSees DEF EndAhead
    <3>2. CASE k # 1
      <4>1. k - 1 \in 1 .. Len(chan') /\ \A j \in 1 .. k - 1 : j + 1 \in 1 .. k /\ chan'[j] = chan[j + 1]
        BY <1>4, <3>2, PopIndex
      <4>2. chan'[k - 1] = EndOf(r)
        BY <2>1, <4>1
      <4>. QED
        BY <2>1, <4>1, <4>2 DEF EndAhead, EndOf
    <3>. QED
      BY <3>1, <3>2
  <2>. QED
    BY <1>0, <1>4, <2>1, WriteSees DEF EndAhead
<1>. QED
  BY <1>1, <1>2, <1>3, <1>4, ChannelStep

LEMMA EndSentStays ==
  ASSUME TypeOK, HeldInv, FreshInv, TaskInv, FrameInv, Next, NEW r \in Requests, EndSent(r)
  PROVE  EndSent(r)'
<1>. DEFINE nobody == MaxRequests + 1
<1>1. EndAhead(r, nobody)
  <2>1. nobody \notin Requests \cup {NoReq}
    BY SessionAssumption DEF Requests, NoReq
  <2>2. \A k \in 1 .. Len(chan) : chan[k].req # nobody
    <3>1. \A k \in 1 .. Len(chan) : chan[k] \in Frame
      BY DEF TypeOK
    <3>2. \A f \in Frame : f.req \in Requests \cup {NoReq}
      BY DEF Frame
    <3>. HIDE DEF nobody
    <3>. QED
      BY <2>1, <3>1, <3>2
  <2>3. \A k \in 1 .. Len(chan) : \A j \in 1 .. k : chan[j].req # nobody
    <3>1. \A k \in 1 .. Len(chan) : \A j \in 1 .. k : j \in 1 .. Len(chan)
      BY LenProperties DEF TypeOK
    <3>. HIDE DEF nobody
    <3>. QED
      BY <2>2, <3>1
  <2>. QED
    BY <2>3 DEF EndSent, EndAhead, OnChannel
<1>2. EndAhead(r, nobody)'
  <2>. HIDE DEF nobody
  <2>. QED
    BY <1>1, EndAheadStays
<1>. QED
  BY <1>2 DEF EndSent, EndAhead, OnChannel, EndOf

(* A request that takes an id takes it behind the END of whoever had it.       *)
LEMMA OrderStep ==
  ASSUME TypeOK, HeldInv, FreshInv, TaskInv, RegistryInv, FrameInv, OrderInv, Next
  PROVE  OrderInv'
<1>0. next \in Nat /\ NoReq \notin Requests /\ \A r \in Requests : r \in Nat
  BY SessionAssumption DEF Requests, NoReq, TypeOK
<1>1. ASSUME NEW r \in Requests, sup'[r] \in {"sent", "gone"} PROVE EndSent(r)'
  <2>1. CASE sup[r] \in {"sent", "gone"}
    BY <2>1, EndSentStays DEF OrderInv
  <2>2. CASE sup[r] \notin {"sent", "gone"}
    <3>1. SupervisorSends(r)
      <4>1. CASE Reads \/ WriterSteps \/ Done
        BY <1>1, <2>2, <4>1 DEF Reads, Hello, HelloRefused, HelloNever, ReadUnroutable, ReadPing,
           ReadFatal, ReadEnd, ReadRequest, ReadCancel, WriterSteps, Write, WriteFails, WriterEnds,
           Done, tasks, vars
      <4>2. CASE TaskSteps
        BY <1>1, <2>2, <4>2 DEF TaskSteps, SendFails, Send, Reserve, ReserveFails, Drained,
           DrainTimeout, Over, tasks, TypeOK
      <4>3. ASSUME NEW q \in Requests, HandlerSteps(q) \/ SupervisorSteps(q)
            PROVE  SupervisorSends(r)
        BY <1>1, <2>2, <4>3 DEF HandlerSteps, StartData, SendData, SendAborted, HandlerEnds,
           SupervisorSteps, SupervisorSends, SupervisorFrees, TypeOK
      <4>. QED
        BY <4>1, <4>2, <4>3 DEF Next
    <3>2. CASE writer = "up"
      <4>1. chan' = Append(chan, EndOf(r)) /\ EndOf(r) \in Frame
        BY <3>1, <3>2 DEF SupervisorSends, EndOf, Frame
      <4>2. Len(chan) + 1 \in 1 .. Len(chan') /\ chan'[Len(chan) + 1] = EndOf(r)
        BY <4>1, PushIndex DEF TypeOK
      <4>. QED
        BY <4>2 DEF EndSent, OnChannel, EndOf
    <3>3. CASE writer # "up"
      BY <3>1, <3>3 DEF SupervisorSends, EndSent, TypeOK
    <3>. QED
      BY <3>2, <3>3
  <2>. QED
    BY <2>1, <2>2
<1>2. ASSUME NEW r \in Requests, NEW s \in Requests, r < s, Accepted(r)', Taken(s)', id'[r] = id'[s]
      PROVE  EndAhead(r, s)'
  <2>1. CASE Accepted(r) /\ Taken(s) /\ id[r] = id[s]
    BY <1>2, <2>1, EndAheadStays DEF OrderInv
  <2>2. ASSUME NEW i \in Ids, ReadRequest(i) PROVE EndAhead(r, s)'
    <3>1. UNCHANGED <<handler, sup, chan, writer, seen>> /\ phase = "loop" /\ Accepted(r)
      BY <1>2, <2>2 DEF ReadRequest, Accepted, tasks
    <3>2. next \in Requests /\ Silent(next)
      BY <2>2, NextIsFresh DEF ReadRequest
    <3>3. r # next /\ r < next
      <4>1. ~ (r >= next)
        BY <3>1 DEF Accepted, FreshInv, Silent
      <4>. QED
        BY <1>0, <4>1
    <3>4. CASE Accepted(s)
      <4>1. s # next
        BY <3>2, <3>4 DEF Accepted, Silent
      <4>2. id[r] = id[s]
        BY <1>2, <2>2, <3>3, <4>1 DEF ReadRequest, Insert, Refuse, TypeOK
      <4>. QED
        BY <2>1, <3>1, <3>4, <4>2 DEF Taken
    <3>5. CASE ~ Accepted(s)
      <4>1. phase' = "reserve" /\ held'.req = s
        BY <1>2, <3>1, <3>5 DEF Taken, Accepted
      <4>2. s = next /\ registry[i] = NoReq /\ id' = [id EXCEPT ![next] = i]
        BY <2>2, <4>1 DEF ReadRequest, Insert, Refuse
      <4>3. id[r] = i
        BY <1>2, <3>2, <3>3, <4>2 DEF TypeOK
      <4>4. sup[r] = "gone"
        BY <1>0, <3>1, <4>2, <4>3 DEF RegistryInv, TaskInv, Accepted, TypeOK
      <4>5. EndSent(r)
        BY <4>4 DEF OrderInv
      <4>6. EndAhead(r, s)
        BY <3>2, <4>2, <4>5 DEF EndSent, EndAhead, OnChannel, Silent, TypeOK
      <4>. QED
        BY <4>6, EndAheadStays
    <3>. QED
      BY <3>4, <3>5
  <2>3. CASE Reserve
    <3>1. held.req \in Requests /\ Silent(held.req) /\ held.req = next - 1
      BY <2>3 DEF Reserve, HeldInv, FreshInv
    <3>2. r # held.req
      <4>1. CASE r = held.req
        <5>1. s >= next
          BY <1>0, <1>2, <3>1, <4>1
        <5>2. handler[s] = "none" /\ s # held.req
          BY <1>2, <4>1, <5>1, <1>0 DEF FreshInv, Silent
        <5>3. handler'[s] = "none" /\ phase' = "loop"
          BY <2>3, <3>1, <5>2 DEF Reserve, TypeOK
        <5>. QED
          BY <1>2, <5>3 DEF Taken, Accepted
      <4>. QED
        BY <4>1
    <3>3. Accepted(r) /\ Taken(s) /\ id[r] = id[s]
      BY <1>2, <2>3, <3>1, <3>2 DEF Reserve, Accepted, Taken, TypeOK
    <3>. QED
      BY <2>1, <3>3
  <2>4. CASE Hello \/ HelloRefused \/ HelloNever \/ ReadUnroutable \/ ReadPing \/ ReadFatal
             \/ ReadEnd \/ \E i \in Ids : ReadCancel(i)
    BY <1>2, <2>1, <2>4 DEF Hello, HelloRefused, HelloNever, ReadUnroutable, ReadPing, ReadFatal,
       ReadEnd, ReadCancel, Refuse, Teardown, tasks, Accepted, Taken
  <2>5. CASE SendFails \/ Send \/ ReserveFails \/ Drained \/ DrainTimeout \/ Over
    <3>1. UNCHANGED <<handler, id>> /\ phase' # "reserve"
      BY <2>5 DEF SendFails, Send, ReserveFails, Drained, DrainTimeout, Over, Teardown, After,
         Sending, tasks
    <3>. QED
      BY <1>2, <2>1, <3>1 DEF Accepted, Taken
  <2>6. CASE WriterSteps \/ Done
    BY <1>2, <2>1, <2>6 DEF WriterSteps, Write, WriteFails, WriterEnds, Done, tasks, vars,
       Accepted, Taken
  <2>7. ASSUME NEW q \in Requests, HandlerSteps(q) \/ SupervisorSteps(q)
        PROVE  EndAhead(r, s)'
    <3>1. \A p \in Requests : handler'[p] # "none" => handler[p] # "none"
      BY <2>7 DEF HandlerSteps, StartData, SendData, SendAborted, HandlerEnds, SupervisorSteps,
         SupervisorSends, SupervisorFrees, TypeOK
    <3>2. UNCHANGED <<id, phase, held>>
      BY <2>7 DEF HandlerSteps, StartData, SendData, SendAborted, HandlerEnds, SupervisorSteps,
         SupervisorSends, SupervisorFrees
    <3>. QED
      BY <1>2, <2>1, <3>1, <3>2 DEF Accepted, Taken
  <2>. QED
    BY <2>2, <2>3, <2>4, <2>5, <2>6, <2>7 DEF Next, Reads, TaskSteps
<1>. QED
  BY <1>1, <1>2 DEF OrderInv

(* The first frame of a later request with the same id is written behind the   *)
(* END of the earlier one.                                                    *)
LEMMA AmbiguousStep ==
  ASSUME TypeOK, HeldInv, FreshInv, TaskInv, FrameInv, OrderInv, IdNeverAmbiguous, Next,
         OrderInv', TypeOK', FreshInv', FrameInv'
  PROVE  IdNeverAmbiguous'
<1>0. next \in Nat /\ NoReq \notin Requests /\ \A r \in Requests : r \in Nat
  BY SessionAssumption DEF Requests, NoReq, TypeOK
<1>. SUFFICES ASSUME NEW r \in Requests, NEW s \in Requests, r < s, Accepted(r)', Accepted(s)',
                     id'[r] = id'[s], seen'[s] # <<>>
              PROVE  Ended(r)'
  BY DEF IdNeverAmbiguous
<1>1. ASSUME Ended(r) PROVE Ended(r)'
  BY <1>1, ChannelStep, WriteSees DEF Ended, Breaks, Pushes
<1>2. CASE seen[s] # <<>>
  <2>1. ~ (s >= next \/ held.req = s)
    BY <1>2 DEF FreshInv, Silent
  <2>3. Accepted(r) /\ Accepted(s) /\ id[r] = id[s]
    <3>1. CASE Reserve
      <4>1. held.req = next - 1 /\ held.req \in Requests
        BY <3>1 DEF Reserve, HeldInv
      <4>2. r # held.req
        BY <1>0, <2>1, <4>1
      <4>. QED
        BY <2>1, <3>1, <4>1, <4>2 DEF Reserve, Accepted, TypeOK
    <3>2. ASSUME NEW i \in Ids, ReadRequest(i) PROVE Accepted(r) /\ Accepted(s) /\ id[r] = id[s]
      <4>1. handler' = handler /\ (id' = id \/ id' = [id EXCEPT ![next] = i])
        BY <3>2 DEF ReadRequest, Insert, Refuse, tasks
      <4>2. r # next /\ s # next
        BY <1>0, <2>1
      <4>. QED
        BY <4>1, <4>2 DEF Accepted, TypeOK
    <3>3. CASE Hello \/ HelloRefused \/ HelloNever \/ ReadUnroutable \/ ReadPing \/ ReadFatal
               \/ ReadEnd \/ \E i \in Ids : ReadCancel(i)
      BY <3>3 DEF Hello, HelloRefused, HelloNever, ReadUnroutable, ReadPing, ReadFatal, ReadEnd,
         ReadCancel, Refuse, tasks, Accepted
    <3>4. CASE SendFails \/ Send \/ ReserveFails \/ Drained \/ DrainTimeout \/ Over
      BY <3>4 DEF SendFails, Send, ReserveFails, Drained, DrainTimeout, Over, tasks, Accepted
    <3>5. CASE WriterSteps \/ Done
      BY <3>5 DEF WriterSteps, Write, WriteFails, WriterEnds, Done, tasks, vars, Accepted
    <3>6. ASSUME NEW q \in Requests, HandlerSteps(q) \/ SupervisorSteps(q)
          PROVE  Accepted(r) /\ Accepted(s) /\ id[r] = id[s]
      BY <3>6 DEF HandlerSteps, StartData, SendData, SendAborted, HandlerEnds, SupervisorSteps,
         SupervisorSends, SupervisorFrees, TypeOK, Accepted
    <3>. QED
      BY <3>1, <3>2, <3>3, <3>4, <3>5, <3>6 DEF Next, Reads, TaskSteps
  <2>. QED
    BY <1>1, <1>2, <2>3 DEF IdNeverAmbiguous
<1>3. CASE seen[s] = <<>>
  <2>1. Write /\ chan[1].req = s
    BY <1>3, ChannelStep, WriteSees DEF Breaks, Pushes
  <2>2. writer = "up" /\ 1 \in 1 .. Len(chan) /\ UNCHANGED <<id, handler>>
    BY <2>1, PopIndex DEF Write, tasks
  <2>3. EndAhead(r, s)
    BY <2>2 DEF OrderInv, Accepted, Taken
  <2>4. Ended(r)
    <3>1. ASSUME NEW k \in 1 .. Len(chan) PROVE 1 \in 1 .. k
      OBVIOUS
    <3>. QED
      BY <2>1, <2>2, <2>3, <3>1 DEF EndAhead
  <2>. QED
    BY <1>1, <2>4
<1>. QED
  BY <1>2, <1>3

-----------------------------------------------------------------------------
(* The theorems.                                                              *)

LEMMA InvInit == Init => IInv
<1>. SUFFICES ASSUME Init PROVE IInv
  OBVIOUS
<1>0. TypeOK
  BY TypeInit
<1>1. \A r \in Requests : ~ Ended(r) /\ ~ OnChannel(r)
  BY DEF Init, Ended, OnChannel
<1>2. HeldInv /\ FreshInv /\ TaskInv /\ ToldInv
  BY SessionAssumption DEF Init, HeldInv, FreshInv, TaskInv, ToldInv, Silent, Nothing, NoReq,
     Sending, Requests
<1>3. RegistryInv
  <2>1. InFlight = {}
    BY DEF Init, InFlight
  <2>. QED
    BY <2>1, FS_EmptySet, SessionAssumption DEF Init, RegistryInv
<1>4. FrameInv /\ OrderInv /\ IdNeverAmbiguous
  BY <1>1 DEF Init, FrameInv, OrderInv, IdNeverAmbiguous, Accepted
<1>. QED
  BY <1>0, <1>2, <1>3, <1>4 DEF IInv

LEMMA InvStep == IInv /\ [Next]_vars => IInv'
<1>. SUFFICES ASSUME IInv, [Next]_vars PROVE IInv'
  OBVIOUS
<1>. USE DEF IInv
<1>1. CASE Next
  <2>1. TypeOK'
    BY <1>1, TypeReads, TypeTaskSteps, TypeHandler, TypeSupervisor, TypeWriter
       DEF Next, Done, vars, TypeOK, Permits
  <2>2. HeldInv' /\ FreshInv' /\ TaskInv' /\ RegistryInv' /\ ToldInv'
    BY <1>1, HeldStep, FreshStep, TaskStep, RegistryStep, ToldStep
  <2>3. FrameInv' /\ OrderInv'
    BY <1>1, FrameStep, OrderStep
  <2>4. IdNeverAmbiguous'
    BY <1>1, <2>1, <2>2, <2>3, AmbiguousStep
  <2>. QED
    BY <2>1, <2>2, <2>3, <2>4
<1>2. CASE UNCHANGED vars
  <2>1. TypeOK' /\ HeldInv' /\ FreshInv' /\ TaskInv' /\ RegistryInv' /\ ToldInv'
    BY <1>2 DEF vars, TypeOK, Permits, HeldInv, FreshInv, Silent, TaskInv, RegistryInv, InFlight,
       ToldInv, Running
  <2>2. FrameInv' /\ OrderInv' /\ IdNeverAmbiguous'
    BY <1>2 DEF vars, FrameInv, Ended, OnChannel, Closed, OrderInv, EndSent, EndAhead, Taken,
       Accepted, IdNeverAmbiguous
  <2>. QED
    BY <2>1, <2>2
<1>. QED
  BY <1>1, <1>2

(* The session keeps its types and never puts more on the control channel than *)
(* it holds: terminals on reserved permits and everything else fit together.  *)
THEOREM SessionTypeCorrect == Spec => []TypeOK
<1>1. IInv => TypeOK
  BY DEF IInv
<1>. QED
  BY <1>1, InvInit, InvStep, PTL DEF Spec

(* Of two accepted requests with one id the later is silent until the END of   *)
(* the earlier has been written.                                              *)
THEOREM IdsNeverAmbiguous == Spec => []IdNeverAmbiguous
<1>1. IInv => IdNeverAmbiguous
  BY DEF IInv
<1>. QED
  BY <1>1, InvInit, InvStep, PTL DEF Spec

(* A supervised handler is the one its id names, at most max_inflight of them  *)
(* run, and leaving the loop has told each of them.                           *)
THEOREM CancelAlwaysReaches == Spec => []CancelReaches
<1>1. IInv => CancelReaches
  <2>. SUFFICES ASSUME IInv PROVE CancelReaches
    OBVIOUS
  <2>. DEFINE rs == {r \in Requests : Running(r) /\ sup[r] = "await"}
  <2>. DEFINE f == [r \in rs |-> id[r]]
  <2>1. \A r \in rs : id[r] \in Ids /\ registry[id[r]] = r
    BY DEF IInv, RegistryInv, TaskInv, Running
  <2>2. f \in Injection(rs, InFlight)
    <3>1. f \in [rs -> InFlight]
      BY <2>1, SessionAssumption DEF InFlight, NoReq, Requests
    <3>2. \A r, s \in rs : f[r] = f[s] => r = s
      BY <2>1
    <3>. QED
      BY <3>1, <3>2 DEF Injection, IsInjective
  <2>3. Cardinality(rs) <= Cardinality(InFlight) /\ Cardinality(rs) \in Nat
    <3>. HIDE DEF rs, f
    <3>. QED
      BY <2>2, InFlightFinite, FS_Injection, FS_CardinalityType DEF IInv
  <2>4. Cardinality(rs) <= MaxInflight
    <3>. HIDE DEF rs
    <3>. QED
      BY <2>3, InFlightFinite, SessionAssumption DEF IInv, RegistryInv
  <2>5. \A r \in rs : phase \in {"drain", "flush", "over"} => r \in cancelled
    BY DEF IInv, ToldInv
  <2>. QED
    BY <2>1, <2>4, <2>5 DEF CancelReaches
<1>. QED
  BY <1>1, InvInit, InvStep, PTL DEF Spec

(* The detailed session is a RequestStream: DATA, then at most one END, for a  *)
(* request that was sent, and nothing after the connection is gone.           *)
THEOREM SessionImplements == Spec => ImplementsRequestStream
<1>1. Init => Client!Init
  BY DEF Init, Client!Init
<1>2. IInv /\ [Next]_vars => [Client!Next]_Client!vars
  <2>. SUFFICES ASSUME IInv, [Next]_vars PROVE [Client!Next]_Client!vars
    OBVIOUS
  <2>0. next \in Nat /\ NoReq \notin Requests /\ next \in 1 .. MaxRequests + 1
    BY SessionAssumption DEF IInv, TypeOK, Requests, NoReq
  <2>1. CASE next' = next /\ UNCHANGED <<writer, seen>>
    BY <2>1 DEF Client!vars
  <2>2. CASE next <= MaxRequests /\ next' = next + 1 /\ UNCHANGED <<writer, seen>>
    <3>1. next \in Requests /\ next \notin 1 .. next - 1
      BY <2>0, <2>2, SessionAssumption DEF Requests
    <3>2. 1 .. next' - 1 = (1 .. next - 1) \cup {next}
      BY <2>0, <2>2
    <3>3. Client!Ask(next)
      BY <2>2, <3>1, <3>2 DEF Client!Ask
    <3>. QED
      BY <3>1, <3>3 DEF Client!Next
  <2>3. CASE next' = next /\ writer = "up" /\ Breaks
    BY <2>3 DEF Breaks, Client!Next, Client!Close
  <2>4. CASE Write
    <3>1. /\ chan[1] \in Frame /\ Head(chan) = chan[1] /\ 1 \in 1 .. Len(chan) /\ writer = "up"
          /\ (chan[1].kind = "session" <=> chan[1].req = NoReq) /\ UNCHANGED <<next, writer>>
      BY <2>4, PopIndex DEF IInv, FrameInv, Write
    <3>2. CASE chan[1].kind = "session"
      BY <2>1, <2>4, <3>1, <3>2 DEF Write
    <3>3. CASE chan[1].kind # "session"
      <4>1. PICK r \in Requests : chan[1].req = r
        BY <3>1, <3>3 DEF Frame
      <4>2. chan[1].kind \in {"data", "end"}
        BY <3>1, <3>3 DEF Frame
      <4>3. seen' = [seen EXCEPT ![r] = Append(@, chan[1].kind)]
        BY <2>4, <3>1, <4>1, <4>2 DEF Write
      <4>4. r < next /\ ~ (r >= next)
        <5>1. ~ (r >= next)
          BY <3>1, <4>1 DEF IInv, FreshInv, Silent
        <5>. QED
          BY <2>0, <5>1, SessionAssumption DEF Requests
      <4>5. r \in 1 .. next - 1
        BY <2>0, <4>4, SessionAssumption DEF Requests
      <4>6. ~ Client!Ended(r)
        <5>1. ~ Ended(r)
          BY <3>1, <4>1 DEF IInv, FrameInv
        <5>. QED
          BY <5>1 DEF Ended, Client!Ended
      <4>7. Client!Read(r, chan[1].kind)
        BY <3>1, <4>3, <4>5, <4>6 DEF Client!Read
      <4>. QED
        BY <4>2, <4>7 DEF Client!Next
    <3>. QED
      BY <3>2, <3>3
  <2>5. CASE Reads
    BY <2>1, <2>2, <2>5 DEF Reads, Hello, HelloRefused, HelloNever, ReadUnroutable, ReadPing,
       ReadFatal, ReadEnd, ReadRequest, ReadCancel
  <2>6. CASE TaskSteps
    BY <2>1, <2>6 DEF TaskSteps, SendFails, Send, Reserve, ReserveFails, Drained, DrainTimeout, Over
  <2>7. CASE WriteFails \/ WriterEnds
    BY <2>3, <2>7 DEF WriteFails, WriterEnds, Breaks
  <2>8. CASE Done \/ UNCHANGED vars
    BY <2>1, <2>8 DEF Done, vars
  <2>9. ASSUME NEW r \in Requests, HandlerSteps(r) \/ SupervisorSteps(r)
        PROVE  [Client!Next]_Client!vars
    BY <2>1, <2>9 DEF HandlerSteps, StartData, SendData, SendAborted, HandlerEnds, SupervisorSteps,
       SupervisorSends, SupervisorFrees
  <2>. QED
    BY <2>4, <2>5, <2>6, <2>7, <2>8, <2>9 DEF Next, WriterSteps
<1>. QED
  BY <1>1, <1>2, InvInit, InvStep, PTL DEF Spec, ImplementsRequestStream, Client!Spec

=============================================================================
