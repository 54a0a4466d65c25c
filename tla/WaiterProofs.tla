---------------------------- MODULE WaiterProofs ----------------------------
(***************************************************************************)
(* Theorems about the two components that hand something scarce to those   *)
(* who wait for it.  Pool, connections: for every set of callers and       *)
(* sessions, every max_size and either clean profile.  QueueWaker, jobs:   *)
(* for every set of waiters, queues and jobs, and every limit.             *)
(***************************************************************************)
EXTENDS Pool, QueueWaker, TLAPS, FiniteSetTheorems, SequenceTheorems, WellFoundedInduction

-----------------------------------------------------------------------------
(* The idle stack.                                                         *)

(* Popping a non-empty stack yields an entry and a shorter stack whose     *)
(* elements are the lower ones.                                            *)
LEMMA StackPop ==
  ASSUME NEW S, NEW st \in Seq(S), st # <<>>
  PROVE  /\ Len(st) \in Nat \ {0}
         /\ st[Len(st)] \in S
         /\ SubSeq(st, 1, Len(st) - 1) \in Seq(S)
         /\ Len(SubSeq(st, 1, Len(st) - 1)) = Len(st) - 1
         /\ \A i \in 1..(Len(st) - 1) : SubSeq(st, 1, Len(st) - 1)[i] = st[i]
<1>1. Len(st) \in Nat \ {0}
  BY EmptySeq
<1>2. \A i \in 1..Len(st) : st[i] \in S
  BY ElementOfSeq
<1>3. \A i \in 1..(Len(st) - 1) : st[i] \in S
  BY <1>1, <1>2
<1>. DEFINE sub == SubSeq(st, 1, Len(st) - 1)
<1>4. /\ sub \in Seq(S)
      /\ Len(sub) = IF 1 <= Len(st) - 1 THEN (Len(st) - 1) - 1 + 1 ELSE 0
      /\ \A i \in 1..((Len(st) - 1) - 1 + 1) : sub[i] = st[1 + i - 1]
  <2>. HIDE DEF sub
  <2>1. 1 \in Int /\ Len(st) - 1 \in Int
    BY <1>1
  <2>. QED
    BY <1>3, <2>1, SubSeqProperties DEF sub
<1>5. \A i \in 1..(Len(st) - 1) : sub[i] = st[i]
  <2>. HIDE DEF sub
  <2>. QED
    BY <1>1, <1>4
<1>6. Len(sub) = Len(st) - 1
  <2>. HIDE DEF sub
  <2>1. CASE Len(st) = 1
    BY <1>4, <2>1
  <2>2. CASE Len(st) > 1
    <3>1. 1 <= Len(st) - 1
      BY <1>1, <2>2
    <3>. QED
      BY <1>1, <1>4, <3>1
  <2>. QED
    BY <1>1, <2>1, <2>2
<1>. QED
  BY <1>1, <1>2, <1>4, <1>5, <1>6

(* Pushing puts the entry above the elements that were there.              *)
LEMMA StackPush ==
  ASSUME NEW S, NEW st \in Seq(S), NEW e \in S
  PROVE  /\ Append(st, e) \in Seq(S)
         /\ Len(st) \in Nat
         /\ Len(Append(st, e)) = Len(st) + 1
         /\ Append(st, e)[Len(st) + 1] = e
         /\ \A i \in 1..Len(st) : Append(st, e)[i] = st[i]
  BY AppendProperties, LenProperties

-----------------------------------------------------------------------------
(* Type correctness.                                                       *)

(* Statements leave only the two kinds of session state.                   *)
LEMMA LeavesType ==
  ASSUME NEW kind \in AllKinds
  PROVE  Leaves(kind) \in SUBSET {"session", "prepared"}
  BY DEF Leaves, AllKinds

(* A failed statement leaves a session.                                    *)
LEMMA FailsToType ==
  ASSUME NEW s \in Sessions, NEW kind \in AllKinds, NEW t \in FailsTo(s, kind)
  PROVE  t \in Sessions
<1>1. PICK st \in {s.state, s.state \cup Leaves(kind)} :
        t \in {[s EXCEPT !.tx = x, !.state = st] : x \in TxAfterError(s.tx, kind)}
  BY DEF FailsTo
<1>3. PICK x \in TxAfterError(s.tx, kind) : t = [s EXCEPT !.tx = x, !.state = st]
  BY <1>1
<1>2. st \in SUBSET {"session", "prepared"}
  BY <1>1, LeavesType DEF Sessions
<1>4. x \in {"I", "T", "E"}
  BY <1>3 DEF TxAfterError
<1>. QED
  BY <1>2, <1>3, <1>4 DEF Sessions

(* A successful statement leaves a session.                                *)
LEMMA SucceedsType ==
  ASSUME NEW s \in Sessions, NEW kind \in AllKinds
  PROVE  Succeeds(s, kind) \in Sessions
<1>1. TxAfterOk(s.tx, kind) \in {"I", "T", "E"}
  BY DEF TxAfterOk, Sessions, AllKinds
<1>2. s.state \cup Leaves(kind) \in SUBSET {"session", "prepared"}
  BY LeavesType DEF Sessions
<1>. QED
  BY <1>1, <1>2 DEF Succeeds, Sessions

(* apply_tx_status yields a lease.                                         *)
LEMMA ApplyTxStatusType ==
  ASSUME NEW l \in Leases, NEW rfq \in {"I", "T", "E"}
  PROVE  ApplyTxStatus(l, rfq) \in Leases
<1>1. (rfq # "I") \in BOOLEAN /\ (l.tainted \/ rfq = "E") \in BOOLEAN
  BY Zenon
<1>. QED
  BY <1>1 DEF ApplyTxStatus, Leases

(* Rule A yields a lease.                                                  *)
LEMMA RuleAType ==
  ASSUME NEW l \in Leases, NEW failed \in BOOLEAN
  PROVE  RuleA(l, failed) \in Leases
  BY DEF RuleA, Leases

(* apply_classify yields a lease.                                          *)
LEMMA ApplyClassifyType ==
  ASSUME NEW l \in Leases, NEW kind \in AllKinds
  PROVE  ApplyClassify(l, kind) \in Leases
  BY DEF ApplyClassify, Leases

(* The bookkeeping of a statement yields a lease.                          *)
LEMMA BookkeepType ==
  ASSUME NEW l \in Leases, NEW rfq \in {"I", "T", "E"}, NEW failed \in BOOLEAN,
         NEW kind \in AllKinds
  PROVE  Bookkeep(l, rfq, failed, kind) \in Leases
  BY ApplyTxStatusType, RuleAType, ApplyClassifyType DEF Bookkeep

-----------------------------------------------------------------------------
(* The inductive invariant.                                                *)

(* What a stage knows of the flags l it carries and of the session s it    *)
(* has out.  FlagsCover speaks of "held" and "ping" only; the other stages *)
(* are what carries a session from one hand-out to the next.               *)
StageInv(stage, l, s) ==
  /\ stage = "held" => Covers(l, s) /\ (s.inStep \/ l.discard)
  /\ stage \in {"ping", "rollback"} => Covers(l, s) /\ s.inStep
  /\ stage = "reset" => Covers(l, s) /\ s.inStep /\ s.tx = "I"
  /\ stage \in {"arm", "armNew"} => Pristine(s)
  /\ stage \in Handles =>
       /\ s.tx # "I" => l.txOpen
       /\ "prepared" \in s.state => l.tainted \/ Flagged(l.kind)
       /\ l.kind # "opens"

EntryInv(e, s) == Covers(e, s) /\ s.inStep

StagesKnow ==
  /\ \A i \in 1..Len(idle) : EntryInv(idle[i], server[idle[i].conn])
  /\ \A a \in Actors : pc[a] \in Leasing => StageInv(pc[a], lease[a], Session(a))

IInv == TypeOK /\ OnePlace /\ StagesKnow

(* The empty lease is a lease.                                             *)
LEMMA NoLeaseType == NoLease \in Leases /\ NoLease.conn = NoConn
  BY DEF NoLease, Leases, AllKinds

(* A freshly dialled session is a session.                                 *)
LEMMA NewSessionType == NewSession \in Sessions
  BY DEF NewSession, Sessions

(* The stages that lease a connection are stages.                          *)
LEMMA StagesType ==
  /\ Leasing \subseteq Stages
  /\ Handles \subseteq Leasing
  /\ Cleaning \subseteq Leasing
  /\ \A x \in {"out", "wait", "pop", "dial", "release", "tick"} :
       x \in Stages /\ x \notin Leasing
  /\ \A x \in {"armNew", "held", "ping", "rollback", "reset", "arm"} : x \in Leasing
  /\ Handles = {"stream", "copyIn", "copyOut"}
  /\ Cleaning = {"rollback", "reset", "arm"}
  BY DEF Leasing, Stages, Handles, Cleaning

(* Popping the idle stack leaves a stack, and its top is an entry.         *)
LEMMA PopType ==
  ASSUME TypeOK, idle # <<>>
  PROVE  Top \in Entries /\ Below \in Seq(Entries)
  BY StackPop DEF TypeOK, Top, Below

(* Every idle entry names a connection.                                    *)
LEMMA IdleTypes ==
  ASSUME TypeOK, NEW i \in 1..Len(idle)
  PROVE  idle[i] \in Entries /\ idle[i].conn \in Conns
<1>1. idle[i] \in Entries
  BY ElementOfSeq DEF TypeOK
<1>. QED
  BY <1>1 DEF Entries

(* Dropping a connection keeps the types of link and server.               *)
LEMMA ForgetType ==
  ASSUME TypeOK, NEW c, Forget(c)
  PROVE  /\ link' \in [Conns -> {"none", "up", "dying", "closed"}]
         /\ server' \in [Conns -> Sessions]
  BY NewSessionType DEF TypeOK, Forget

(* An actor at a leasing stage has a typed lease, connection and session.  *)
LEMMA LeaseTypes ==
  ASSUME IInv, NEW a \in Actors
  PROVE  /\ lease[a] \in Leases
         /\ pc[a] \in Leasing => /\ lease[a].conn \in Conns
                                 /\ Session(a) \in Sessions
                                 /\ Entry(lease[a]) \in Entries
  BY DEF IInv, TypeOK, OnePlace, Leases, Entries, Entry, Session

-----------------------------------------------------------------------------
(* Every action has one of seven effects on the connections.               *)

(* The inductive invariant holds at the start.                             *)
LEMMA InitIInv == Init => IInv
<1>. SUFFICES ASSUME Init PROVE IInv
  OBVIOUS
<1>. USE DEF Init
<1>1. TypeOK
  BY NoLeaseType, NewSessionType, StagesType, SizeAssumption DEF TypeOK
<1>2. Len(idle) = 0 /\ 1..Len(idle) = {}
  OBVIOUS
<1>3. \A a \in Actors : pc[a] = "out" /\ lease[a].conn = NoConn /\ pc[a] \notin Leasing
  BY NoLeaseType, StagesType
<1>4. OnePlace
  BY <1>2, <1>3, ConnAssumption DEF OnePlace
<1>5. StagesKnow
  BY <1>2, <1>3 DEF StagesKnow
<1>. QED
  BY <1>1, <1>4, <1>5 DEF IInv

(* An actor uses the connection it has: only its own flags and session     *)
(* change, so only what its own stage knows is at stake.                   *)
LEMMA UsesLease ==
  ASSUME IInv, NEW a \in Actors, pc[a] \in Leasing,
         NEW stage \in Leasing, NEW l \in Leases, NEW s \in Sessions,
         l.conn = lease[a].conn,
         pc' = [pc EXCEPT ![a] = stage],
         lease' = [lease EXCEPT ![a] = l],
         server' = [server EXCEPT ![lease[a].conn] = s],
         UNCHANGED <<permits, idle, budget, link>>,
         StageInv(stage, l, s)
  PROVE  IInv'
<1>1. lease[a].conn \in Conns /\ lease[a].conn # NoConn
  BY LeaseTypes, ConnAssumption
<1>2. TypeOK'
  BY StagesType DEF IInv, TypeOK
<1>3. \A b \in Actors : /\ lease'[b].conn = lease[b].conn
                        /\ pc'[b] \in Leasing <=> pc[b] \in Leasing
  BY DEF IInv, TypeOK
<1>4. OnePlace'
  BY <1>3 DEF IInv, OnePlace
<1>5. ASSUME NEW i \in 1..Len(idle)
      PROVE  EntryInv(idle[i], server[idle[i].conn])'
  <2>1. idle[i].conn # lease[a].conn
    BY DEF IInv, OnePlace
  <2>2. idle[i].conn \in Conns
    BY IdleTypes DEF IInv
  <2>3. server'[idle[i].conn] = server[idle[i].conn]
    BY <2>1, <2>2 DEF IInv, TypeOK
  <2>. QED
    BY <2>3 DEF IInv, StagesKnow, EntryInv, Covers
<1>6. ASSUME NEW b \in Actors, pc'[b] \in Leasing
      PROVE  StageInv(pc[b], lease[b], Session(b))'
  <2>1. CASE b = a
    <3>1. pc'[b] = stage /\ lease'[b] = l /\ server'[l.conn] = s
      BY <1>1, <2>1 DEF IInv, TypeOK
    <3>2. StageInv(pc'[b], lease'[b], server'[lease'[b].conn])
      BY <3>1
    <3>. QED
      BY <3>2 DEF StageInv, Session, Covers, Pristine
  <2>2. CASE b # a
    <3>1. pc'[b] = pc[b] /\ lease'[b] = lease[b] /\ pc[b] \in Leasing
      BY <1>6, <2>2 DEF IInv, TypeOK
    <3>2. lease[b].conn # lease[a].conn /\ lease[b].conn \in Conns
      BY <1>1, <2>2, <3>1, LeaseTypes DEF IInv, OnePlace
    <3>3. server'[lease[b].conn] = server[lease[b].conn]
      BY <3>2 DEF IInv, TypeOK
    <3>4. StageInv(pc[b], lease[b], Session(b))
      BY <3>1 DEF IInv, StagesKnow
    <3>. QED
      BY <3>1, <3>3, <3>4 DEF StageInv, Session, Covers, Pristine
  <2>. QED
    BY <2>1, <2>2
<1>7. StagesKnow'
  BY <1>5, <1>6 DEF StagesKnow
<1>. QED
  BY <1>2, <1>4, <1>7 DEF IInv

(* An actor without a connection moves on, still without one.              *)
LEMMA MovesWithout ==
  ASSUME IInv, NEW a \in Actors, pc[a] \notin Leasing,
         NEW stage \in Stages \ Leasing, NEW l \in Leases, l.conn = NoConn,
         pc' = [pc EXCEPT ![a] = stage],
         lease' = [lease EXCEPT ![a] = l],
         permits' \in Nat, budget' \in Nat,
         UNCHANGED <<idle, link, server>>
  PROVE  IInv'
<1>1. TypeOK'
  BY DEF IInv, TypeOK
<1>2. \A b \in Actors : /\ lease'[b].conn = lease[b].conn
                        /\ pc'[b] \in Leasing <=> pc[b] \in Leasing
  BY DEF IInv, TypeOK, OnePlace
<1>3. OnePlace'
  BY <1>2 DEF IInv, OnePlace
<1>4. ASSUME NEW b \in Actors, pc'[b] \in Leasing
      PROVE  StageInv(pc[b], lease[b], Session(b))'
  <2>1. pc'[b] = pc[b] /\ lease'[b] = lease[b] /\ pc[b] \in Leasing
    BY <1>4 DEF IInv, TypeOK
  <2>2. StageInv(pc[b], lease[b], Session(b))
    BY <2>1 DEF IInv, StagesKnow
  <2>. QED
    BY <2>1, <2>2 DEF StageInv, Session, Covers, Pristine
<1>5. StagesKnow'
  BY <1>4 DEF IInv, StagesKnow, EntryInv, Covers
<1>. QED
  BY <1>1, <1>3, <1>5 DEF IInv

(* The top of the stack goes to an actor that has no connection.           *)
LEMMA PopsTop ==
  ASSUME IInv, idle # <<>>, NEW a \in Actors, pc[a] \notin Leasing,
         NEW stage \in Leasing,
         pc' = [pc EXCEPT ![a] = stage],
         lease' = [lease EXCEPT ![a] = Taken(@, Top)],
         idle' = Below,
         permits' \in Nat, budget' \in Nat,
         UNCHANGED <<link, server>>,
         EntryInv(Top, server[Top.conn]) => StageInv(stage, Taken(lease[a], Top), server[Top.conn])
  PROVE  IInv'
<1>. DEFINE n == Len(idle)
<1>1. /\ n \in Nat \ {0}
      /\ Top \in Entries /\ Top = idle[n]
      /\ Len(idle') = n - 1
      /\ \A i \in 1..(n - 1) : idle'[i] = idle[i]
      /\ idle' \in Seq(Entries)
  BY StackPop DEF Top, Below, IInv, TypeOK
<1>. HIDE DEF n
<1>2. Taken(lease[a], Top) \in Leases /\ Taken(lease[a], Top).conn = Top.conn
  BY <1>1, LeaseTypes DEF Taken, Leases, Entries
<1>3. Top.conn \in Conns /\ Top.conn # NoConn
  BY <1>1, ConnAssumption DEF Entries
<1>4. TypeOK'
  BY <1>1, <1>2, StagesType DEF IInv, TypeOK
<1>5. /\ lease'[a].conn = idle[n].conn
      /\ pc'[a] \in Leasing
      /\ \A b \in Actors \ {a} : lease'[b] = lease[b] /\ pc'[b] = pc[b]
  BY <1>1, <1>2 DEF IInv, TypeOK
<1>6. lease[a].conn = NoConn
  BY DEF IInv, OnePlace
<1>7. /\ n = Len(idle)
      /\ \A i, j \in 1..n : i # j => idle[i].conn # idle[j].conn
      /\ \A i \in 1..n, b \in Actors : idle[i].conn # lease[b].conn
  BY DEF IInv, OnePlace, n
<1>8. OnePlace'
  <2>1. \A b \in Actors : (lease'[b].conn # NoConn) <=> (pc'[b] \in Leasing)
    BY <1>3, <1>1, <1>5 DEF IInv, OnePlace
  <2>2. \A b, d \in Actors :
          b # d /\ lease'[b].conn # NoConn => lease'[b].conn # lease'[d].conn
    BY <1>1, <1>5, <1>7 DEF IInv, OnePlace
  <2>3. ASSUME NEW i \in 1..Len(idle'), NEW j \in 1..Len(idle'), i # j
        PROVE  idle'[i].conn # idle'[j].conn
    <3>1. i \in 1..(n - 1) /\ j \in 1..(n - 1) /\ i \in 1..n /\ j \in 1..n
      BY <1>1
    <3>2. idle'[i] = idle[i] /\ idle'[j] = idle[j]
      BY <1>1, <3>1
    <3>. QED
      BY <1>7, <2>3, <3>1, <3>2
  <2>4. \A i \in 1..Len(idle'), b \in Actors : idle'[i].conn # lease'[b].conn
    BY <1>1, <1>5, <1>7
  <2>5. ASSUME NEW c \in Conns
        PROVE  link'[c] # "none" <=> \/ \E i \in 1..Len(idle') : idle'[i].conn = c
                                     \/ \E b \in Actors : lease'[b].conn = c
    <3>1. link[c] # "none" <=> \/ \E i \in 1..n : idle[i].conn = c
                               \/ \E b \in Actors : lease[b].conn = c
      BY <1>7 DEF IInv, OnePlace
    <3>2. (\E i \in 1..n : idle[i].conn = c) <=>
            (\E i \in 1..(n - 1) : idle[i].conn = c) \/ idle[n].conn = c
      BY <1>1
    <3>3. (\E i \in 1..(n - 1) : idle[i].conn = c) <=>
            (\E i \in 1..Len(idle') : idle'[i].conn = c)
      BY <1>1
    <3>4. (\E b \in Actors : lease'[b].conn = c) <=>
            (\E b \in Actors : lease[b].conn = c) \/ idle[n].conn = c
      BY <1>3, <1>5, <1>6, ConnAssumption
    <3>. QED
      BY <3>1, <3>2, <3>3, <3>4
  <2>. QED
    BY <2>1, <2>2, <2>3, <2>4, <2>5 DEF OnePlace
<1>9. ASSUME NEW i \in 1..Len(idle')
      PROVE  EntryInv(idle[i], server[idle[i].conn])'
  <2>1. i \in 1..Len(idle) /\ idle'[i] = idle[i]
    BY <1>1, <1>7
  <2>2. EntryInv(idle[i], server[idle[i].conn])
    BY <2>1 DEF IInv, StagesKnow
  <2>. QED
    BY <2>1, <2>2 DEF EntryInv, Covers
<1>10. ASSUME NEW b \in Actors, pc'[b] \in Leasing
       PROVE  StageInv(pc[b], lease[b], Session(b))'
  <2>1. CASE b = a
    <3>1. EntryInv(Top, server[Top.conn])
      BY <1>1, <1>7 DEF IInv, StagesKnow
    <3>2. StageInv(stage, Taken(lease[a], Top), server[Top.conn])
      BY <3>1
    <3>3. pc'[b] = stage /\ lease'[b] = Taken(lease[a], Top)
      BY <2>1 DEF IInv, TypeOK
    <3>. QED
      BY <1>2, <3>2, <3>3 DEF StageInv, Session, Covers, Pristine
  <2>2. CASE b # a
    <3>1. pc'[b] = pc[b] /\ lease'[b] = lease[b] /\ pc[b] \in Leasing
      BY <1>5, <1>10, <2>2
    <3>2. StageInv(pc[b], lease[b], Session(b))
      BY <3>1 DEF IInv, StagesKnow
    <3>. QED
      BY <3>1, <3>2 DEF StageInv, Session, Covers, Pristine
  <2>. QED
    BY <2>1, <2>2
<1>11. StagesKnow'
  BY <1>9, <1>10 DEF StagesKnow
<1>. QED
  BY <1>4, <1>8, <1>11 DEF IInv

(* An actor pushes the connection it has, under flags e that cover it.     *)
LEMMA PushesLease ==
  ASSUME IInv, NEW a \in Actors, pc[a] \in Leasing,
         NEW stage \in Stages \ Leasing, NEW e \in Entries, NEW s \in Sessions,
         e.conn = lease[a].conn,
         pc' = [pc EXCEPT ![a] = stage],
         lease' = [lease EXCEPT ![a] = NoLease],
         idle' = Append(idle, e),
         server' = [server EXCEPT ![lease[a].conn] = s],
         UNCHANGED <<permits, budget, link>>,
         EntryInv(e, s)
  PROVE  IInv'
<1>. DEFINE n == Len(idle)
<1>1. /\ n \in Nat
      /\ Len(idle') = n + 1
      /\ idle'[n + 1] = e
      /\ \A i \in 1..n : idle'[i] = idle[i]
      /\ idle' \in Seq(Entries)
  BY StackPush DEF IInv, TypeOK
<1>. HIDE DEF n
<1>2. lease[a].conn \in Conns /\ lease[a].conn # NoConn
  BY LeaseTypes, ConnAssumption
<1>3. TypeOK'
  BY <1>1, NoLeaseType DEF IInv, TypeOK
<1>4. /\ lease'[a].conn = NoConn
      /\ pc'[a] \notin Leasing
      /\ \A b \in Actors \ {a} : lease'[b] = lease[b] /\ pc'[b] = pc[b]
  BY NoLeaseType DEF IInv, TypeOK
<1>5. /\ n = Len(idle)
      /\ \A i, j \in 1..n : i # j => idle[i].conn # idle[j].conn
      /\ \A i \in 1..n, b \in Actors : idle[i].conn # lease[b].conn
      /\ \A b \in Actors \ {a} : lease[b].conn # lease[a].conn
  BY <1>2 DEF IInv, OnePlace, n
<1>6. \A i \in 1..Len(idle') : (i \in 1..n /\ idle'[i] = idle[i]) \/ (i = n + 1 /\ idle'[i] = e)
  BY <1>1
<1>7. OnePlace'
  <2>1. \A b \in Actors : (lease'[b].conn # NoConn) <=> (pc'[b] \in Leasing)
    BY <1>4 DEF IInv, OnePlace
  <2>2. \A b, d \in Actors :
          b # d /\ lease'[b].conn # NoConn => lease'[b].conn # lease'[d].conn
    BY <1>4 DEF IInv, OnePlace
  <2>3. ASSUME NEW i \in 1..Len(idle'), NEW j \in 1..Len(idle'), i # j
        PROVE  idle'[i].conn # idle'[j].conn
    BY <1>5, <1>6, <2>3
  <2>4. ASSUME NEW i \in 1..Len(idle'), NEW b \in Actors
        PROVE  idle'[i].conn # lease'[b].conn
    <3>1. CASE b = a
      <4>0. idle'[i] \in Entries
        BY <1>1, ElementOfSeq
      <4>1. idle'[i].conn \in Conns
        BY <4>0 DEF Entries
      <4>. QED
        BY <1>4, <3>1, <4>1, ConnAssumption
    <3>2. CASE b # a
      BY <1>4, <1>5, <1>6, <3>2
    <3>. QED
      BY <3>1, <3>2
  <2>5. ASSUME NEW c \in Conns
        PROVE  link'[c] # "none" <=> \/ \E i \in 1..Len(idle') : idle'[i].conn = c
                                     \/ \E b \in Actors : lease'[b].conn = c
    <3>1. link[c] # "none" <=> \/ \E i \in 1..n : idle[i].conn = c
                               \/ \E b \in Actors : lease[b].conn = c
      BY <1>5 DEF IInv, OnePlace
    <3>2. (\E i \in 1..Len(idle') : idle'[i].conn = c) <=>
            (\E i \in 1..n : idle[i].conn = c) \/ lease[a].conn = c
      <4>1. \A i \in 1..n : i \in 1..Len(idle')
        BY <1>1
      <4>2. n + 1 \in 1..Len(idle')
        BY <1>1
      <4>. QED
        BY <1>1, <1>6, <4>1, <4>2
    <3>3. (\E b \in Actors : lease[b].conn = c) <=>
            (\E b \in Actors : lease'[b].conn = c) \/ lease[a].conn = c
      BY <1>4, ConnAssumption
    <3>. QED
      BY <3>1, <3>2, <3>3
  <2>. QED
    BY <2>1, <2>2, <2>3, <2>4, <2>5 DEF OnePlace
<1>8. \A c \in Conns \ {lease[a].conn} : server'[c] = server[c]
  BY DEF IInv, TypeOK
<1>9. ASSUME NEW i \in 1..Len(idle')
      PROVE  EntryInv(idle[i], server[idle[i].conn])'
  <2>1. CASE i \in 1..n /\ idle'[i] = idle[i]
    <3>1. idle[i].conn \in Conns \ {lease[a].conn}
      BY <1>5, <2>1, IdleTypes DEF IInv
    <3>2. EntryInv(idle[i], server[idle[i].conn])
      BY <1>5, <2>1 DEF IInv, StagesKnow
    <3>. QED
      BY <1>8, <2>1, <3>1, <3>2 DEF EntryInv, Covers
  <2>2. CASE i = n + 1 /\ idle'[i] = e
    <3>1. server'[e.conn] = s
      BY <1>2 DEF IInv, TypeOK
    <3>. QED
      BY <2>2, <3>1 DEF EntryInv, Covers
  <2>. QED
    BY <1>6, <2>1, <2>2
<1>10. ASSUME NEW b \in Actors, pc'[b] \in Leasing
       PROVE  StageInv(pc[b], lease[b], Session(b))'
  <2>1. b # a /\ pc'[b] = pc[b] /\ lease'[b] = lease[b] /\ pc[b] \in Leasing
    BY <1>4, <1>10
  <2>2. lease[b].conn \in Conns \ {lease[a].conn}
    BY <1>5, <2>1, LeaseTypes
  <2>3. StageInv(pc[b], lease[b], Session(b))
    BY <2>1 DEF IInv, StagesKnow
  <2>. QED
    BY <1>8, <2>1, <2>2, <2>3 DEF StageInv, Session, Covers, Pristine
<1>11. StagesKnow'
  BY <1>9, <1>10 DEF StagesKnow
<1>. QED
  BY <1>3, <1>7, <1>11 DEF IInv

(* An actor drops the connection it has.                                   *)
LEMMA ForgetsLease ==
  ASSUME IInv, NEW a \in Actors, pc[a] \in Leasing,
         NEW stage \in Stages \ Leasing, NEW l \in Leases, l.conn = NoConn,
         pc' = [pc EXCEPT ![a] = stage],
         lease' = [lease EXCEPT ![a] = l],
         Forget(lease[a].conn),
         permits' \in Nat, budget' \in Nat, idle' = idle
  PROVE  IInv'
<1>1. lease[a].conn \in Conns /\ lease[a].conn # NoConn
  BY LeaseTypes, ConnAssumption
<1>2. TypeOK'
  BY ForgetType DEF IInv, TypeOK
<1>3. /\ lease'[a].conn = NoConn
      /\ pc'[a] \notin Leasing
      /\ \A b \in Actors \ {a} : lease'[b] = lease[b] /\ pc'[b] = pc[b]
  BY DEF IInv, TypeOK
<1>4. /\ \A i \in 1..Len(idle) : idle[i].conn # lease[a].conn
      /\ \A b \in Actors \ {a} : lease[b].conn # lease[a].conn
      /\ \A i \in 1..Len(idle) : idle[i].conn \in Conns
  BY <1>1, IdleTypes DEF IInv, OnePlace
<1>5. /\ link'[lease[a].conn] = "none"
      /\ \A c \in Conns \ {lease[a].conn} : link'[c] = link[c] /\ server'[c] = server[c]
  BY <1>1 DEF IInv, TypeOK, Forget
<1>6. OnePlace'
  <2>1. ASSUME NEW c \in Conns
        PROVE  link'[c] # "none" <=> \/ \E i \in 1..Len(idle) : idle[i].conn = c
                                     \/ \E b \in Actors : lease'[b].conn = c
    <3>1. CASE c = lease[a].conn
      BY <1>1, <1>3, <1>4, <1>5, <3>1
    <3>2. CASE c # lease[a].conn
      <4>1. (\E b \in Actors : lease[b].conn = c) <=> (\E b \in Actors : lease'[b].conn = c)
        BY <1>3, <3>2, ConnAssumption
      <4>. QED
        BY <1>5, <3>2, <4>1 DEF IInv, OnePlace
    <3>. QED
      BY <3>1, <3>2
  <2>2. \A b \in Actors : (lease'[b].conn # NoConn) <=> (pc'[b] \in Leasing)
    BY <1>3 DEF IInv, OnePlace
  <2>3. \A b, d \in Actors :
          b # d /\ lease'[b].conn # NoConn => lease'[b].conn # lease'[d].conn
    BY <1>3 DEF IInv, OnePlace
  <2>4. \A i \in 1..Len(idle), b \in Actors : idle[i].conn # lease'[b].conn
    BY <1>3, <1>4, ConnAssumption DEF IInv, OnePlace
  <2>5. \A i, j \in 1..Len(idle) : i # j => idle[i].conn # idle[j].conn
    BY DEF IInv, OnePlace
  <2>. QED
    BY <2>1, <2>2, <2>3, <2>4, <2>5 DEF OnePlace
<1>7. ASSUME NEW i \in 1..Len(idle)
      PROVE  EntryInv(idle[i], server[idle[i].conn])'
  <2>1. EntryInv(idle[i], server[idle[i].conn])
    BY DEF IInv, StagesKnow
  <2>2. server'[idle[i].conn] = server[idle[i].conn]
    BY <1>4, <1>5
  <2>. QED
    BY <2>1, <2>2 DEF EntryInv, Covers
<1>8. ASSUME NEW b \in Actors, pc'[b] \in Leasing
      PROVE  StageInv(pc[b], lease[b], Session(b))'
  <2>1. b # a /\ pc'[b] = pc[b] /\ lease'[b] = lease[b] /\ pc[b] \in Leasing
    BY <1>3, <1>8
  <2>2. lease[b].conn \in Conns \ {lease[a].conn}
    BY <1>4, <2>1, LeaseTypes
  <2>3. StageInv(pc[b], lease[b], Session(b))
    BY <2>1 DEF IInv, StagesKnow
  <2>. QED
    BY <1>5, <2>1, <2>2, <2>3 DEF StageInv, Session, Covers, Pristine
<1>9. StagesKnow'
  BY <1>7, <1>8 DEF StagesKnow
<1>. QED
  BY <1>2, <1>6, <1>9 DEF IInv

(* The top of the stack is dropped.                                        *)
LEMMA EvictsTop ==
  ASSUME IInv, idle # <<>>, idle' = Below, Forget(Top.conn),
         UNCHANGED <<permits, pc, lease, budget>>
  PROVE  IInv'
<1>. DEFINE n == Len(idle)
            c0 == idle[n].conn
<1>1. /\ n \in Nat \ {0}
      /\ idle[n] \in Entries /\ Top = idle[n]
      /\ Len(idle') = n - 1
      /\ \A i \in 1..(n - 1) : idle'[i] = idle[i]
      /\ idle' \in Seq(Entries)
  BY StackPop DEF Top, Below, IInv, TypeOK
<1>2. c0 \in Conns /\ c0 = Top.conn
  BY <1>1 DEF Entries
<1>3. TypeOK'
  BY <1>1, ForgetType DEF IInv, TypeOK
<1>4. /\ n = Len(idle)
      /\ \A i, j \in 1..n : i # j => idle[i].conn # idle[j].conn
      /\ \A i \in 1..n, b \in Actors : idle[i].conn # lease[b].conn
      /\ \A i \in 1..n : idle[i].conn \in Conns
      /\ \A b \in Actors : lease[b].conn # c0
  BY <1>1, IdleTypes DEF IInv, OnePlace
<1>5. /\ link'[c0] = "none"
      /\ \A c \in Conns \ {c0} : link'[c] = link[c] /\ server'[c] = server[c]
  BY <1>2 DEF IInv, TypeOK, Forget
<1>. HIDE DEF n, c0
<1>6. \A i \in 1..Len(idle') : /\ i \in 1..n /\ i # n /\ idle'[i] = idle[i]
                               /\ i \in 1..(n - 1)
  BY <1>1
<1>7. \A i \in 1..(n - 1) : idle[i].conn # c0
  BY <1>1, <1>4 DEF c0
<1>8. OnePlace'
  <2>1. ASSUME NEW c \in Conns
        PROVE  link'[c] # "none" <=> \/ \E i \in 1..Len(idle') : idle'[i].conn = c
                                     \/ \E b \in Actors : lease[b].conn = c
    <3>1. CASE c = c0
      BY <1>4, <1>5, <1>6, <1>7, <3>1
    <3>2. CASE c # c0
      <4>1. (\E i \in 1..n : idle[i].conn = c) <=> (\E i \in 1..(n - 1) : idle[i].conn = c)
        BY <1>1, <3>2 DEF c0
      <4>2. (\E i \in 1..(n - 1) : idle[i].conn = c) <=>
              (\E i \in 1..Len(idle') : idle'[i].conn = c)
        BY <1>1
      <4>. QED
        BY <1>4, <1>5, <3>2, <4>1, <4>2 DEF IInv, OnePlace
    <3>. QED
      BY <3>1, <3>2
  <2>2. \A i \in 1..Len(idle'), b \in Actors : idle'[i].conn # lease[b].conn
    BY <1>4, <1>6
  <2>3. ASSUME NEW i \in 1..Len(idle'), NEW j \in 1..Len(idle'), i # j
        PROVE  idle'[i].conn # idle'[j].conn
    BY <1>4, <1>6, <2>3
  <2>. QED
    BY <2>1, <2>2, <2>3 DEF IInv, OnePlace
<1>9. ASSUME NEW i \in 1..Len(idle')
      PROVE  EntryInv(idle[i], server[idle[i].conn])'
  <2>1. EntryInv(idle[i], server[idle[i].conn])
    BY <1>4, <1>6 DEF IInv, StagesKnow
  <2>2. server'[idle[i].conn] = server[idle[i].conn] /\ idle'[i] = idle[i]
    BY <1>4, <1>5, <1>6, <1>7
  <2>. QED
    BY <2>1, <2>2 DEF EntryInv, Covers
<1>10. ASSUME NEW b \in Actors, pc[b] \in Leasing
       PROVE  StageInv(pc[b], lease[b], Session(b))'
  <2>1. lease[b].conn \in Conns \ {c0}
    BY <1>4, <1>10, LeaseTypes
  <2>2. StageInv(pc[b], lease[b], Session(b))
    BY <1>10 DEF IInv, StagesKnow
  <2>. QED
    BY <1>5, <2>1, <2>2 DEF StageInv, Session, Covers, Pristine
<1>11. StagesKnow'
  BY <1>9, <1>10 DEF StagesKnow
<1>. QED
  BY <1>3, <1>8, <1>11 DEF IInv

(* A fresh session goes to the actor that dialled it.                      *)
LEMMA DialsFresh ==
  ASSUME IInv, NEW k \in Clients, NEW c \in Conns, Dial(k, c)
  PROVE  IInv'
<1>1. k \in Actors /\ pc[k] \notin Leasing /\ pc[k] # "out"
  BY StagesType DEF Actors, Dial
<1>2. lease[k].conn = NoConn
  BY <1>1 DEF IInv, OnePlace
<1>3. /\ \A b \in Actors : lease[b].conn # c
      /\ \A i \in 1..Len(idle) : idle[i].conn # c
      /\ \A i \in 1..Len(idle) : idle[i].conn \in Conns
  BY IdleTypes DEF Dial, IInv, OnePlace
<1>4. /\ lease'[k].conn = c
      /\ pc'[k] = "armNew"
      /\ \A b \in Actors \ {k} : lease'[b] = lease[b] /\ pc'[b] = pc[b]
      /\ link'[c] # "none" /\ server'[c] = NewSession
      /\ \A d \in Conns \ {c} : link'[d] = link[d] /\ server'[d] = server[d]
      /\ idle' = idle
  BY <1>1, LeaseTypes DEF IInv, TypeOK, Dial, Goto, poolVars, Leases
<1>5. TypeOK'
  BY <1>1, LeaseTypes, NewSessionType, StagesType
     DEF IInv, TypeOK, Dial, Goto, poolVars, Leases
<1>6. OnePlace'
  <2>1. ASSUME NEW d \in Conns
        PROVE  link'[d] # "none" <=> \/ \E i \in 1..Len(idle) : idle[i].conn = d
                                     \/ \E b \in Actors : lease'[b].conn = d
    <3>1. CASE d = c
      BY <1>1, <1>4, <3>1
    <3>2. CASE d # c
      <4>1. (\E b \in Actors : lease[b].conn = d) <=> (\E b \in Actors : lease'[b].conn = d)
        BY <1>2, <1>4, <3>2, ConnAssumption
      <4>. QED
        BY <1>4, <3>2, <4>1 DEF IInv, OnePlace
    <3>. QED
      BY <3>1, <3>2
  <2>2. \A b \in Actors : (lease'[b].conn # NoConn) <=> (pc'[b] \in Leasing)
    BY <1>4, StagesType, ConnAssumption DEF IInv, OnePlace
  <2>3. \A b, d \in Actors :
          b # d /\ lease'[b].conn # NoConn => lease'[b].conn # lease'[d].conn
    BY <1>3, <1>4 DEF IInv, OnePlace
  <2>4. \A i \in 1..Len(idle), b \in Actors : idle[i].conn # lease'[b].conn
    BY <1>3, <1>4 DEF IInv, OnePlace
  <2>5. \A i, j \in 1..Len(idle) : i # j => idle[i].conn # idle[j].conn
    BY DEF IInv, OnePlace
  <2>. QED
    BY <1>4, <2>1, <2>2, <2>3, <2>4, <2>5 DEF OnePlace
<1>7. ASSUME NEW i \in 1..Len(idle)
      PROVE  EntryInv(idle[i], server[idle[i].conn])'
  <2>1. EntryInv(idle[i], server[idle[i].conn])
    BY DEF IInv, StagesKnow
  <2>. QED
    BY <1>3, <1>4, <2>1 DEF EntryInv, Covers
<1>8. ASSUME NEW b \in Actors, pc'[b] \in Leasing
      PROVE  StageInv(pc[b], lease[b], Session(b))'
  <2>1. CASE b = k
    BY <1>4, <2>1 DEF StageInv, Session, Pristine, NewSession, Handles
  <2>2. CASE b # k
    <3>1. pc'[b] = pc[b] /\ lease'[b] = lease[b] /\ pc[b] \in Leasing
      BY <1>4, <1>8, <2>2
    <3>2. lease[b].conn \in Conns \ {c}
      BY <1>3, <3>1, LeaseTypes
    <3>3. StageInv(pc[b], lease[b], Session(b))
      BY <3>1 DEF IInv, StagesKnow
    <3>. QED
      BY <1>4, <3>1, <3>2, <3>3 DEF StageInv, Session, Covers, Pristine
  <2>. QED
    BY <2>1, <2>2
<1>9. StagesKnow'
  BY <1>4, <1>7, <1>8 DEF StagesKnow
<1>. QED
  BY <1>5, <1>6, <1>9 DEF IInv

-----------------------------------------------------------------------------
(* What the bookkeeping keeps true.                                        *)

(* b is lease l after the bookkeeping of one statement.                    *)
Booked(b, l, rfq, failed, kind) ==
  /\ b \in Leases
  /\ b.conn = l.conn
  /\ b.discard = l.discard
  /\ b.txOpen <=> (rfq # "I" \/ failed)
  /\ b.tainted <=> (l.tainted \/ rfq = "E" \/ failed \/ Flagged(kind))

(* Which flags the bookkeeping sets, field by field.                       *)
LEMMA BookkeepFields ==
  ASSUME NEW l \in Leases, NEW rfq \in {"I", "T", "E"}, NEW failed \in BOOLEAN,
         NEW kind \in AllKinds
  PROVE  Booked(Bookkeep(l, rfq, failed, kind), l, rfq, failed, kind)
<1>. DEFINE b == Bookkeep(l, rfq, failed, kind)
<1>1. /\ b.conn = l.conn
      /\ b.discard = l.discard
      /\ b.txOpen <=> (rfq # "I" \/ failed)
      /\ b.tainted <=> (l.tainted \/ rfq = "E" \/ failed \/ Flagged(kind))
  BY DEF Bookkeep, ApplyClassify, RuleA, ApplyTxStatus, Leases
<1>2. b \in Leases
  BY BookkeepType
<1>. QED
  BY <1>1, <1>2 DEF Booked

(* What a successful statement does to its session, field by field.        *)
LEMMA SucceedsFields ==
  ASSUME NEW s \in Sessions, NEW kind \in AllKinds
  PROVE  /\ Succeeds(s, kind) \in Sessions
         /\ Succeeds(s, kind).tx = TxAfterOk(s.tx, kind)
         /\ Succeeds(s, kind).rfq = TxAfterOk(s.tx, kind)
         /\ Succeeds(s, kind).state = s.state \cup Leaves(kind)
         /\ Succeeds(s, kind).inStep = s.inStep
         /\ TxAfterOk(s.tx, kind) \in {"I", "T", "E"}
<1>1. TxAfterOk(s.tx, kind) \in {"I", "T", "E"}
  BY DEF TxAfterOk, Sessions, AllKinds
<1>. QED
  BY <1>1, SucceedsType DEF Succeeds, Sessions

(* After a success the flags still admit to all the session holds.         *)
LEMMA SucceedsCovered ==
  ASSUME NEW l \in Leases, NEW s \in Sessions, NEW kind \in AllKinds,
         StageInv("held", l, s), NEW t, t = Succeeds(s, kind),
         NEW b, Booked(b, l, t.rfq, FALSE, kind)
  PROVE  StageInv("held", b, t)
<1>1. "prepared" \in Leaves(kind) => Flagged(kind)
  BY DEF Leaves, Flagged, AllKinds
<1>2. t.tx = t.rfq /\ t.state = s.state \cup Leaves(kind) /\ t.inStep = s.inStep
  BY SucceedsFields
<1>. QED
  BY <1>1, <1>2 DEF StageInv, Covers, Handles, Booked

(* What a failed statement does to its session, field by field.            *)
LEMMA FailureFields ==
  ASSUME NEW s \in Sessions, NEW kind \in AllKinds, NEW t \in FailsTo(s, kind)
  PROVE  /\ t \in Sessions
         /\ t.inStep = s.inStep
         /\ t.tx # "I" /\ s.tx = "I" => kind = "opens"
         /\ t.rfq = s.rfq
         /\ t.state \in {s.state, s.state \cup Leaves(kind)}
<1>1. PICK st \in {s.state, s.state \cup Leaves(kind)} :
        t \in {[s EXCEPT !.tx = x, !.state = st] : x \in TxAfterError(s.tx, kind)}
  BY DEF FailsTo
<1>2. PICK x \in TxAfterError(s.tx, kind) : t = [s EXCEPT !.tx = x, !.state = st]
  BY <1>1
<1>. QED
  BY <1>2, FailsToType DEF Sessions, TxAfterError

(* After a failure Rule A admits to everything.                            *)
LEMMA FailureCovered ==
  ASSUME NEW l \in Leases, NEW t \in Sessions, t.inStep \/ l.discard,
         NEW rfq, NEW kind, NEW b, Booked(b, l, rfq, TRUE, kind)
  PROVE  StageInv("held", b, t)
  BY DEF StageInv, Covers, Handles, Booked

(* A caller's statement, its outcome covered by the bookkeeping.           *)
LEMMA Runs ==
  ASSUME IInv, NEW k \in Clients, pc[k] = "held", NEW s \in Sessions,
         NEW l \in Leases, l.conn = lease[k].conn, StageInv("held", l, s),
         server' = [server EXCEPT ![lease[k].conn] = s],
         lease' = [lease EXCEPT ![k] = l],
         UNCHANGED <<poolVars, pc, link>>
  PROVE  IInv'
<1>1. k \in Actors /\ pc[k] \in Leasing
  BY StagesType DEF Actors
<1>2. pc' = [pc EXCEPT ![k] = "held"]
  BY <1>1 DEF IInv, TypeOK
<1>3. UNCHANGED <<permits, idle, budget, link>>
  BY DEF poolVars
<1>. QED
  BY <1>1, <1>2, <1>3, UsesLease, StagesType

(* What the invariant says of a connection in a caller's hands.            *)
LEMMA HeldFacts ==
  ASSUME IInv, NEW k \in Clients, pc[k] = "held"
  PROVE  /\ k \in Actors /\ pc[k] \in Leasing
         /\ lease[k] \in Leases /\ lease[k].conn \in Conns
         /\ Session(k) \in Sessions /\ Session(k) = server[lease[k].conn]
         /\ Session(k).rfq \in {"I", "T", "E"}
         /\ StageInv("held", lease[k], Session(k))
         /\ Covers(lease[k], Session(k))
         /\ Session(k).inStep \/ lease[k].discard
<1>1. k \in Actors /\ pc[k] \in Leasing
  BY StagesType DEF Actors
<1>2. StageInv("held", lease[k], Session(k))
  BY <1>1 DEF IInv, StagesKnow
<1>3. Session(k) \in Sessions /\ lease[k] \in Leases /\ lease[k].conn \in Conns
  BY <1>1, LeaseTypes
<1>. QED
  <2>1. Covers(lease[k], Session(k)) /\ (Session(k).inStep \/ lease[k].discard)
    BY <1>2 DEF StageInv
  <2>2. Session(k).rfq \in {"I", "T", "E"}
    BY <1>3 DEF Sessions
  <2>3. Session(k) = server[lease[k].conn]
    BY DEF Session
  <2>. QED
    BY <1>1, <1>2, <1>3, <2>1, <2>2, <2>3

(* A statement of a caller that failed, after it may have changed flags    *)
(* that Rule A then overrides.                                             *)
LEMMA FailsCovered ==
  ASSUME IInv, NEW k \in Clients, pc[k] = "held", NEW kind \in AllKinds,
         NEW kind2 \in AllKinds, NEW s \in FailsTo(Session(k), kind),
         Ran(k, s, TRUE, kind2), UNCHANGED <<poolVars, pc, link>>
  PROVE  IInv'
<1>1. s \in Sessions /\ s.inStep = Session(k).inStep /\ s.rfq \in {"I", "T", "E"}
  BY HeldFacts, FailureFields
<1>. DEFINE l == Bookkeep(lease[k], s.rfq, TRUE, kind2)
<1>2. Booked(l, lease[k], s.rfq, TRUE, kind2)
  BY <1>1, HeldFacts, BookkeepFields
<1>. HIDE DEF l
<1>3. l \in Leases /\ l.conn = lease[k].conn /\ StageInv("held", l, s)
  BY <1>1, <1>2, HeldFacts, FailureCovered DEF Booked
<1>4. /\ server' = [server EXCEPT ![lease[k].conn] = s]
      /\ lease' = [lease EXCEPT ![k] = l]
  BY DEF Ran, l
<1>. QED
  BY <1>1, <1>3, <1>4, Runs

-----------------------------------------------------------------------------
(* Every action preserves the invariant.                                   *)

(* Every step of a checkout keeps the invariant.                           *)
LEMMA CheckoutStepIInv ==
  ASSUME IInv, NEW k \in Clients, CheckoutStep(k) \/ AbandonCheckout(k)
  PROVE  IInv'
<1>. USE StagesType
<1>1. k \in Actors /\ lease[k] \in Leases /\ permits \in Nat /\ budget \in Nat
  BY LeaseTypes DEF Actors, IInv, TypeOK
<1>2. pc[k] \notin Leasing => lease[k].conn = NoConn
  BY <1>1 DEF IInv, OnePlace
<1>3. CASE Acquire(k)
  <2>1. permits' \in Nat
    BY <1>1, <1>3 DEF Acquire
  <2>2. lease' = [lease EXCEPT ![k] = lease[k]]
    BY <1>1, <1>3 DEF Acquire, IInv, TypeOK
  <2>. QED
    BY <1>1, <1>2, <1>3, <2>1, <2>2, MovesWithout DEF Acquire, Goto
<1>4. CASE AcquireTimeout(k)
  BY <1>1, <1>4, NoLeaseType, MovesWithout DEF AcquireTimeout, Goto
<1>5. CASE PopNone(k)
  <2>1. lease' = [lease EXCEPT ![k] = lease[k]]
    BY <1>1, <1>5 DEF PopNone, IInv, TypeOK
  <2>. QED
    BY <1>1, <1>2, <1>5, <2>1, MovesWithout DEF PopNone, Goto, poolVars
<1>6. CASE PopEvict(k)
  BY <1>6, EvictsTop DEF PopEvict
<1>7. CASE PopUsable(k)
  <2>. DEFINE stage == IF Top.txOpen THEN "rollback" ELSE "reset"
  <2>1. Top \in Entries
    BY <1>7, PopType DEF PopUsable, IInv
  <2>2. /\ Taken(lease[k], Top).txOpen = Top.txOpen
        /\ Taken(lease[k], Top).tainted = Top.tainted
    BY <1>1, <2>1 DEF Taken, Leases, Entries
  <2>3. EntryInv(Top, server[Top.conn]) =>
          StageInv(stage, Taken(lease[k], Top), server[Top.conn])
    BY <2>2 DEF EntryInv, StageInv, Covers
  <2>4. /\ idle # <<>> /\ pc[k] \notin Leasing
        /\ stage \in Leasing
        /\ pc' = [pc EXCEPT ![k] = stage]
        /\ lease' = [lease EXCEPT ![k] = Taken(@, Top)]
        /\ idle' = Below
        /\ permits' \in Nat /\ budget' \in Nat /\ UNCHANGED <<link, server>>
    BY <1>1, <1>7 DEF PopUsable, Goto
  <2>. HIDE DEF stage
  <2>. QED
    BY <1>1, <2>3, <2>4, PopsTop
<1>8. CASE \E c \in Conns : Dial(k, c)
  BY <1>8, DialsFresh
<1>9. CASE DialFails(k)
  <2>1. permits' \in Nat
    BY <1>1, <1>9 DEF DialFails
  <2>. QED
    BY <1>1, <1>9, <2>1, NoLeaseType, MovesWithout DEF DialFails, Goto
<1>10. CASE RecycleRollback(k)
  <2>. DEFINE l == [lease[k] EXCEPT !.txOpen = FALSE]
              s == [server[lease[k].conn] EXCEPT !.tx = "I", !.rfq = "I"]
  <2>1. pc[k] = "rollback" /\ pc[k] \in Leasing
    BY <1>10 DEF RecycleRollback
  <2>2. /\ StageInv("rollback", lease[k], Session(k))
        /\ Session(k) \in Sessions /\ Session(k) = server[lease[k].conn]
    BY <1>1, <2>1, LeaseTypes DEF IInv, StagesKnow, Session
  <2>3. l \in Leases /\ l.conn = lease[k].conn /\ s \in Sessions
    BY <1>1, <2>2 DEF Leases, Sessions
  <2>4. StageInv("reset", l, s)
    BY <1>1, <2>2 DEF StageInv, Covers, Leases, Sessions
  <2>5. /\ pc' = [pc EXCEPT ![k] = "reset"]
        /\ lease' = [lease EXCEPT ![k] = l]
        /\ server' = [server EXCEPT ![lease[k].conn] = s]
        /\ UNCHANGED <<permits, idle, budget, link>>
    BY <1>10 DEF RecycleRollback, Goto, poolVars
  <2>. HIDE DEF l, s
  <2>. QED
    BY <1>1, <2>1, <2>3, <2>4, <2>5, UsesLease
<1>11. CASE RecycleReset(k)
  <2>. DEFINE l == [lease[k] EXCEPT !.tainted = FALSE]
              s == ResetState(server[lease[k].conn], Profile(lease[k]))
  <2>1. pc[k] = "reset" /\ pc[k] \in Leasing
    BY <1>11 DEF RecycleReset
  <2>2. /\ StageInv("reset", lease[k], Session(k))
        /\ Session(k) \in Sessions /\ Session(k) = server[lease[k].conn]
    BY <1>1, <2>1, LeaseTypes DEF IInv, StagesKnow, Session
  <2>3. l \in Leases /\ l.conn = lease[k].conn /\ s \in Sessions
    BY <1>1, <2>2 DEF Leases, Sessions, ResetState
  <2>4. s.state = {} /\ s.tx = "I" /\ s.inStep
    <3>1. CASE lease[k].tainted
      BY <1>1, <2>2, <3>1 DEF StageInv, Covers, Sessions, ResetState, Profile
    <3>2. CASE ~ lease[k].tainted
      BY <1>1, <2>2, <3>2 DEF StageInv, Covers, Sessions, ResetState, Profile
    <3>. QED
      BY <3>1, <3>2
  <2>5. StageInv("arm", l, s)
    BY <2>4 DEF StageInv, Pristine
  <2>6. /\ pc' = [pc EXCEPT ![k] = "arm"]
        /\ lease' = [lease EXCEPT ![k] = l]
        /\ server' = [server EXCEPT ![lease[k].conn] = s]
        /\ UNCHANGED <<permits, idle, budget, link>>
    BY <1>11 DEF RecycleReset, Goto, poolVars
  <2>. HIDE DEF l, s
  <2>. QED
    BY <1>1, <2>1, <2>3, <2>5, <2>6, UsesLease
<1>12. CASE RecycleFails(k)
  <2>. DEFINE l == [NoLease EXCEPT !.readonly = lease[k].readonly]
  <2>1. l \in Leases /\ l.conn = NoConn
    BY <1>1, NoLeaseType DEF Leases
  <2>2. /\ pc[k] \in Leasing
        /\ pc' = [pc EXCEPT ![k] = "pop"]
        /\ lease' = [lease EXCEPT ![k] = l]
        /\ permits' = permits /\ budget' = budget /\ idle' = idle
        /\ Forget(lease[k].conn)
    BY <1>12 DEF RecycleFails, Goto, poolVars
  <2>. HIDE DEF l
  <2>. QED
    BY <1>1, <2>1, <2>2, ForgetsLease
<1>13. CASE HandOut(k)
  <2>. DEFINE l == [NoLease EXCEPT !.conn = lease[k].conn]
              s == [server[lease[k].conn] EXCEPT !.readonly = lease[k].readonly]
  <2>1. pc[k] \in {"arm", "armNew"} /\ pc[k] \in Leasing
    BY <1>13 DEF HandOut
  <2>2. /\ StageInv(pc[k], lease[k], Session(k))
        /\ Session(k) \in Sessions /\ Session(k) = server[lease[k].conn]
    BY <1>1, <2>1, LeaseTypes DEF IInv, StagesKnow, Session
  <2>3. l \in Leases /\ l.conn = lease[k].conn /\ s \in Sessions
    BY <1>1, <2>2, NoLeaseType DEF Leases, Sessions
  <2>4. Pristine(s)
    BY <2>1, <2>2 DEF StageInv, Pristine, Sessions
  <2>5. StageInv("held", l, s)
    BY <2>4 DEF StageInv, Pristine, Covers
  <2>6. /\ pc' = [pc EXCEPT ![k] = "held"]
        /\ lease' = [lease EXCEPT ![k] = l]
        /\ server' = [server EXCEPT ![lease[k].conn] = s]
        /\ UNCHANGED <<permits, idle, budget, link>>
    BY <1>13 DEF HandOut, Goto
  <2>. HIDE DEF l, s
  <2>. QED
    BY <1>1, <2>1, <2>3, <2>5, <2>6, UsesLease
<1>14. CASE ArmNewFails(k)
  <2>1. /\ pc[k] \in Leasing
        /\ pc' = [pc EXCEPT ![k] = "out"]
        /\ lease' = [lease EXCEPT ![k] = NoLease]
        /\ permits' \in Nat /\ budget' \in Nat /\ idle' = idle
        /\ Forget(lease[k].conn)
    BY <1>1, <1>14 DEF ArmNewFails, Goto
  <2>. QED
    BY <1>1, <2>1, NoLeaseType, ForgetsLease
<1>15. CASE AbandonCheckout(k)
  <2>1. permits' \in Nat
    BY <1>1, <1>15 DEF AbandonCheckout
  <2>2. CASE pc[k] \in Leasing
    BY <1>1, <1>15, <2>1, <2>2, NoLeaseType, ForgetsLease DEF AbandonCheckout, Goto
  <2>3. CASE pc[k] \notin Leasing
    BY <1>1, <1>15, <2>1, <2>3, NoLeaseType, MovesWithout DEF AbandonCheckout, Goto
  <2>. QED
    BY <2>2, <2>3
<1>. QED
  BY <1>3, <1>4, <1>5, <1>6, <1>7, <1>8, <1>9, <1>10, <1>11, <1>12, <1>13,
     <1>14, <1>15 DEF CheckoutStep

(* Every use of a Checkout keeps the invariant.                            *)
LEMMA UseStepIInv ==
  ASSUME IInv, NEW k \in Clients, UseStep(k)
  PROVE  IInv'
<1>. USE StagesType
<1>. DEFINE l0 == lease[k]
            s0 == server[l0.conn]
<1>0. ASSUME pc[k] = "held"
      PROVE  /\ l0 \in Leases /\ s0 \in Sessions /\ s0.rfq \in {"I", "T", "E"}
             /\ StageInv("held", l0, s0) /\ Covers(l0, s0)
             /\ s0.inStep \/ l0.discard
             /\ k \in Actors /\ pc[k] \in Leasing
  BY <1>0, HeldFacts
<1>1. ASSUME NEW kind \in Kinds, Exec(k, kind) PROVE IInv'
  <2>1. pc[k] = "held" /\ UNCHANGED <<poolVars, pc, link>> /\ kind \in AllKinds
    BY <1>1, KindAssumption DEF Exec
  <2>2. CASE Ran(k, Succeeds(Session(k), kind), FALSE, kind)
    <3>. DEFINE s == Succeeds(s0, kind)
                l == Bookkeep(l0, s.rfq, FALSE, kind)
    <3>1. lease' = [lease EXCEPT ![k] = l] /\ server' = [server EXCEPT ![l0.conn] = s]
      BY <2>2 DEF Ran, Session
    <3>. HIDE DEF l0, s0
    <3>2. s \in Sessions /\ s.rfq \in {"I", "T", "E"}
      BY <1>0, <2>1, SucceedsFields
    <3>. HIDE DEF s
    <3>3. Booked(l, l0, s.rfq, FALSE, kind)
      BY <1>0, <2>1, <3>2, BookkeepFields
    <3>. HIDE DEF l
    <3>4. StageInv("held", l, s)
      BY <1>0, <2>1, <3>3, SucceedsCovered DEF s
    <3>5. l \in Leases /\ l.conn = l0.conn
      BY <3>3 DEF Booked
    <3>. QED
      BY <2>1, <3>1, <3>2, <3>4, <3>5, Runs DEF l0
  <2>3. CASE \E s \in FailsTo(Session(k), kind) : Ran(k, s, TRUE, kind)
    BY <2>1, <2>3, FailsCovered
  <2>. QED
    BY <1>1, <2>2, <2>3 DEF Exec
<1>2. CASE BeginTxWith(k)
  <2>1. pc[k] = "held" /\ UNCHANGED <<poolVars, pc, link>>
    BY <1>2 DEF BeginTxWith
  <2>. DEFINE m == [l0 EXCEPT !.pinned = TRUE, !.txOpen = TRUE]
              l == Bookkeep(m, "T", FALSE, "plain")
              s == Succeeds(s0, "opens")
  <2>2. CASE /\ server' = [server EXCEPT ![l0.conn] = s]
             /\ lease' = [lease EXCEPT ![k] = l]
    <3>. HIDE DEF l0, s0
    <3>1. m \in Leases /\ m.conn = l0.conn /\ m.tainted = l0.tainted
          /\ m.discard = l0.discard
      BY <1>0, <2>1 DEF Leases
    <3>2. s \in Sessions /\ s.inStep = s0.inStep /\ s.state = s0.state
      <4>1. "opens" \in AllKinds /\ Leaves("opens") = {}
        BY DEF AllKinds, Leaves
      <4>. QED
        BY <1>0, <2>1, <4>1, SucceedsFields
    <3>. HIDE DEF m, s
    <3>3. Booked(l, m, "T", FALSE, "plain")
      BY <3>1, BookkeepFields DEF AllKinds
    <3>. HIDE DEF l
    <3>4. l \in Leases /\ l.conn = l0.conn /\ StageInv("held", l, s)
      BY <1>0, <2>1, <3>1, <3>2, <3>3 DEF StageInv, Covers, Booked
    <3>. QED
      BY <2>1, <2>2, <3>2, <3>4, Runs DEF l0
  <2>3. CASE \E t \in FailsTo(Session(k), "opens") : Ran(k, t, TRUE, "plain")
    BY <2>1, <2>3, FailsCovered DEF AllKinds
  <2>. QED
    BY <1>2, <2>2, <2>3 DEF BeginTxWith
<1>3. CASE TxControl(k)
  <2>1. pc[k] = "held" /\ UNCHANGED <<poolVars, pc, link>>
    BY <1>3 DEF TxControl
  <2>. DEFINE s == [s0 EXCEPT !.tx = "T", !.rfq = "T"]
              l == Bookkeep(l0, s.rfq, FALSE, "plain")
  <2>2. CASE Ran(k, [Session(k) EXCEPT !.tx = "T", !.rfq = "T"], FALSE, "plain")
    <3>1. lease' = [lease EXCEPT ![k] = l] /\ server' = [server EXCEPT ![l0.conn] = s]
      BY <2>2 DEF Ran, Session
    <3>. HIDE DEF l0, s0
    <3>2. s \in Sessions /\ s.rfq = "T" /\ s.inStep = s0.inStep /\ s.state = s0.state
      BY <1>0, <2>1 DEF Sessions
    <3>. HIDE DEF s
    <3>3. Booked(l, l0, s.rfq, FALSE, "plain")
      BY <1>0, <2>1, <3>2, BookkeepFields DEF AllKinds
    <3>. HIDE DEF l
    <3>4. l \in Leases /\ l.conn = l0.conn /\ StageInv("held", l, s)
      BY <1>0, <2>1, <3>2, <3>3 DEF StageInv, Covers, Booked
    <3>. QED
      BY <2>1, <3>1, <3>2, <3>4, Runs DEF l0
  <2>3. CASE \E t \in FailsTo(Session(k), "plain") : Ran(k, t, TRUE, "plain")
    BY <2>1, <2>3, FailsCovered DEF AllKinds
  <2>. QED
    BY <1>3, <2>2, <2>3 DEF TxControl
<1>4. CASE EndTx(k)
  <2>1. pc[k] = "held" /\ UNCHANGED <<poolVars, pc, link>>
    BY <1>4 DEF EndTx
  <2>. DEFINE m == [l0 EXCEPT !.pinned = FALSE, !.txOpen = FALSE]
              l == Bookkeep(m, "I", FALSE, "plain")
              s == Succeeds(s0, "closes")
  <2>2. CASE /\ server' = [server EXCEPT ![l0.conn] = s]
             /\ lease' = [lease EXCEPT ![k] = l]
    <3>. HIDE DEF l0, s0
    <3>1. m \in Leases /\ m.conn = l0.conn /\ m.tainted = l0.tainted
          /\ m.discard = l0.discard
      BY <1>0, <2>1 DEF Leases
    <3>2. /\ s \in Sessions /\ s.inStep = s0.inStep /\ s.state = s0.state
          /\ s.tx = "I"
      <4>1. "closes" \in AllKinds /\ Leaves("closes") = {}
        BY DEF AllKinds, Leaves
      <4>2. TxAfterOk(s0.tx, "closes") = "I"
        BY DEF TxAfterOk
      <4>3. s0 \in Sessions
        BY <1>0, <2>1
      <4>4. /\ s \in Sessions /\ s.inStep = s0.inStep
            /\ s.tx = TxAfterOk(s0.tx, "closes") /\ s.state = s0.state \cup Leaves("closes")
        BY <4>1, <4>3, SucceedsFields
      <4>. QED
        BY <4>1, <4>2, <4>4
    <3>. HIDE DEF m, s
    <3>3. Booked(l, m, "I", FALSE, "plain")
      BY <3>1, BookkeepFields DEF AllKinds
    <3>. HIDE DEF l
    <3>4. l \in Leases /\ l.conn = l0.conn /\ StageInv("held", l, s)
      BY <1>0, <2>1, <3>1, <3>2, <3>3 DEF StageInv, Covers, Booked
    <3>. QED
      BY <2>1, <2>2, <3>2, <3>4, Runs DEF l0
  <2>3. CASE \E t \in FailsTo(Session(k), "closes") : Ran(k, t, TRUE, "plain")
    BY <2>1, <2>3, FailsCovered DEF AllKinds
  <2>. QED
    BY <1>4, <2>2, <2>3 DEF EndTx
<1>5. CASE Discard(k)
  <2>1. pc[k] = "held" /\ UNCHANGED <<poolVars, pc, link>>
    BY <1>5 DEF Discard
  <2>. DEFINE l == [l0 EXCEPT !.discard = TRUE]
              s == [s0 EXCEPT !.inStep = FALSE]
  <2>4. lease' = [lease EXCEPT ![k] = l] /\ server' = [server EXCEPT ![l0.conn] = s]
    BY <1>5 DEF Discard
  <2>. HIDE DEF l0, s0
  <2>2. l \in Leases /\ l.conn = l0.conn /\ l.discard /\ l.txOpen = l0.txOpen
        /\ l.tainted = l0.tainted
    BY <1>0, <2>1 DEF Leases
  <2>3. s \in Sessions /\ s.tx = s0.tx /\ s.state = s0.state
    BY <1>0, <2>1 DEF Sessions
  <2>. HIDE DEF l, s
  <2>5. StageInv("held", l, s)
    BY <1>0, <2>1, <2>2, <2>3 DEF StageInv, Covers
  <2>. QED
    BY <2>1, <2>2, <2>3, <2>4, <2>5, Runs DEF l0
<1>6. ASSUME NEW handle \in Handles, NEW kind \in Streamable, OpenHandle(k, handle, kind)
      PROVE  IInv'
  <2>. DEFINE l == [l0 EXCEPT !.kind = kind]
              s == [s0 EXCEPT !.inStep = FALSE, !.state = @ \cup Leaves(kind)]
  <2>1. pc[k] = "held" /\ kind \in AllKinds /\ kind # "opens" /\ handle \in Leasing
    BY <1>6 DEF OpenHandle, Streamable, AllKinds
  <2>2. /\ pc' = [pc EXCEPT ![k] = handle]
        /\ lease' = [lease EXCEPT ![k] = l]
        /\ server' = [server EXCEPT ![l0.conn] = s]
        /\ UNCHANGED <<permits, idle, budget, link>>
    BY <1>6 DEF OpenHandle, Goto, poolVars, Session
  <2>. HIDE DEF l0, s0
  <2>3. l \in Leases /\ l.conn = l0.conn /\ l.kind = kind /\ l.txOpen = l0.txOpen
        /\ l.tainted = l0.tainted
    BY <1>0, <2>1 DEF Leases
  <2>4. s \in Sessions /\ s.tx = s0.tx /\ s.state = s0.state \cup Leaves(kind)
    BY <1>0, <2>1, LeavesType DEF Sessions
  <2>5. "prepared" \in Leaves(kind) => Flagged(kind)
    BY <2>1 DEF Leaves, Flagged, AllKinds
  <2>. HIDE DEF l, s
  <2>6. StageInv(handle, l, s)
    BY <1>0, <1>6, <2>1, <2>3, <2>4, <2>5 DEF StageInv, Covers
  <2>. QED
    BY <1>0, <2>1, <2>2, <2>3, <2>4, <2>6, UsesLease DEF l0
<1>7. ASSUME NEW handle \in Handles, NEW kind \in Streamable, NEW sqlError \in BOOLEAN,
             OpenHandleFails(k, handle, kind, sqlError)
      PROVE  IInv'
  <2>. DEFINE condemned == handle # "stream" /\ ~ sqlError
  <2>1. pc[k] = "held" /\ kind \in AllKinds /\ UNCHANGED <<poolVars, pc, link>>
    BY <1>7 DEF OpenHandleFails, Streamable, AllKinds
  <2>2. PICK t \in FailsTo(s0, kind) :
          /\ server' = [server EXCEPT ![l0.conn] = [t EXCEPT !.inStep = @ /\ ~ condemned]]
          /\ lease' = [lease EXCEPT ![k] =
               [Bookkeep(l0, t.rfq, TRUE, kind) EXCEPT !.discard = @ \/ condemned]]
    BY <1>7 DEF OpenHandleFails, Session
  <2>. DEFINE m == Bookkeep(l0, t.rfq, TRUE, kind)
              l == [m EXCEPT !.discard = m.discard \/ condemned]
              s == [t EXCEPT !.inStep = t.inStep /\ ~ condemned]
  <2>3. lease' = [lease EXCEPT ![k] = l]
    BY <2>2, Zenon
  <2>31. server' = [server EXCEPT ![l0.conn] = s]
    BY <2>2, Zenon
  <2>7. condemned \in BOOLEAN
    OBVIOUS
  <2>. HIDE DEF l0, s0, condemned
  <2>4. t \in Sessions /\ t.inStep = s0.inStep /\ t.rfq \in {"I", "T", "E"}
    BY <1>0, <2>1, FailureFields
  <2>5. Booked(m, l0, t.rfq, TRUE, kind)
    BY <1>0, <2>1, <2>4, BookkeepFields
  <2>. HIDE DEF m
  <2>8. l \in Leases /\ l.conn = l0.conn /\ l.txOpen /\ l.tainted
        /\ (l.discard <=> (l0.discard \/ condemned))
    BY <2>5, <2>7 DEF Leases, Booked
  <2>9. s \in Sessions /\ (s.inStep <=> (s0.inStep /\ ~ condemned))
    BY <2>4, <2>7 DEF Sessions
  <2>. HIDE DEF l, s
  <2>10. StageInv("held", l, s)
    BY <1>0, <2>1, <2>8, <2>9 DEF StageInv, Covers
  <2>. QED
    BY <2>1, <2>3, <2>31, <2>8, <2>9, <2>10, Runs DEF l0
<1>8. ASSUME pc[k] \in Handles
      PROVE  /\ l0 \in Leases /\ s0 \in Sessions /\ s0.rfq \in {"I", "T", "E"}
             /\ l0.kind \in AllKinds /\ l0.kind # "opens" /\ l0.errored \in BOOLEAN
             /\ s0.tx # "I" => l0.txOpen
             /\ "prepared" \in s0.state => l0.tainted \/ Flagged(l0.kind)
             /\ k \in Actors /\ pc[k] \in Leasing
             /\ Session(k) = s0
  <2>1. k \in Actors /\ pc[k] \in Leasing
    BY <1>8 DEF Actors
  <2>2. l0 \in Leases /\ s0 \in Sessions /\ Session(k) = s0
    BY <2>1, LeaseTypes DEF Session
  <2>3. StageInv(pc[k], l0, s0)
    BY <2>1, <2>2 DEF IInv, StagesKnow
  <2>4. l0.kind \in AllKinds /\ l0.errored \in BOOLEAN /\ s0.rfq \in {"I", "T", "E"}
    BY <2>2 DEF Leases, Sessions
  <2>. HIDE DEF l0, s0
  <2>. QED
    BY <1>8, <2>1, <2>2, <2>3, <2>4 DEF StageInv
<1>9. ASSUME pc[k] \in Handles, NEW t \in FailsTo(s0, l0.kind)
      PROVE  /\ t \in Sessions
             /\ t.tx # "I" => l0.txOpen
             /\ "prepared" \in t.state => l0.tainted \/ Flagged(l0.kind)
  <2>. HIDE DEF l0, s0
  <2>1. "prepared" \in Leaves(l0.kind) => Flagged(l0.kind)
    BY <1>8, <1>9 DEF Leaves, Flagged, AllKinds
  <2>. QED
    BY <1>8, <1>9, <2>1, FailureFields
<1>10. CASE HandleErrs(k)
  <2>1. pc[k] \in Handles
    BY <1>10 DEF HandleErrs
  <2>2. PICK t \in FailsTo(s0, l0.kind) : server' = [server EXCEPT ![l0.conn] = t]
    BY <1>8, <1>10, <2>1 DEF HandleErrs
  <2>. DEFINE l == [l0 EXCEPT !.errored = TRUE]
  <2>3. /\ pc' = [pc EXCEPT ![k] = pc[k]]
        /\ lease' = [lease EXCEPT ![k] = l]
        /\ UNCHANGED <<permits, idle, budget, link>>
    BY <1>8, <1>10, <2>1 DEF HandleErrs, poolVars, IInv, TypeOK
  <2>. HIDE DEF l0, s0
  <2>4. l \in Leases /\ l.conn = l0.conn /\ l.kind = l0.kind /\ l.txOpen = l0.txOpen
        /\ l.tainted = l0.tainted
    BY <1>8, <2>1 DEF Leases
  <2>. HIDE DEF l
  <2>5. StageInv(pc[k], l, t)
    BY <1>8, <1>9, <2>1, <2>4 DEF StageInv
  <2>. QED
    BY <1>8, <1>9, <2>1, <2>2, <2>3, <2>4, <2>5, UsesLease DEF l0
<1>11. ASSUME pc[k] \in Handles, NEW l \in Leases, NEW s \in Sessions, l.conn = l0.conn,
              l.discard \/ s.inStep, Covers(l, s),
              server' = [server EXCEPT ![l0.conn] = s],
              lease' = [lease EXCEPT ![k] = l],
              Goto(k, "held"), UNCHANGED <<poolVars, link>>
       PROVE  IInv'
  <2>1. StageInv("held", l, s)
    BY <1>11 DEF StageInv
  <2>2. UNCHANGED <<permits, idle, budget, link>> /\ pc' = [pc EXCEPT ![k] = "held"]
    BY <1>11 DEF poolVars, Goto
  <2>. QED
    BY <1>8, <1>11, <2>1, <2>2, UsesLease
<1>12. CASE FinishHandle(k)
  <2>1. pc[k] \in Handles
    BY <1>12 DEF FinishHandle
  <2>. DEFINE t == IF l0.errored THEN s0 ELSE [s0 EXCEPT !.rfq = s0.tx]
              s == [t EXCEPT !.inStep = TRUE]
              m == Bookkeep(l0, t.rfq, l0.errored, l0.kind)
              l == Consumed(m)
  <2>2. /\ server' = [server EXCEPT ![l0.conn] = s]
        /\ lease' = [lease EXCEPT ![k] = l]
        /\ Goto(k, "held") /\ UNCHANGED <<poolVars, link>>
    BY <1>8, <1>12, <2>1 DEF FinishHandle
  <2>. HIDE DEF l0, s0
  <2>3. /\ t \in Sessions /\ t.rfq \in {"I", "T", "E"}
        /\ t.tx = s0.tx /\ t.state = s0.state
        /\ ~ l0.errored => t.rfq = s0.tx
    BY <1>8, <2>1 DEF Sessions
  <2>. HIDE DEF t
  <2>4. Booked(m, l0, t.rfq, l0.errored, l0.kind)
    BY <1>8, <2>1, <2>3, BookkeepFields
  <2>. HIDE DEF m
  <2>5. /\ l \in Leases /\ l.conn = l0.conn
        /\ l.txOpen = m.txOpen /\ l.tainted = m.tainted
    BY <2>4 DEF Booked, Consumed, Leases, AllKinds
  <2>6. s \in Sessions /\ s.inStep /\ s.tx = s0.tx /\ s.state = s0.state
    BY <2>3 DEF Sessions
  <2>. HIDE DEF l, s
  <2>7. Covers(l, s)
    BY <1>8, <2>1, <2>3, <2>4, <2>5, <2>6 DEF Covers, Booked
  <2>. QED
    BY <1>11, <2>1, <2>2, <2>5, <2>6, <2>7
<1>13. CASE FinishGivesUp(k)
  <2>1. pc[k] \in Handles
    BY <1>13 DEF FinishGivesUp
  <2>. DEFINE m == Bookkeep(l0, s0.rfq, TRUE, l0.kind)
              l == [Consumed(m) EXCEPT !.discard = TRUE]
  <2>2. /\ lease' = [lease EXCEPT ![k] = l]
        /\ Goto(k, "held") /\ UNCHANGED <<poolVars, link>>
    BY <1>8, <1>13, <2>1 DEF FinishGivesUp
  <2>3. server' = [server EXCEPT ![l0.conn] = s0]
    BY <1>13 DEF FinishGivesUp, IInv, TypeOK
  <2>. HIDE DEF l0, s0
  <2>4. Booked(m, l0, s0.rfq, TRUE, l0.kind)
    BY <1>8, <2>1, BookkeepFields
  <2>. HIDE DEF m
  <2>5. l \in Leases /\ l.conn = l0.conn /\ l.txOpen /\ l.tainted /\ l.discard
    BY <2>4 DEF Booked, Consumed, Leases, AllKinds
  <2>. HIDE DEF l
  <2>. QED
    BY <1>8, <1>11, <2>1, <2>2, <2>3, <2>5 DEF Covers
<1>14. CASE AbortCopyIn(k)
  <2>1. pc[k] \in Handles
    BY <1>14 DEF AbortCopyIn
  <2>2. PICK t \in FailsTo(s0, l0.kind) :
          server' = [server EXCEPT ![l0.conn] = [t EXCEPT !.inStep = TRUE]]
    BY <1>8, <1>14, <2>1 DEF AbortCopyIn
  <2>. DEFINE m == Bookkeep(l0, s0.rfq, TRUE, l0.kind)
              l == Consumed(m)
              s == [t EXCEPT !.inStep = TRUE]
  <2>3. /\ lease' = [lease EXCEPT ![k] = l]
        /\ Goto(k, "held") /\ UNCHANGED <<poolVars, link>>
    BY <1>8, <1>14, <2>1 DEF AbortCopyIn
  <2>. HIDE DEF l0, s0
  <2>4. Booked(m, l0, s0.rfq, TRUE, l0.kind)
    BY <1>8, <2>1, BookkeepFields
  <2>. HIDE DEF m
  <2>5. l \in Leases /\ l.conn = l0.conn /\ l.txOpen /\ l.tainted
    BY <2>4 DEF Booked, Consumed, Leases, AllKinds
  <2>6. s \in Sessions /\ s.inStep
    BY <1>9, <2>1 DEF Sessions
  <2>. HIDE DEF l
  <2>. QED
    BY <1>11, <2>1, <2>2, <2>3, <2>5, <2>6 DEF Covers
<1>15. CASE DropHandle(k)
  <2>1. pc[k] \in Handles
    BY <1>15 DEF DropHandle
  <2>. DEFINE l == [Consumed(l0) EXCEPT !.tainted = TRUE, !.discard = TRUE]
  <2>2. /\ lease' = [lease EXCEPT ![k] = l]
        /\ Goto(k, "held") /\ UNCHANGED <<poolVars, link>>
    BY <1>15 DEF DropHandle
  <2>3. server' = [server EXCEPT ![l0.conn] = s0]
    BY <1>15 DEF DropHandle, IInv, TypeOK
  <2>. HIDE DEF l0, s0
  <2>4. /\ l \in Leases /\ l.conn = l0.conn /\ l.tainted /\ l.discard
        /\ l.txOpen = l0.txOpen
    BY <1>8, <2>1 DEF Consumed, Leases, AllKinds
  <2>. HIDE DEF l
  <2>. QED
    BY <1>8, <1>11, <2>1, <2>2, <2>3, <2>4 DEF Covers
<1>16. ASSUME NEW kind \in Streamable, OpenAbandoned(k, kind) PROVE IInv'
  <2>1. pc[k] = "held" /\ UNCHANGED <<poolVars, pc, link>>
        /\ kind \in AllKinds /\ kind # "opens"
    BY <1>16 DEF OpenAbandoned, Streamable, AllKinds
  <2>2. PICK s \in FailsTo(s0, kind) \cup {Succeeds(s0, kind)} :
          server' = [server EXCEPT ![l0.conn] = s]
    BY <1>16 DEF OpenAbandoned, Session
  <2>. DEFINE l == [l0 EXCEPT !.tainted = TRUE]
  <2>3. lease' = [lease EXCEPT ![k] = l]
    BY <1>16 DEF OpenAbandoned
  <2>. HIDE DEF l0, s0
  <2>4. s \in Sessions /\ s.inStep = s0.inStep /\ (s.tx # "I" => s0.tx # "I")
    <3>1. CASE s \in FailsTo(s0, kind)
      BY <1>0, <2>1, <3>1, FailureFields
    <3>2. CASE s = Succeeds(s0, kind)
      <4>1. TxAfterOk(s0.tx, kind) # "I" => s0.tx # "I"
        BY <2>1 DEF TxAfterOk
      <4>. QED
        BY <1>0, <2>1, <3>2, <4>1, SucceedsFields
    <3>. QED
      BY <3>1, <3>2
  <2>5. /\ l \in Leases /\ l.conn = l0.conn /\ l.tainted
        /\ l.txOpen = l0.txOpen /\ l.discard = l0.discard
    BY <1>0, <2>1 DEF Leases
  <2>. HIDE DEF l
  <2>6. StageInv("held", l, s)
    BY <1>0, <2>1, <2>4, <2>5 DEF StageInv, Covers
  <2>. QED
    BY <2>1, <2>2, <2>3, <2>4, <2>5, <2>6, Runs DEF l0
<1>. QED
  BY <1>1, <1>2, <1>3, <1>4, <1>5, <1>6, <1>7, <1>10, <1>12, <1>13, <1>14, <1>15,
     <1>16 DEF UseStep, HandleStep

(* Dropping a Checkout keeps the invariant.                                *)
LEMMA ReturnIInv ==
  ASSUME IInv, NEW k \in Clients, DropCheckout(k) \/ TeardownGivesUp(k)
  PROVE  IInv'
<1>. USE StagesType
<1>. DEFINE l0 == lease[k]
            s0 == server[l0.conn]
<1>1. pc[k] = "held"
  BY DEF DropCheckout, TeardownGivesUp
<1>2. /\ k \in Actors /\ pc[k] \in Leasing /\ l0 \in Leases /\ s0 \in Sessions
      /\ l0.conn \in Conns /\ Covers(l0, s0) /\ (s0.inStep \/ l0.discard)
  BY <1>1, HeldFacts
<1>3. permits \in Nat /\ budget \in Nat
  BY DEF IInv, TypeOK
<1>4. CASE /\ Forget(l0.conn) /\ idle' = idle
           /\ lease' = [lease EXCEPT ![k] = NoLease]
           /\ Goto(k, "release") /\ UNCHANGED <<permits, budget>>
  BY <1>2, <1>3, <1>4, NoLeaseType, ForgetsLease DEF Goto
<1>5. CASE DropCheckout(k) /\ Recyclable(l0)
  <2>1. Entry(l0) \in Entries /\ Entry(l0).conn = l0.conn
    BY <1>2 DEF Entry, Entries, Leases
  <2>2. EntryInv(Entry(l0), s0)
    BY <1>2, <1>5 DEF EntryInv, Covers, Entry, Recyclable
  <2>3. server' = [server EXCEPT ![l0.conn] = s0]
    BY <1>5 DEF DropCheckout, IInv, TypeOK
  <2>4. /\ idle' = Append(idle, Entry(l0))
        /\ lease' = [lease EXCEPT ![k] = NoLease]
        /\ pc' = [pc EXCEPT ![k] = "release"]
        /\ UNCHANGED <<permits, budget, link>>
    BY <1>5 DEF DropCheckout, Goto
  <2>. HIDE DEF s0
  <2>. QED
    BY <1>2, <2>1, <2>2, <2>3, <2>4, PushesLease
<1>6. CASE TeardownGivesUp(k) /\ Recyclable([l0 EXCEPT !.tainted = TRUE])
  <2>. DEFINE l == [l0 EXCEPT !.tainted = TRUE]
  <2>1. /\ l.conn = l0.conn /\ l.txOpen = l0.txOpen /\ l.tainted
        /\ l.discard = l0.discard /\ Entry(l) \in Entries
    BY <1>2 DEF Entry, Entries, Leases
  <2>2. PICK x \in {s0.tx, "I"} : server' = [server EXCEPT ![l0.conn].tx = x]
    BY <1>6, <2>1 DEF TeardownGivesUp
  <2>. DEFINE s == [s0 EXCEPT !.tx = x]
  <2>3. s \in Sessions /\ s.tx = x /\ s.state = s0.state /\ s.inStep = s0.inStep
    BY <1>2 DEF Sessions
  <2>4. server' = [server EXCEPT ![l0.conn] = s]
    BY <2>2
  <2>5. /\ idle' = Append(idle, Entry(l))
        /\ lease' = [lease EXCEPT ![k] = NoLease]
        /\ pc' = [pc EXCEPT ![k] = "release"]
        /\ UNCHANGED <<permits, budget, link>>
    BY <1>6 DEF TeardownGivesUp, Goto
  <2>6. Entry(l).conn = l0.conn /\ Entry(l).txOpen = l0.txOpen /\ Entry(l).tainted
    BY <2>1 DEF Entry
  <2>7. ~ l0.discard
    BY <1>6, <2>1 DEF Recyclable
  <2>. HIDE DEF l, s, s0
  <2>8. EntryInv(Entry(l), s)
    BY <1>2, <2>2, <2>3, <2>6, <2>7 DEF EntryInv, Covers
  <2>. QED
    BY <1>2, <2>1, <2>3, <2>4, <2>5, <2>6, <2>8, PushesLease
<1>7. [l0 EXCEPT !.tainted = TRUE].conn = l0.conn
  BY <1>2 DEF Leases
<1>. QED
  BY <1>4, <1>5, <1>6, <1>7 DEF DropCheckout, TeardownGivesUp

(* Every step of the reaper keeps the invariant.                           *)
LEMMA ReaperStepIInv ==
  ASSUME IInv, ReaperStep
  PROVE  IInv'
<1>. USE StagesType
<1>1. /\ Reaper \in Actors /\ lease[Reaper] \in Leases
      /\ permits \in Nat /\ budget \in Nat
  BY LeaseTypes DEF Actors, IInv, TypeOK
<1>2. pc[Reaper] \notin Leasing => lease[Reaper].conn = NoConn
  BY <1>1 DEF IInv, OnePlace
<1>3. lease = [lease EXCEPT ![Reaper] = lease[Reaper]]
  BY <1>1 DEF IInv, TypeOK
<1>4. CASE ReapTick
  <2>1. budget' \in Nat
    BY <1>4 DEF ReapTick, IInv, TypeOK
  <2>. QED
    BY <1>1, <1>2, <1>3, <1>4, <2>1, MovesWithout DEF ReapTick, Goto
<1>5. CASE ReapPop
  <2>1. permits' \in Nat /\ budget' \in Nat
    BY <1>1, <1>5 DEF ReapPop
  <2>2. Top \in Entries
    BY <1>5, PopType DEF ReapPop, IInv
  <2>3. /\ Taken(lease[Reaper], Top).txOpen = Top.txOpen
        /\ Taken(lease[Reaper], Top).tainted = Top.tainted
    BY <1>1, <2>2 DEF Taken, Leases, Entries
  <2>4. EntryInv(Top, server[Top.conn]) =>
          StageInv("ping", Taken(lease[Reaper], Top), server[Top.conn])
    BY <2>3 DEF EntryInv, StageInv, Covers
  <2>. QED
    BY <1>1, <1>5, <2>1, <2>4, PopsTop DEF ReapPop, Goto
<1>6. CASE ReapStop
  BY <1>1, <1>2, <1>3, <1>6, MovesWithout DEF ReapStop, Goto
<1>7. CASE ReapKeep
  <2>. DEFINE l0 == lease[Reaper]
              s0 == server[l0.conn]
  <2>1. /\ pc[Reaper] \in Leasing
        /\ idle' = Append(idle, Entry(l0))
        /\ lease' = [lease EXCEPT ![Reaper] = NoLease]
        /\ pc' = [pc EXCEPT ![Reaper] = "release"]
        /\ UNCHANGED <<permits, budget, link>>
    BY <1>7 DEF ReapKeep, Goto
  <2>2. StageInv("ping", l0, s0)
    BY <1>1, <1>7 DEF ReapKeep, IInv, StagesKnow, Session
  <2>3. s0 \in Sessions /\ l0.conn \in Conns
    BY <1>1, <2>1, LeaseTypes DEF Session
  <2>4. server' = [server EXCEPT ![l0.conn] = s0]
    BY <1>7 DEF ReapKeep, IInv, TypeOK
  <2>5. Entry(l0) \in Entries /\ Entry(l0).conn = l0.conn
    BY <1>1, <2>3 DEF Entry, Entries, Leases
  <2>6. EntryInv(Entry(l0), s0)
    BY <2>2 DEF EntryInv, Covers, Entry, StageInv
  <2>. HIDE DEF s0
  <2>. QED
    BY <1>1, <2>1, <2>3, <2>4, <2>5, <2>6, PushesLease
<1>8. CASE ReapEvict
  BY <1>1, <1>8, NoLeaseType, ForgetsLease DEF ReapEvict, Goto
<1>. QED
  BY <1>4, <1>5, <1>6, <1>7, <1>8 DEF ReaperStep

(* Every step keeps the invariant.                                         *)
LEMMA NextIInv == IInv /\ [Next]_vars => IInv'
<1>. SUFFICES ASSUME IInv, [Next]_vars PROVE IInv'
  OBVIOUS
<1>1. ASSUME NEW k \in Clients, NEW ro \in BOOLEAN, Checkout(k, ro) PROVE IInv'
  <2>. DEFINE l == [lease[k] EXCEPT !.readonly = ro]
  <2>1. k \in Actors /\ lease[k] \in Leases /\ permits \in Nat /\ budget \in Nat
    BY LeaseTypes DEF Actors, IInv, TypeOK
  <2>2. pc[k] \notin Leasing
    BY <1>1, StagesType DEF Checkout
  <2>3. l \in Leases /\ l.conn = NoConn
    BY <2>1, <2>2 DEF Leases, IInv, OnePlace
  <2>4. lease' = [lease EXCEPT ![k] = l] /\ pc' = [pc EXCEPT ![k] = "wait"]
    BY <1>1 DEF Checkout, Goto
  <2>. HIDE DEF l
  <2>. QED
    BY <1>1, <2>1, <2>2, <2>3, <2>4, MovesWithout, StagesType DEF Checkout
<1>2. ASSUME NEW a \in Actors, ReleasePermit(a) PROVE IInv'
  <2>1. lease[a] \in Leases /\ permits' \in Nat /\ budget' \in Nat
    BY <1>2, LeaseTypes DEF IInv, TypeOK, ReleasePermit
  <2>2. pc[a] \notin Leasing
    BY <1>2, StagesType DEF ReleasePermit
  <2>3. lease[a].conn = NoConn /\ lease' = [lease EXCEPT ![a] = lease[a]]
    BY <1>2, <2>2 DEF IInv, OnePlace, TypeOK, ReleasePermit
  <2>4. PICK stage \in {"tick", "out"} : pc' = [pc EXCEPT ![a] = stage]
    BY <1>2 DEF ReleasePermit, Goto
  <2>. QED
    BY <1>2, <2>1, <2>2, <2>3, <2>4, MovesWithout, StagesType DEF ReleasePermit
<1>3. ASSUME NEW c \in Conns, ServerEnds(c) \/ DriverNotices(c) PROVE IInv'
  <2>1. /\ \A d \in Conns : link'[d] # "none" <=> link[d] # "none"
        /\ link' \in [Conns -> {"none", "up", "dying", "closed"}]
        /\ UNCHANGED <<permits, idle, budget, pc, lease, server>>
    BY <1>3 DEF ServerEnds, DriverNotices, poolVars, IInv, TypeOK
  <2>. QED
    BY <2>1 DEF IInv, TypeOK, OnePlace, StagesKnow, EntryInv, StageInv, Covers,
                Pristine, Session
<1>4. CASE UNCHANGED vars
  BY <1>4 DEF vars, IInv, TypeOK, OnePlace, StagesKnow, EntryInv, StageInv, Covers,
              Pristine, Session
<1>. QED
  BY <1>1, <1>2, <1>3, <1>4, CheckoutStepIInv, UseStepIInv, ReturnIInv, ReaperStepIInv
     DEF Next

(* Type correctness: every variable stays in its domain, for every set of  *)
(* callers and sessions, every max_size and both clean profiles.           *)
THEOREM TypeCorrect == Spec => []TypeOK
<1>1. IInv => TypeOK
  BY DEF IInv
<1>. QED
  BY InitIInv, NextIInv, <1>1, PTL DEF Spec

(* A connection is never in two places: no caller, and not the reaper,     *)
(* ever uses a session that is also idle or in other hands.                *)
THEOREM ExclusiveOwnership == Spec => []OnePlace
<1>1. IInv => OnePlace
  BY DEF IInv
<1>. QED
  BY InitIInv, NextIInv, <1>1, PTL DEF Spec

(* The flags that travel with a connection never claim less than what its  *)
(* server session still holds.                                             *)
THEOREM FlagsNeverLie == Spec => []FlagsCover
<1>1. IInv => FlagsCover
  <2>. SUFFICES ASSUME IInv PROVE FlagsCover
    OBVIOUS
  <2>1. ASSUME NEW i \in 1..Len(idle)
        PROVE  Covers(idle[i], server[idle[i].conn]) /\ server[idle[i].conn].inStep
    BY DEF IInv, StagesKnow, EntryInv
  <2>2. ASSUME NEW a \in Actors, pc[a] \in {"held", "ping"}
        PROVE  /\ Covers(lease[a], Session(a))
               /\ Session(a).inStep \/ lease[a].discard
    <3>1. StageInv(pc[a], lease[a], Session(a))
      BY <2>2, StagesType DEF IInv, StagesKnow
    <3>. QED
      BY <2>2, <3>1 DEF StageInv
  <2>. QED
    BY <2>1, <2>2 DEF FlagsCover
<1>. QED
  BY InitIInv, NextIInv, <1>1, PTL DEF Spec

(* The only step that puts a connection in a caller's hands is HandOut.    *)
LEMMA OnlyHandOut ==
  ASSUME IInv, Next, NEW k \in Clients,
         pc[k] # "held", pc[k] \notin Handles, pc'[k] = "held"
  PROVE  HandOut(k)
<1>. USE DEF Goto
<1>1. pc \in [Actors -> Stages] /\ k \in Actors
  BY DEF IInv, TypeOK, Actors
<1>2. ASSUME NEW j \in Clients, NEW ro \in BOOLEAN, Checkout(j, ro) PROVE FALSE
  BY <1>1, <1>2 DEF Checkout
<1>3. ASSUME NEW j \in Clients, CheckoutStep(j) PROVE HandOut(k)
  <2>1. CASE Acquire(j) \/ AcquireTimeout(j) \/ PopNone(j) \/ PopEvict(j)
    BY <1>1, <2>1 DEF Acquire, AcquireTimeout, PopNone, PopEvict
  <2>2. CASE PopUsable(j)
    BY <1>1, <2>2 DEF PopUsable
  <2>3. CASE DialFails(j) \/ \E c \in Conns : Dial(j, c)
    BY <1>1, <2>3 DEF Dial, DialFails
  <2>4. CASE RecycleRollback(j) \/ RecycleReset(j) \/ RecycleFails(j) \/ ArmNewFails(j)
    BY <1>1, <2>4 DEF RecycleRollback, RecycleReset, RecycleFails, ArmNewFails
  <2>5. CASE HandOut(j)
    BY <1>1, <2>5 DEF HandOut
  <2>. QED
    BY <1>3, <2>1, <2>2, <2>3, <2>4, <2>5 DEF CheckoutStep
<1>4. ASSUME NEW j \in Clients, AbandonCheckout(j) PROVE FALSE
  BY <1>1, <1>4 DEF AbandonCheckout
<1>5. ASSUME NEW j \in Clients, UseStep(j) PROVE FALSE
  <2>1. CASE \E kind \in Kinds : Exec(j, kind)
    BY <1>1, <2>1 DEF Exec
  <2>2. CASE BeginTxWith(j) \/ TxControl(j) \/ EndTx(j) \/ Discard(j) \/ HandleErrs(j)
    BY <1>1, <2>2 DEF BeginTxWith, TxControl, EndTx, Discard, HandleErrs
  <2>3. ASSUME NEW handle \in Handles, NEW kind \in Streamable,
               OpenHandle(j, handle, kind)
        PROVE  FALSE
    BY <1>1, <2>3 DEF OpenHandle, Handles
  <2>4. ASSUME NEW handle \in Handles, NEW kind \in Streamable, NEW sqlError \in BOOLEAN,
               OpenHandleFails(j, handle, kind, sqlError)
        PROVE  FALSE
    BY <1>1, <2>4 DEF OpenHandleFails
  <2>5. CASE FinishHandle(j) \/ FinishGivesUp(j) \/ DropHandle(j)
    BY <1>1, <2>5 DEF FinishHandle, FinishGivesUp, DropHandle
  <2>6. CASE AbortCopyIn(j)
    BY <1>1, <2>6 DEF AbortCopyIn, Handles
  <2>7. CASE \E kind \in Streamable : OpenAbandoned(j, kind)
    BY <1>1, <2>7 DEF OpenAbandoned
  <2>. QED
    BY <1>5, <2>1, <2>2, <2>3, <2>4, <2>5, <2>6, <2>7 DEF UseStep, HandleStep
<1>6. ASSUME NEW j \in Clients, DropCheckout(j) \/ TeardownGivesUp(j) PROVE FALSE
  BY <1>1, <1>6 DEF DropCheckout, TeardownGivesUp
<1>7. ASSUME NEW a \in Actors, ReleasePermit(a) PROVE FALSE
  BY <1>1, <1>7 DEF ReleasePermit
<1>8. CASE ReaperStep
  BY <1>1, <1>8 DEF ReaperStep, ReapTick, ReapPop, ReapStop, ReapKeep, ReapEvict
<1>9. ASSUME NEW c \in Conns, ServerEnds(c) \/ DriverNotices(c) PROVE FALSE
  BY <1>9 DEF ServerEnds, DriverNotices
<1>. QED
  BY <1>2, <1>3, <1>4, <1>5, <1>6, <1>7, <1>8, <1>9 DEF Next

(* Charter rule 6: whatever the previous tenants did, a connection is      *)
(* handed out with nothing of theirs on it, armed as its caller declared.  *)
THEOREM HandOutIsPristine == Spec => HandsOutPristine
<1>. DEFINE Step == \A k \in Clients :
       pc[k] # "held" /\ pc'[k] = "held" /\ pc[k] \notin Handles =>
         LET s == server'[lease'[k].conn] IN
         Pristine(s) /\ s.readonly = lease[k].readonly
<1>1. IInv /\ [Next]_vars => [Step]_vars
  <2>. SUFFICES ASSUME IInv, Next, NEW k \in Clients,
                       pc[k] # "held", pc'[k] = "held", pc[k] \notin Handles
                PROVE  /\ Pristine(server'[lease'[k].conn])
                       /\ server'[lease'[k].conn].readonly = lease[k].readonly
    BY Zenon
  <2>1. HandOut(k)
    BY OnlyHandOut
  <2>2. k \in Actors /\ pc[k] \in {"arm", "armNew"} /\ pc[k] \in Leasing
    BY <2>1, StagesType DEF HandOut, Actors
  <2>. DEFINE c == lease[k].conn
              s == [server[c] EXCEPT !.readonly = lease[k].readonly]
  <2>3. c \in Conns /\ server[c] \in Sessions /\ lease[k].readonly \in BOOLEAN
    BY <2>2, LeaseTypes DEF Session, Leases
  <2>4. Pristine(server[c])
    BY <2>2 DEF IInv, StagesKnow, StageInv, Session
  <2>5. lease'[k].conn = c /\ server'[c] = s
    BY <2>1, <2>2, <2>3, NoLeaseType DEF HandOut, IInv, TypeOK, Leases
  <2>6. Pristine(s) /\ s.readonly = lease[k].readonly
    BY <2>3, <2>4 DEF Pristine, Sessions
  <2>. QED
    BY <2>5, <2>6
<1>. QED
  BY InitIInv, NextIInv, <1>1, PTL DEF Spec, HandsOutPristine

-----------------------------------------------------------------------------
(* The permits and the capacity, for every max_size.                       *)

(* How many permits an actor holds in a stage.                             *)
Held(stage) == IF stage \in {"out", "wait", "tick"} THEN 0 ELSE 1

Holders == {a \in Actors : HasPermit(a)}

(* One actor moves, and the semaphore gains what it gives up.              *)
Shift(a, stage) ==
  /\ pc' = [pc EXCEPT ![a] = stage]
  /\ permits' + Held(stage) = permits + Held(pc[a])

(* The holders of permits are finitely many.                               *)
LEMMA HoldersFinite == IsFiniteSet(Actors) /\ IsFiniteSet(Holders)
<1>1. IsFiniteSet(Actors)
  BY ClientAssumption, FS_AddElement DEF Actors
<1>2. Holders \in SUBSET Actors
  BY DEF Holders
<1>. QED
  BY <1>1, <1>2, FS_Subset

(* Moving one permit between two counts keeps their sum.                   *)
LEMMA Balance ==
  \A p, q, h, m \in Nat : p + h = m =>
    /\ q + 1 = p + 0 => q + (h + 1) = m
    /\ q + 0 = p + 1 => q + (h - 1) = m
  OBVIOUS

(* A shift preserves the balance.                                          *)
LEMMA ShiftConserves ==
  ASSUME IInv, PermitsConserved, NEW a \in Actors, NEW stage, Shift(a, stage),
         permits' \in Nat
  PROVE  PermitsConserved'
<1>1. permits + Cardinality(Holders) = MaxSize
  BY DEF PermitsConserved, Holders
<1>2. IsFiniteSet(Holders) /\ Cardinality(Holders) \in Nat /\ permits \in Nat
  BY HoldersFinite, FS_CardinalityType DEF IInv, TypeOK
<1>3. /\ \A b \in Actors \ {a} : HasPermit(b)' <=> HasPermit(b)
      /\ HasPermit(a)' <=> Held(stage) = 1
      /\ HasPermit(a) <=> Held(pc[a]) = 1
  BY DEF Shift, IInv, TypeOK, HasPermit, Held
<1>4. Held(stage) \in {0, 1} /\ Held(pc[a]) \in {0, 1}
  BY DEF Held
<1>5. CASE Held(stage) = Held(pc[a])
  <2>1. Holders' = Holders
    BY <1>3, <1>5 DEF Holders
  <2>2. permits' = permits
    BY <1>2, <1>4, <1>5 DEF Shift
  <2>. QED
    BY <1>1, <2>1, <2>2 DEF PermitsConserved, Holders
<1>6. CASE Held(stage) = 1 /\ Held(pc[a]) = 0
  <2>1. Holders' = Holders \cup {a} /\ a \notin Holders
    BY <1>3, <1>6 DEF Holders
  <2>2. Cardinality(Holders') = Cardinality(Holders) + 1
    BY <1>2, <2>1, FS_AddElement
  <2>3. permits' + 1 = permits + 0
    BY <1>6 DEF Shift
  <2>. DEFINE h == Cardinality(Holders)
  <2>4. h \in Nat /\ permits \in Nat /\ permits' \in Nat /\ permits + h = MaxSize
    BY <1>1, <1>2
  <2>5. Cardinality(Holders') = h + 1
    BY <2>2
  <2>. HIDE DEF h
  <2>6. permits' + (h + 1) = MaxSize
    BY <2>3, <2>4, SizeAssumption, Balance
  <2>. QED
    BY <2>5, <2>6 DEF PermitsConserved, Holders
<1>7. CASE Held(stage) = 0 /\ Held(pc[a]) = 1
  <2>1. Holders' = Holders \ {a} /\ a \in Holders
    BY <1>3, <1>7 DEF Holders
  <2>2. Cardinality(Holders') = Cardinality(Holders) - 1
    BY <1>2, <2>1, FS_RemoveElement
  <2>3. permits' + 0 = permits + 1
    BY <1>7 DEF Shift
  <2>. DEFINE h == Cardinality(Holders)
  <2>4. h \in Nat /\ permits \in Nat /\ permits' \in Nat /\ permits + h = MaxSize
    BY <1>1, <1>2
  <2>5. Cardinality(Holders') = h - 1
    BY <2>2
  <2>. HIDE DEF h
  <2>6. permits' + (h - 1) = MaxSize
    BY <2>3, <2>4, SizeAssumption, Balance
  <2>. QED
    BY <2>5, <2>6 DEF PermitsConserved, Holders
<1>. QED
  BY <1>4, <1>5, <1>6, <1>7

(* Every action of an actor is a shift.                                    *)
LEMMA ActionsShift ==
  ASSUME IInv, Next
  PROVE  (\E a \in Actors, stage \in Stages : Shift(a, stage)) \/ UNCHANGED <<pc, permits>>
<1>. USE StagesType DEF Goto, Held, Shift
<1>1. pc \in [Actors -> Stages] /\ permits \in Nat /\ Reaper \in Actors
      /\ \A k \in Clients : k \in Actors
  BY DEF IInv, TypeOK, Actors
<1>2. ASSUME NEW k \in Clients, NEW ro \in BOOLEAN, Checkout(k, ro)
      PROVE  Shift(k, "wait")
  BY <1>1, <1>2 DEF Checkout
<1>3. ASSUME NEW k \in Clients, CheckoutStep(k)
      PROVE  (\E stage \in Stages : Shift(k, stage)) \/ UNCHANGED <<pc, permits>>
  <2>1. CASE Acquire(k)
    <3>1. Shift(k, "pop")
      BY <1>1, <2>1 DEF Acquire
    <3>. QED BY <3>1
  <2>2. CASE AcquireTimeout(k)
    <3>1. Shift(k, "out")
      BY <1>1, <2>2 DEF AcquireTimeout
    <3>. QED BY <3>1
  <2>3. CASE PopNone(k)
    <3>1. Shift(k, "dial")
      BY <1>1, <2>3 DEF PopNone, poolVars
    <3>. QED BY <3>1
  <2>4. CASE PopEvict(k)
    BY <2>4 DEF PopEvict
  <2>5. CASE PopUsable(k)
    <3>1. Shift(k, IF Top.txOpen THEN "rollback" ELSE "reset")
      BY <1>1, <2>5 DEF PopUsable
    <3>. QED BY <3>1
  <2>6. CASE \E c \in Conns : Dial(k, c)
    <3>1. Shift(k, "armNew")
      BY <1>1, <2>6 DEF Dial, poolVars
    <3>. QED BY <3>1
  <2>7. CASE DialFails(k)
    <3>1. Shift(k, "out")
      BY <1>1, <2>7 DEF DialFails
    <3>. QED BY <3>1
  <2>8. CASE RecycleRollback(k)
    <3>1. Shift(k, "reset")
      BY <1>1, <2>8 DEF RecycleRollback, poolVars
    <3>. QED BY <3>1
  <2>9. CASE RecycleReset(k)
    <3>1. Shift(k, "arm")
      BY <1>1, <2>9 DEF RecycleReset, poolVars
    <3>. QED BY <3>1
  <2>10. CASE RecycleFails(k)
    <3>1. Shift(k, "pop")
      BY <1>1, <2>10 DEF RecycleFails, poolVars
    <3>. QED BY <3>1
  <2>11. CASE HandOut(k)
    <3>1. Shift(k, "held")
      BY <1>1, <2>11 DEF HandOut
    <3>. QED BY <3>1
  <2>12. CASE ArmNewFails(k)
    <3>1. Shift(k, "out")
      BY <1>1, <2>12 DEF ArmNewFails
    <3>. QED BY <3>1
  <2>. QED
    BY <1>3, <2>1, <2>2, <2>3, <2>4, <2>5, <2>6, <2>7, <2>8, <2>9, <2>10, <2>11,
       <2>12 DEF CheckoutStep
<1>4. ASSUME NEW k \in Clients, AbandonCheckout(k) PROVE Shift(k, "out")
  BY <1>1, <1>4 DEF AbandonCheckout, HasPermit
<1>5. ASSUME NEW k \in Clients, UseStep(k)
      PROVE  (\E stage \in Stages : Shift(k, stage)) \/ UNCHANGED <<pc, permits>>
  <2>1. CASE \/ \E kind \in Kinds : Exec(k, kind)
             \/ BeginTxWith(k) \/ TxControl(k) \/ EndTx(k) \/ Discard(k) \/ HandleErrs(k)
    BY <2>1 DEF Exec, BeginTxWith, TxControl, EndTx, Discard, HandleErrs, poolVars
  <2>2. ASSUME NEW handle \in Handles, NEW kind \in Streamable,
               OpenHandle(k, handle, kind)
        PROVE  Shift(k, handle)
    BY <1>1, <2>2 DEF OpenHandle, poolVars
  <2>3. ASSUME NEW handle \in Handles, NEW kind \in Streamable, NEW sqlError \in BOOLEAN,
               OpenHandleFails(k, handle, kind, sqlError)
        PROVE  UNCHANGED <<pc, permits>>
    BY <2>3 DEF OpenHandleFails, poolVars
  <2>4. CASE FinishHandle(k) \/ FinishGivesUp(k) \/ DropHandle(k) \/ AbortCopyIn(k)
    <3>1. Shift(k, "held")
      BY <1>1, <2>4 DEF FinishHandle, FinishGivesUp, DropHandle, AbortCopyIn, poolVars
    <3>. QED BY <3>1
  <2>5. CASE \E kind \in Streamable : OpenAbandoned(k, kind)
    BY <2>5 DEF OpenAbandoned, poolVars
  <2>. QED
    BY <1>5, <2>1, <2>2, <2>3, <2>4, <2>5 DEF UseStep, HandleStep
<1>6. ASSUME NEW k \in Clients, DropCheckout(k) \/ TeardownGivesUp(k)
      PROVE  Shift(k, "release")
  BY <1>1, <1>6 DEF DropCheckout, TeardownGivesUp
<1>7. ASSUME NEW a \in Actors, ReleasePermit(a)
      PROVE  Shift(a, IF a = Reaper THEN "tick" ELSE "out")
  BY <1>1, <1>7 DEF ReleasePermit
<1>8. ASSUME ReaperStep
      PROVE  \E stage \in Stages : Shift(Reaper, stage)
  <2>1. CASE ReapTick
    <3>1. Shift(Reaper, "tick")
      BY <1>1, <2>1 DEF ReapTick
    <3>. QED BY <3>1
  <2>2. CASE ReapPop
    <3>1. Shift(Reaper, "ping")
      BY <1>1, <2>2 DEF ReapPop
    <3>. QED BY <3>1
  <2>3. CASE ReapStop
    <3>1. Shift(Reaper, "out")
      BY <1>1, <2>3 DEF ReapStop
    <3>. QED BY <3>1
  <2>4. CASE ReapKeep \/ ReapEvict
    <3>1. Shift(Reaper, "release")
      BY <1>1, <2>4 DEF ReapKeep, ReapEvict
    <3>. QED BY <3>1
  <2>. QED
    BY <1>8, <2>1, <2>2, <2>3, <2>4 DEF ReaperStep
<1>9. ASSUME NEW c \in Conns, ServerEnds(c) \/ DriverNotices(c)
      PROVE  UNCHANGED <<pc, permits>>
  BY <1>9 DEF ServerEnds, DriverNotices, poolVars
<1>. HIDE DEF Shift
<1>. QED
  BY <1>1, <1>2, <1>3, <1>4, <1>5, <1>6, <1>7, <1>8, <1>9 DEF Next

(* All permits are there at the start.                                     *)
LEMMA InitPermits == Init => PermitsConserved
<1>. SUFFICES ASSUME Init PROVE PermitsConserved
  OBVIOUS
<1>1. {a \in Actors : HasPermit(a)} = {}
  BY DEF Init, HasPermit
<1>2. Cardinality({a \in Actors : HasPermit(a)}) = 0
  BY <1>1, FS_EmptySet
<1>3. permits + 0 = MaxSize
  BY SizeAssumption DEF Init
<1>. QED
  BY <1>2, <1>3 DEF PermitsConserved

(* Every step keeps the sum of free and held permits.                      *)
LEMMA NextPermits == IInv /\ IInv' /\ PermitsConserved /\ [Next]_vars => PermitsConserved'
<1>. SUFFICES ASSUME IInv, IInv', PermitsConserved, [Next]_vars PROVE PermitsConserved'
  OBVIOUS
<1>1. permits' \in Nat
  BY DEF IInv, TypeOK
<1>2. CASE UNCHANGED <<pc, permits>>
  BY <1>2 DEF PermitsConserved, HasPermit
<1>3. CASE Next
  BY <1>1, <1>2, <1>3, ActionsShift, ShiftConserves
<1>. QED
  BY <1>2, <1>3 DEF vars

(* Every permit is accounted for, whichever await a checkout ends at.      *)
THEOREM PermitsNeverLeak == Spec => []PermitsConserved
  BY InitIInv, NextIInv, InitPermits, NextPermits, PTL DEF Spec

-----------------------------------------------------------------------------
(* Capacity.  The bound on live sessions is not inductive: a caller that   *)
(* found the stack empty is about to add one.  Counting the dials in       *)
(* flight as sessions makes it so, and a dial starts only when every live  *)
(* session is leased under a permit of its own.                            *)

Live == {c \in Conns : link[c] # "none"}
Dialing == {a \in Actors : pc[a] = "dial"}
LeasingActors == {a \in Actors : pc[a] \in Leasing}

Bounded ==
  /\ IsFiniteSet(Live)
  /\ Cardinality(Live) + Cardinality(Dialing) <= MaxSize

(* The actors that dial are finitely many.                                 *)
LEMMA DialingFinite ==
  /\ IsFiniteSet(Dialing) /\ Cardinality(Dialing) \in Nat
  /\ IsFiniteSet(LeasingActors) /\ Cardinality(LeasingActors) \in Nat
<1>1. Dialing \in SUBSET Actors /\ LeasingActors \in SUBSET Actors
  BY DEF Dialing, LeasingActors
<1>. QED
  BY <1>1, HoldersFinite, FS_Subset, FS_CardinalityType

(* With nothing idle, live sessions inject into the actors leasing them.   *)
LEMMA LiveLeased ==
  ASSUME IInv, idle = <<>>
  PROVE  Cardinality(Live) <= Cardinality(LeasingActors)
<1>. DEFINE f == [c \in Live |-> CHOOSE a \in LeasingActors : lease[a].conn = c]
<1>1. \A c \in Live : \E a \in LeasingActors : lease[a].conn = c
  <2>. SUFFICES ASSUME NEW c \in Live PROVE \E a \in LeasingActors : lease[a].conn = c
    OBVIOUS
  <2>1. c \in Conns /\ c # NoConn /\ link[c] # "none"
    BY ConnAssumption DEF Live
  <2>2. \E a \in Actors : lease[a].conn = c
    BY <2>1 DEF IInv, OnePlace
  <2>. QED
    BY <2>1, <2>2 DEF IInv, OnePlace, LeasingActors
<1>2. \A c \in Live : f[c] \in LeasingActors /\ lease[f[c]].conn = c
  BY <1>1
<1>. HIDE DEF f
<1>3. f \in [Live -> LeasingActors]
  BY <1>2 DEF f
<1>4. f \in Injection(Live, LeasingActors)
  BY <1>2, <1>3 DEF Injection, IsInjective
<1>. QED
  BY <1>4, DialingFinite, FS_Injection

(* A step that starts no dial and creates no session keeps the bound.      *)
LEMMA NoNewSession ==
  ASSUME Bounded, Live' \subseteq Live, Dialing' \subseteq Dialing
  PROVE  Bounded'
<1>1. /\ IsFiniteSet(Live') /\ Cardinality(Live') <= Cardinality(Live)
      /\ Cardinality(Live) \in Nat /\ Cardinality(Live') \in Nat
  BY FS_Subset, FS_CardinalityType DEF Bounded
<1>2. /\ Cardinality(Dialing') <= Cardinality(Dialing)
      /\ Cardinality(Dialing) \in Nat /\ Cardinality(Dialing') \in Nat
  BY DialingFinite, FS_Subset, FS_CardinalityType
<1>. QED
  BY <1>1, <1>2, SizeAssumption DEF Bounded

(* A caller that finds the stack empty holds a permit that no live session *)
(* and no other dial uses.                                                 *)
LEMMA PopNoneBounded ==
  ASSUME IInv, PermitsConserved, Bounded, NEW k \in Clients, PopNone(k)
  PROVE  Bounded'
<1>1. k \in Actors /\ pc[k] = "pop" /\ idle = <<>>
  BY DEF PopNone, Actors
<1>2. Live' = Live
  BY DEF PopNone, Live
<1>3. Dialing' = Dialing \cup {k} /\ k \notin Dialing
  BY <1>1 DEF PopNone, Goto, Dialing, IInv, TypeOK
<1>4. IsFiniteSet(Dialing') /\ Cardinality(Dialing') = Cardinality(Dialing) + 1
  BY <1>3, DialingFinite, FS_AddElement
<1>5. LeasingActors \cap Dialing' = {} /\ LeasingActors \cup Dialing' \in SUBSET Holders
  BY <1>1, <1>3, StagesType DEF LeasingActors, Dialing, Holders, HasPermit
<1>6. Cardinality(LeasingActors \cup Dialing') =
        Cardinality(LeasingActors) + Cardinality(Dialing')
  <2>1. Cardinality(LeasingActors \cap Dialing') = 0
    BY <1>5, FS_EmptySet
  <2>2. Cardinality(LeasingActors \cup Dialing') =
          Cardinality(LeasingActors) + Cardinality(Dialing')
            - Cardinality(LeasingActors \cap Dialing')
    BY <1>4, DialingFinite, FS_Union
  <2>3. Cardinality(LeasingActors) \in Nat /\ Cardinality(Dialing') \in Nat
    BY <1>4, DialingFinite
  <2>. QED
    BY <2>1, <2>2, <2>3
<1>7. Cardinality(LeasingActors \cup Dialing') <= Cardinality(Holders)
      /\ Cardinality(Holders) \in Nat
  BY <1>5, HoldersFinite, FS_Subset, FS_CardinalityType
<1>8. Cardinality(Holders) <= MaxSize
  <2>. DEFINE h == Cardinality(Holders)
  <2>1. h \in Nat /\ permits \in Nat /\ permits + h = MaxSize
    BY <1>7 DEF PermitsConserved, Holders, IInv, TypeOK
  <2>. HIDE DEF h
  <2>2. h <= MaxSize
    BY <2>1, SizeAssumption
  <2>. QED
    BY <2>2 DEF h
<1>9. Cardinality(Live) <= Cardinality(LeasingActors) /\ Cardinality(Live) \in Nat
  BY <1>1, LiveLeased, FS_CardinalityType DEF Bounded
<1>10. Cardinality(Live) + Cardinality(Dialing') <= MaxSize
  BY <1>4, <1>6, <1>7, <1>8, <1>9, DialingFinite, SizeAssumption
<1>. QED
  BY <1>2, <1>10 DEF Bounded

(* A dial that succeeds turns into the session it was counted for.         *)
LEMMA DialBounded ==
  ASSUME IInv, Bounded, NEW k \in Clients, NEW c \in Conns, Dial(k, c)
  PROVE  Bounded'
<1>1. k \in Actors /\ pc[k] = "dial"
  BY DEF Dial, Actors
<1>2. Live' = Live \cup {c} /\ c \notin Live
  BY DEF Dial, Live, IInv, TypeOK
<1>3. Dialing' = Dialing \ {k} /\ k \in Dialing
  BY <1>1 DEF Dial, Goto, Dialing, IInv, TypeOK
<1>4. IsFiniteSet(Live') /\ Cardinality(Live') = Cardinality(Live) + 1
      /\ Cardinality(Live) \in Nat
  BY <1>2, FS_AddElement, FS_CardinalityType DEF Bounded
<1>5. Cardinality(Dialing') = Cardinality(Dialing) - 1
  BY <1>3, DialingFinite, FS_RemoveElement
<1>. QED
  BY <1>4, <1>5, DialingFinite, SizeAssumption DEF Bounded

(* No other action starts a dial or creates a session.                     *)
LEMMA OthersCreateNothing ==
  ASSUME IInv, Next,
         ~ \E k \in Clients : PopNone(k) \/ \E c \in Conns : Dial(k, c)
  PROVE  Live' \subseteq Live /\ Dialing' \subseteq Dialing
<1>. USE DEF Goto, Live, Dialing, Forget, poolVars
<1>1. /\ pc \in [Actors -> Stages] /\ Reaper \in Actors
      /\ link \in [Conns -> {"none", "up", "dying", "closed"}]
      /\ \A k \in Clients : k \in Actors
  BY DEF IInv, TypeOK, Actors
<1>2. ASSUME NEW k \in Clients, NEW ro \in BOOLEAN, Checkout(k, ro)
      PROVE  Live' \subseteq Live /\ Dialing' \subseteq Dialing
  BY <1>1, <1>2 DEF Checkout
<1>3. ASSUME NEW k \in Clients, CheckoutStep(k)
      PROVE  Live' \subseteq Live /\ Dialing' \subseteq Dialing
  <2>1. CASE Acquire(k) \/ AcquireTimeout(k) \/ DialFails(k) \/ HandOut(k)
    BY <1>1, <2>1 DEF Acquire, AcquireTimeout, DialFails, HandOut
  <2>2. CASE PopEvict(k)
    BY <1>1, <2>2 DEF PopEvict
  <2>3. CASE PopUsable(k)
    BY <1>1, <2>3 DEF PopUsable
  <2>4. CASE RecycleRollback(k) \/ RecycleReset(k)
    BY <1>1, <2>4 DEF RecycleRollback, RecycleReset
  <2>5. CASE RecycleFails(k) \/ ArmNewFails(k)
    BY <1>1, <2>5 DEF RecycleFails, ArmNewFails
  <2>. QED
    BY <1>3, <2>1, <2>2, <2>3, <2>4, <2>5 DEF CheckoutStep
<1>4. ASSUME NEW k \in Clients, AbandonCheckout(k)
      PROVE  Live' \subseteq Live /\ Dialing' \subseteq Dialing
  BY <1>1, <1>4 DEF AbandonCheckout
<1>5. ASSUME NEW k \in Clients, UseStep(k)
      PROVE  Live' \subseteq Live /\ Dialing' \subseteq Dialing
  <2>1. CASE \/ \E kind \in Kinds : Exec(k, kind)
             \/ BeginTxWith(k) \/ TxControl(k) \/ EndTx(k) \/ Discard(k) \/ HandleErrs(k)
    BY <2>1 DEF Exec, BeginTxWith, TxControl, EndTx, Discard, HandleErrs
  <2>2. ASSUME NEW handle \in Handles, NEW kind \in Streamable,
               OpenHandle(k, handle, kind)
        PROVE  Live' \subseteq Live /\ Dialing' \subseteq Dialing
    BY <1>1, <2>2 DEF OpenHandle, Handles
  <2>3. ASSUME NEW handle \in Handles, NEW kind \in Streamable, NEW sqlError \in BOOLEAN,
               OpenHandleFails(k, handle, kind, sqlError)
        PROVE  Live' \subseteq Live /\ Dialing' \subseteq Dialing
    BY <2>3 DEF OpenHandleFails
  <2>4. CASE FinishHandle(k) \/ FinishGivesUp(k) \/ DropHandle(k) \/ AbortCopyIn(k)
    BY <1>1, <2>4 DEF FinishHandle, FinishGivesUp, DropHandle, AbortCopyIn
  <2>5. CASE \E kind \in Streamable : OpenAbandoned(k, kind)
    BY <2>5 DEF OpenAbandoned
  <2>. QED
    BY <1>5, <2>1, <2>2, <2>3, <2>4, <2>5 DEF UseStep, HandleStep
<1>6. ASSUME NEW k \in Clients, DropCheckout(k) \/ TeardownGivesUp(k)
      PROVE  Live' \subseteq Live /\ Dialing' \subseteq Dialing
  BY <1>1, <1>6 DEF DropCheckout, TeardownGivesUp
<1>7. ASSUME NEW a \in Actors, ReleasePermit(a)
      PROVE  Live' \subseteq Live /\ Dialing' \subseteq Dialing
  BY <1>1, <1>7 DEF ReleasePermit
<1>8. ASSUME ReaperStep
      PROVE  Live' \subseteq Live /\ Dialing' \subseteq Dialing
  BY <1>1, <1>8 DEF ReaperStep, ReapTick, ReapPop, ReapStop, ReapKeep, ReapEvict
<1>9. ASSUME NEW c \in Conns, ServerEnds(c) \/ DriverNotices(c)
      PROVE  Live' \subseteq Live /\ Dialing' \subseteq Dialing
  BY <1>1, <1>9 DEF ServerEnds, DriverNotices
<1>10. ASSUME NEW k \in Clients PROVE ~ PopNone(k) /\ \A c \in Conns : ~ Dial(k, c)
  OBVIOUS
<1>. HIDE DEF Goto, Live, Dialing, Forget, poolVars
<1>. QED
  BY <1>2, <1>3, <1>4, <1>5, <1>6, <1>7, <1>8, <1>9 DEF Next

(* At the start no session exists and nobody dials.                        *)
LEMMA InitBounded == Init => Bounded
<1>. SUFFICES ASSUME Init PROVE Bounded
  OBVIOUS
<1>1. Live = {} /\ Dialing = {}
  BY DEF Init, Live, Dialing
<1>2. Cardinality(Live) = 0 /\ Cardinality(Dialing) = 0 /\ IsFiniteSet(Live)
  BY <1>1, FS_EmptySet
<1>. QED
  BY <1>2, SizeAssumption DEF Bounded

(* Every step keeps sessions plus dials within the permits held.           *)
LEMMA NextBounded ==
  IInv /\ PermitsConserved /\ Bounded /\ [Next]_vars => Bounded'
<1>. SUFFICES ASSUME IInv, PermitsConserved, Bounded, [Next]_vars PROVE Bounded'
  OBVIOUS
<1>1. CASE \E k \in Clients : PopNone(k)
  BY <1>1, PopNoneBounded
<1>2. CASE \E k \in Clients, c \in Conns : Dial(k, c)
  BY <1>2, DialBounded
<1>3. CASE UNCHANGED vars
  BY <1>3 DEF vars, Bounded, Live, Dialing
<1>4. CASE Next /\ ~ \E k \in Clients : PopNone(k) \/ \E c \in Conns : Dial(k, c)
  BY <1>4, OthersCreateNothing, NoNewSession
<1>. QED
  BY <1>1, <1>2, <1>3, <1>4

(* The pool never owns more than max_size sessions, the reaper's pings and *)
(* the dials that race them included.                                      *)
THEOREM NeverOverCapacity == Spec => []Capacity
<1>1. Bounded => Capacity
  <2>. SUFFICES ASSUME Bounded PROVE Capacity
    OBVIOUS
  <2>1. Cardinality(Live) \in Nat
    BY FS_CardinalityType DEF Bounded
  <2>2. Cardinality(Live) <= MaxSize
    BY <2>1, DialingFinite, SizeAssumption DEF Bounded
  <2>. QED
    BY <2>2 DEF Capacity, Live
<1>. QED
  BY InitIInv, NextIInv, InitPermits, NextPermits, InitBounded, NextBounded, <1>1, PTL
     DEF Spec

-----------------------------------------------------------------------------
(***************************************************************************)
(* QueueWaker.  A critical section of the waker is a chain of calls, each  *)
(* of which starts a sweep, keeps a trigger or drops one.  What the chain  *)
(* keeps is stated of the state under the lock (LockInv, Idle, Answered)   *)
(* and lifted from one call to all by taking the first that would break    *)
(* it.  The invariant Inv adds where the reservations are (Once, Apart),   *)
(* what the handlers have left to do (Handlers, Looked), and why no hint   *)
(* is lost: a kept trigger has nobody it could serve (AllIdle), a sweep    *)
(* that is back and not full has left no announced job (Swept), and a      *)
(* queue where such a job lies has a sweep or a trigger (AllAnswered).     *)
(***************************************************************************)

(* A set of naturals that is not empty has a least element.                   *)
LEMMA LeastNat ==
  ASSUME NEW T, T \subseteq Nat, T # {}
  PROVE  \E m \in T : \A y \in T : m <= y
<1>1. PICK m \in T : \A y \in T : ~ (<<y, m>> \in OpToRel(<, Nat))
  BY NatLessThanWellFounded, WFMin
<1>2. ASSUME NEW y \in T, y < m PROVE FALSE
  <2>1. y \in Nat /\ m \in Nat
    OBVIOUS
  <2>2. <<y, m>> \in OpToRel(<, Nat)
    BY <1>2, <2>1 DEF OpToRel
  <2> QED
    BY <1>1, <2>2
<1> QED
  BY <1>2

-----------------------------------------------------------------------------
(* Sequences without repetitions.                                              *)

(* The members of a sequence, by their positions.                             *)
LEMMA SeqSet ==
  ASSUME NEW T, NEW seq \in Seq(T)
  PROVE  /\ Len(seq) \in Nat /\ DOMAIN seq = 1 .. Len(seq)
         /\ \A i \in 1 .. Len(seq) : seq[i] \in T /\ seq[i] \in ToSet(seq)
         /\ \A x \in ToSet(seq) : x \in T /\ \E i \in 1 .. Len(seq) : x = seq[i]
         /\ IsInjective(seq) <=> \A i, j \in 1 .. Len(seq) : seq[i] = seq[j] => i = j
<1>1. Len(seq) \in Nat /\ DOMAIN seq = 1 .. Len(seq) /\ \A i \in 1 .. Len(seq) : seq[i] \in T
  OBVIOUS
<1> QED
  BY <1>1 DEF ToSet, IsInjective

(* What is appended to a sequence is its one new member.                      *)
LEMMA AppendSet ==
  ASSUME NEW T, NEW seq \in Seq(T), NEW x \in T
  PROVE  /\ Append(seq, x) \in Seq(T)
         /\ ToSet(Append(seq, x)) = ToSet(seq) \cup {x}
         /\ IsInjective(seq) /\ x \notin ToSet(seq) => IsInjective(Append(seq, x))
<1> DEFINE app == Append(seq, x)
           n == Len(seq)
<1>1. /\ app \in Seq(T) /\ Len(app) = n + 1 /\ app[n + 1] = x
      /\ \A i \in 1 .. n : app[i] = seq[i]
  OBVIOUS
<1>2. n \in Nat
  OBVIOUS
<1>3. ToSet(app) = {app[i] : i \in 1 .. n + 1}
  BY <1>1 DEF ToSet
<1>4. ToSet(seq) = {seq[i] : i \in 1 .. n}
  BY DEF ToSet
<1>5. ToSet(app) = ToSet(seq) \cup {x}
  <2> HIDE DEF app, n
  <2>1. \A i \in 1 .. n + 1 : i \in 1 .. n \/ i = n + 1
    BY <1>2
  <2>2. \A i \in 1 .. n : i \in 1 .. n + 1
    BY <1>2
  <2>3. n + 1 \in 1 .. n + 1
    BY <1>2
  <2> QED
    BY <1>1, <1>3, <1>4, <2>1, <2>2, <2>3
<1>6. ASSUME IsInjective(seq), x \notin ToSet(seq) PROVE IsInjective(app)
  <2>1. \A i, j \in 1 .. n : seq[i] = seq[j] => i = j
    BY <1>6, SeqSet
  <2>2. \A i \in 1 .. n : seq[i] # x
    BY <1>4, <1>6
  <2>3. \A i, j \in 1 .. n + 1 : app[i] = app[j] => i = j
    <3> HIDE DEF app, n
    <3> TAKE i, j \in 1 .. n + 1
    <3>1. (i \in 1 .. n \/ i = n + 1) /\ (j \in 1 .. n \/ j = n + 1)
      BY <1>2
    <3> QED
      BY <1>1, <2>1, <2>2, <3>1
  <2> QED
    BY <1>1, <2>3, SeqSet
<1> QED
  BY <1>1, <1>5, <1>6

Filters(seq, set, n, g) ==
  /\ g[0] = <<>>
  /\ \A i \in 1 .. n : g[i] = IF seq[i] \in set THEN Append(g[i - 1], seq[i]) ELSE g[i - 1]

(* The prefixes that Only builds exist: otherwise take the first one          *)
(* missing.                                                                   *)
LEMMA FilterExists ==
  ASSUME NEW T, NEW seq \in Seq(T), NEW set
  PROVE  \E g \in [0 .. Len(seq) -> Seq(T)] : Filters(seq, set, Len(seq), g)
<1> DEFINE Bad == {n \in 0 .. Len(seq) : ~ \E g \in [0 .. n -> Seq(T)] : Filters(seq, set, n, g)}
<1>0. Len(seq) \in Nat /\ \A i \in 1 .. Len(seq) : seq[i] \in T
  OBVIOUS
<1>1. SUFFICES ASSUME Len(seq) \in Bad PROVE FALSE
  BY <1>0
<1>2. PICK n \in Bad : \A y \in Bad : n <= y
  <2>1. Bad \subseteq Nat /\ Bad # {}
    BY <1>0, <1>1
  <2> HIDE DEF Bad
  <2> QED
    BY <2>1, LeastNat
<1>3. n \in 0 .. Len(seq) /\ ~ \E g \in [0 .. n -> Seq(T)] : Filters(seq, set, n, g)
  BY <1>2
<1>4. CASE n = 0
  <2> DEFINE g == [i \in 0 .. 0 |-> <<>>]
  <2>1. g \in [0 .. 0 -> Seq(T)] /\ g[0] = <<>>
    OBVIOUS
  <2>2. Filters(seq, set, 0, g)
    BY <2>1 DEF Filters
  <2> QED
    BY <1>3, <1>4, <2>1, <2>2
<1>5. CASE n > 0
  <2>1. n - 1 \in 0 .. Len(seq) /\ n - 1 \notin Bad
    <3>1. n - 1 \in 0 .. Len(seq) /\ ~ (n <= n - 1)
      BY <1>0, <1>3, <1>5
    <3> HIDE DEF Bad
    <3> QED
      BY <1>2, <3>1
  <2>2. PICK g \in [0 .. n - 1 -> Seq(T)] : Filters(seq, set, n - 1, g)
    BY <2>1
  <2> DEFINE e == IF seq[n] \in set THEN Append(g[n - 1], seq[n]) ELSE g[n - 1]
             f == [i \in 0 .. n |-> IF i = n THEN e ELSE g[i]]
  <2>3. e \in Seq(T)
    <3>1. g[n - 1] \in Seq(T) /\ seq[n] \in T
      BY <1>0, <1>3, <1>5, <2>2
    <3> QED
      BY <3>1
  <2> HIDE DEF e
  <2>4. f \in [0 .. n -> Seq(T)]
    BY <1>3, <2>2, <2>3
  <2>5. f[0] = <<>>
    BY <1>3, <1>5, <2>2 DEF Filters
  <2>6. ASSUME NEW i \in 1 .. n
        PROVE  f[i] = IF seq[i] \in set THEN Append(f[i - 1], seq[i]) ELSE f[i - 1]
    <3>1. CASE i = n
      <4>1. f[n] = e /\ f[n - 1] = g[n - 1]
        BY <1>3, <1>5
      <4> QED
        BY <3>1, <4>1 DEF e
    <3>2. CASE i # n
      <4>1. i \in 1 .. n - 1 /\ i \in 0 .. n /\ i - 1 \in 0 .. n /\ i - 1 # n
        BY <1>3, <3>2
      <4>2. f[i] = g[i] /\ f[i - 1] = g[i - 1]
        BY <3>2, <4>1
      <4> QED
        BY <2>2, <4>1, <4>2 DEF Filters
    <3> QED
      BY <3>1, <3>2
  <2>7. Filters(seq, set, n, f)
    <3> HIDE DEF f
    <3> QED
      BY <2>5, <2>6 DEF Filters
  <2> QED
    BY <1>3, <2>4, <2>7
<1> QED
  BY <1>3, <1>4, <1>5

(* Only keeps the members that are in the set, and repeats none.               *)
LEMMA OnlyFacts ==
  ASSUME NEW T, NEW seq \in Seq(T), NEW set
  PROVE  /\ Only(seq, set) \in Seq(T)
         /\ ToSet(Only(seq, set)) = ToSet(seq) \cap set
         /\ IsInjective(seq) => IsInjective(Only(seq, set))
<1> DEFINE Is(f) == f = [i \in 0 .. Len(seq) |->
                           IF i = 0 THEN <<>>
                           ELSE IF seq[i] \in set THEN Append(f[i - 1], seq[i]) ELSE f[i - 1]]
           u == CHOOSE f : Is(f)
<1>0. Len(seq) \in Nat /\ \A i \in 1 .. Len(seq) : seq[i] \in T
  OBVIOUS
<1>1. PICK g \in [0 .. Len(seq) -> Seq(T)] : Filters(seq, set, Len(seq), g)
  BY FilterExists
<1>2. Is(g)
  <2>1. g = [i \in 0 .. Len(seq) |-> g[i]]
    BY <1>1
  <2>2. \A i \in 0 .. Len(seq) :
           g[i] = IF i = 0 THEN <<>>
                  ELSE IF seq[i] \in set THEN Append(g[i - 1], seq[i]) ELSE g[i - 1]
    <3> TAKE i \in 0 .. Len(seq)
    <3>1. i = 0 \/ i \in 1 .. Len(seq)
      BY <1>0
    <3> QED
      BY <1>1, <3>1 DEF Filters
  <2> QED
    BY <2>1, <2>2
<1>3. Is(u)
  BY <1>2
<1>4. Only(seq, set) = u[Len(seq)]
  BY DEF Only
<1> HIDE DEF u
<1>5. \A i \in 0 .. Len(seq) :
         u[i] = IF i = 0 THEN <<>>
                ELSE IF seq[i] \in set THEN Append(u[i - 1], seq[i]) ELSE u[i - 1]
  BY <1>3
<1> HIDE DEF Is
<1> DEFINE Sound(i) ==
             /\ u[i] \in Seq(T)
             /\ ToSet(u[i]) = {seq[j] : j \in 1 .. i} \cap set
             /\ IsInjective(seq) => IsInjective(u[i])
           Bad == {i \in 0 .. Len(seq) : ~ Sound(i)}
<1>6. SUFFICES ASSUME Bad # {} PROVE FALSE
  <2>1. Sound(Len(seq))
    <3> HIDE DEF Sound
    <3> QED
      BY <1>0, <1>6
  <2>2. {seq[j] : j \in 1 .. Len(seq)} = ToSet(seq)
    BY DEF ToSet
  <2> QED
    BY <1>4, <2>1, <2>2
<1>7. PICK m \in Bad : \A y \in Bad : m <= y
  <2>1. Bad \subseteq Nat
    BY <1>0
  <2> HIDE DEF Bad
  <2> QED
    BY <1>6, <2>1, LeastNat
<1>8. m \in 0 .. Len(seq) /\ ~ Sound(m)
  BY <1>7
<1>9. m # 0
  <2>1. u[0] = <<>>
    BY <1>0, <1>5
  <2>2. Sound(0)
    BY <2>1 DEF ToSet, IsInjective
  <2> QED
    BY <1>8, <2>2
<1>10. m - 1 \in 0 .. Len(seq) /\ m - 1 \notin Bad /\ m \in 1 .. Len(seq)
  <2>1. m - 1 \in 0 .. Len(seq) /\ m \in 1 .. Len(seq) /\ ~ (m <= m - 1)
    BY <1>0, <1>8, <1>9
  <2> HIDE DEF Bad
  <2> QED
    BY <1>7, <2>1
<1>11. Sound(m - 1)
  BY <1>10
<1>12. {seq[j] : j \in 1 .. m} = {seq[j] : j \in 1 .. m - 1} \cup {seq[m]}
  <2>1. \A j \in 1 .. m : j \in 1 .. m - 1 \/ j = m
    BY <1>10
  <2>2. \A j \in 1 .. m - 1 : j \in 1 .. m
    BY <1>10
  <2>3. m \in 1 .. m
    BY <1>10
  <2> QED
    BY <2>1, <2>2, <2>3
<1>13. u[m] = IF seq[m] \in set THEN Append(u[m - 1], seq[m]) ELSE u[m - 1]
  BY <1>5, <1>8, <1>9
<1>14. CASE seq[m] \notin set
  <2>1. u[m] = u[m - 1]
    BY <1>13, <1>14
  <2>2. {seq[j] : j \in 1 .. m} \cap set = {seq[j] : j \in 1 .. m - 1} \cap set
    BY <1>12, <1>14
  <2> QED
    BY <1>8, <1>11, <2>1, <2>2
<1>15. CASE seq[m] \in set
  <2>1. u[m] = Append(u[m - 1], seq[m]) /\ seq[m] \in T
    BY <1>0, <1>10, <1>13, <1>15
  <2>2. /\ u[m] \in Seq(T) /\ ToSet(u[m]) = ToSet(u[m - 1]) \cup {seq[m]}
        /\ IsInjective(u[m - 1]) /\ seq[m] \notin ToSet(u[m - 1]) => IsInjective(u[m])
    BY <1>11, <2>1, AppendSet
  <2>3. {seq[j] : j \in 1 .. m} \cap set = ({seq[j] : j \in 1 .. m - 1} \cap set) \cup {seq[m]}
    BY <1>12, <1>15
  <2>4. IsInjective(seq) => seq[m] \notin ToSet(u[m - 1])
    <3>1. \A j \in 1 .. m - 1 : j \in 1 .. Len(seq) /\ j # m
      BY <1>10
    <3>2. IsInjective(seq) => \A j \in 1 .. m - 1 : seq[j] # seq[m]
      BY <1>10, <3>1, SeqSet
    <3> QED
      BY <1>11, <3>2
  <2> QED
    BY <1>8, <1>11, <2>2, <2>3, <2>4
<1> QED
  BY <1>14, <1>15

(* The members of two sequences in a row; none twice if they share none.      *)
LEMMA ConcatSet ==
  ASSUME NEW T, NEW s \in Seq(T), NEW t \in Seq(T)
  PROVE  /\ s \o t \in Seq(T) /\ Len(s \o t) = Len(s) + Len(t)
         /\ ToSet(s \o t) = ToSet(s) \cup ToSet(t)
         /\ IsInjective(s) /\ IsInjective(t) /\ ToSet(s) \cap ToSet(t) = {}
              => IsInjective(s \o t)
<1> DEFINE st == s \o t
           m == Len(s)
           n == Len(t)
<1>1. /\ st \in Seq(T) /\ Len(st) = m + n
      /\ \A i \in 1 .. m + n : st[i] = IF i <= m THEN s[i] ELSE t[i - m]
  OBVIOUS
<1>2. m \in Nat /\ n \in Nat
  OBVIOUS
<1>3. /\ ToSet(st) = {st[i] : i \in 1 .. m + n}
      /\ ToSet(s) = {s[i] : i \in 1 .. m} /\ ToSet(t) = {t[i] : i \in 1 .. n}
  BY <1>1 DEF ToSet
<1>4. IsInjective(s) => \A i, j \in 1 .. m : s[i] = s[j] => i = j
  BY SeqSet
<1>5. IsInjective(t) => \A i, j \in 1 .. n : t[i] = t[j] => i = j
  BY SeqSet
<1>6. (\A i, j \in 1 .. m + n : st[i] = st[j] => i = j) => IsInjective(st)
  BY <1>1, SeqSet
<1> HIDE DEF st, m, n
<1>7. \A i \in 1 .. m + n : (i <= m /\ i \in 1 .. m) \/ (~ (i <= m) /\ i - m \in 1 .. n)
  BY <1>2
<1>8. \A i \in 1 .. m : i \in 1 .. m + n /\ i <= m
  BY <1>2
<1>9. \A i \in 1 .. n : m + i \in 1 .. m + n /\ ~ (m + i <= m) /\ (m + i) - m = i
  BY <1>2
<1>10. ToSet(st) = ToSet(s) \cup ToSet(t)
  <2>1. \A x \in ToSet(st) : x \in ToSet(s) \cup ToSet(t)
    BY <1>1, <1>3, <1>7
  <2>2. \A i \in 1 .. m : st[i] = s[i]
    BY <1>1, <1>8
  <2>3. \A i \in 1 .. n : st[m + i] = t[i]
    BY <1>1, <1>9
  <2>4. \A i \in 1 .. m : s[i] \in ToSet(st)
    BY <1>3, <1>8, <2>2
  <2>5. \A i \in 1 .. n : t[i] \in ToSet(st)
    BY <1>3, <1>9, <2>3
  <2> QED
    BY <1>3, <2>1, <2>4, <2>5
<1>11. ASSUME IsInjective(s), IsInjective(t), ToSet(s) \cap ToSet(t) = {}
       PROVE  \A i, j \in 1 .. m + n : st[i] = st[j] => i = j
  <2> TAKE i, j \in 1 .. m + n
  <2> HAVE st[i] = st[j]
  <2>1. \A a \in 1 .. m, b \in 1 .. n : s[a] # t[b]
    BY <1>3, <1>11
  <2>2. CASE i <= m /\ j <= m
    BY <1>1, <1>4, <1>7, <1>11, <2>2
  <2>3. CASE ~ (i <= m) /\ ~ (j <= m)
    <3>1. st[i] = t[i - m] /\ st[j] = t[j - m] /\ i - m \in 1 .. n /\ j - m \in 1 .. n
      BY <1>1, <1>7, <2>3
    <3>2. i - m = j - m
      BY <1>5, <1>11, <3>1
    <3> QED
      BY <1>2, <3>2
  <2>4. CASE i <= m /\ ~ (j <= m)
    BY <1>1, <1>7, <2>1, <2>4
  <2>5. CASE ~ (i <= m) /\ j <= m
    BY <1>1, <1>7, <2>1, <2>5
  <2> QED
    BY <2>2, <2>3, <2>4, <2>5
<1> QED
  BY <1>1, <1>6, <1>10, <1>11 DEF st, m, n

(* The members of a part of a sequence.                                       *)
LEMMA SubSeqSet ==
  ASSUME NEW T, NEW seq \in Seq(T), NEW a \in Nat \ {0}, NEW b \in Nat, b <= Len(seq)
  PROVE  /\ SubSeq(seq, a, b) \in Seq(T)
         /\ ToSet(SubSeq(seq, a, b)) = {seq[p] : p \in a .. b}
         /\ IsInjective(seq) => IsInjective(SubSeq(seq, a, b))
         /\ SubSeq(seq, a, b) = <<>> <=> b < a
<1> DEFINE sub == SubSeq(seq, a, b)
           n == IF a <= b THEN b - a + 1 ELSE 0
<1>1. /\ sub \in Seq(T) /\ Len(sub) = n
      /\ \A i \in 1 .. n : sub[i] = seq[a + i - 1]
  OBVIOUS
<1>2. ToSet(sub) = {sub[i] : i \in 1 .. n}
  <2> HIDE DEF sub, n
  <2>1. DOMAIN sub = 1 .. n
    BY <1>1
  <2> QED
    BY <2>1 DEF ToSet
<1>3. IsInjective(seq) => \A i, j \in 1 .. Len(seq) : seq[i] = seq[j] => i = j
  BY SeqSet
<1>4. (\A i, j \in 1 .. n : sub[i] = sub[j] => i = j) => IsInjective(sub)
  BY <1>1, SeqSet
<1>5. sub = <<>> <=> n = 0
  BY <1>1
<1> HIDE DEF sub
<1>6. \A i \in 1 .. n : a + i - 1 \in a .. b /\ a + i - 1 \in 1 .. Len(seq)
  OBVIOUS
<1>7. \A p \in a .. b : p - a + 1 \in 1 .. n /\ a + (p - a + 1) - 1 = p
  OBVIOUS
<1>8. n = 0 <=> b < a
  OBVIOUS
<1> HIDE DEF n
<1>9. ToSet(sub) = {seq[p] : p \in a .. b}
  <2>1. \A p \in a .. b : sub[p - a + 1] = seq[p]
    BY <1>1, <1>7
  <2>2. \A x \in ToSet(sub) : x \in {seq[p] : p \in a .. b}
    <3> TAKE x \in ToSet(sub)
    <3>1. PICK i \in 1 .. n : x = sub[i]
      BY <1>2
    <3>2. x = seq[a + i - 1] /\ a + i - 1 \in a .. b
      BY <1>1, <1>6, <3>1
    <3> QED
      BY <3>2
  <2>3. \A p \in a .. b : seq[p] \in ToSet(sub)
    <3> TAKE p \in a .. b
    <3>1. p - a + 1 \in 1 .. n
      BY <1>7
    <3>2. sub[p - a + 1] \in ToSet(sub)
      BY <1>2, <3>1
    <3> QED
      BY <2>1, <3>2
  <2> QED
    BY <2>2, <2>3
<1>10. ASSUME IsInjective(seq) PROVE \A i, j \in 1 .. n : sub[i] = sub[j] => i = j
  <2> TAKE i, j \in 1 .. n
  <2> HAVE sub[i] = sub[j]
  <2>1. a + i - 1 = a + j - 1
    BY <1>1, <1>3, <1>6, <1>10
  <2>2. i \in Int /\ j \in Int
    BY DEF n
  <2> QED
    BY <2>1, <2>2
<1> QED
  BY <1>1, <1>4, <1>5, <1>8, <1>9, <1>10 DEF sub

(* SetToSeq lists every member of a finite set once.                          *)
LEMMA SetToSeqFacts ==
  ASSUME NEW S, IsFiniteSet(S)
  PROVE  /\ SetToSeq(S) \in Seq(S) /\ ToSet(SetToSeq(S)) = S
         /\ IsInjective(SetToSeq(S)) /\ Len(SetToSeq(S)) = Cardinality(S)
<1> DEFINE n == Cardinality(S)
           One(f) == IsInjective(f)
<1>1. n \in Nat /\ ExistsBijection(1 .. n, S)
  BY FS_CardinalityType
<1> HIDE DEF n
<1>2. \E f \in [1 .. n -> S] : One(f)
  BY <1>1 DEF ExistsBijection, Bijection, Injection
<1>3. PICK f : f = CHOOSE x \in [1 .. n -> S] : One(x)
  OBVIOUS
<1>4. f \in [1 .. n -> S] /\ One(f)
  BY <1>2, <1>3
<1>5. SetToSeq(S) = f
  BY <1>3 DEF SetToSeq, n
<1>6. f \in Injection(1 .. n, S)
  BY <1>4 DEF Injection
<1>7. IsFiniteSet(1 .. n) /\ Cardinality(1 .. n) = Cardinality(S)
  BY <1>1, FS_Interval DEF n
<1>8. f \in Surjection(1 .. n, S)
  BY <1>6, <1>7, FS_Injection
<1>9. f \in Seq(S) /\ Len(f) = n
  BY <1>1, <1>4, SeqDef
<1>10. ToSet(f) = S
  <2>1. DOMAIN f = 1 .. n /\ \A x \in S : \E i \in 1 .. n : f[i] = x
    BY <1>4, <1>8 DEF Surjection
  <2> QED
    BY <1>4, <2>1 DEF ToSet
<1> QED
  BY <1>4, <1>5, <1>9, <1>10 DEF n

-----------------------------------------------------------------------------
(* The waker's state under its lock: k is that state, a where the handlers are. *)

Fifos(k, a) ==
  \A q \in Queues :
    /\ IsInjective(k.fifo[q])
    /\ \A w \in ToSet(k.fifo[q]) :
         a[w] \in {"loop", "asleep", "leave"} /\ q \in ToSet(k.list[w])

SweepOk(k, a, s) ==
  /\ k.inFlight[s.queue]
  /\ IsInjective(s.batch) /\ IsInjective(s.jobs)
  /\ \A w \in ToSet(s.batch) : a[w] # "new" /\ s.queue \in ToSet(k.list[w])
  /\ s.is # "back" => s.jobs = <<>>
  /\ s.is = "failed" => "failure" \in Events

SweepsOk(k, a) ==
  /\ \A s \in k.sweeps : SweepOk(k, a, s)
  /\ \A s, t \in k.sweeps : s.queue = t.queue => s = t

BusyOk(k) == \A w \in Waiters : k.slot[w].busy => \E s \in k.sweeps : w \in ToSet(s.batch)

LockInv(k, a) == k \in WakerStates /\ Fifos(k, a) /\ SweepsOk(k, a) /\ BusyOk(k)

(* A trigger that is kept has no waiter that could be served at once.          *)
Idle(k, q) ==
  k.pending[q] /\ ~ k.inFlight[q] => \A w \in ToSet(k.fifo[q]) : ~ Eligible(k, w, q)

(* A queue somebody is owed has a sweep or a trigger.                          *)
Sought(k, q) == \E w \in ToSet(k.fifo[q]) : Owed(k, w, q) /\ WasOwed(k, w, q)
Answered(k, q) == Sought(k, q) => k.inFlight[q] \/ k.pending[q]

(* What calls of StartSweep, Trigger and Deferred leave alone.                 *)
Frame(k, m) ==
  /\ m.list = k.list /\ m.fifo = k.fifo /\ m.bell = k.bell
  /\ \A w \in Waiters :
       /\ m.slot[w].arrival = k.slot[w].arrival /\ m.slot[w].ended = k.slot[w].ended
       /\ m.slot[w].offer = k.slot[w].offer /\ (k.slot[w].busy => m.slot[w].busy)
  /\ k.sweeps \subseteq m.sweeps
  /\ \A s \in m.sweeps : s \in k.sweeps \/ (s.jobs = <<>> /\ s.is = "sent")
  /\ \A q \in Queues : k.inFlight[q] => m.inFlight[q] /\ (k.pending[q] => m.pending[q])

(* The types of the fields of the waker's state.                              *)
LEMMA StateFields ==
  ASSUME NEW k \in WakerStates
  PROVE  /\ k.list \in [Waiters -> Lists \cup {<<>>}] /\ k.slot \in [Waiters -> SlotStates]
         /\ k.bell \in [Waiters -> BOOLEAN] /\ k.fifo \in [Queues -> Seq(Waiters)]
         /\ k.inFlight \in [Queues -> BOOLEAN] /\ k.pending \in [Queues -> BOOLEAN]
         /\ k.sweeps \subseteq SweepStates
         /\ \A q \in Queues : \A w \in ToSet(k.fifo[q]) : w \in Waiters
<1>1. /\ k.list \in [Waiters -> Lists \cup {<<>>}] /\ k.slot \in [Waiters -> SlotStates]
      /\ k.bell \in [Waiters -> BOOLEAN] /\ k.fifo \in [Queues -> Seq(Waiters)]
      /\ k.inFlight \in [Queues -> BOOLEAN] /\ k.pending \in [Queues -> BOOLEAN]
      /\ k.sweeps \subseteq SweepStates
  BY DEF WakerStates
<1>2. \A q \in Queues : \A w \in ToSet(k.fifo[q]) : w \in Waiters
  BY <1>1, SeqSet
<1> QED
  BY <1>1, <1>2

(* A batch is made of waiters of the queue that could be served; it is empty  *)
(* only if there is none (start_sweep_locked).                                *)
LEMMA BatchFacts ==
  ASSUME NEW k \in WakerStates, NEW q \in Queues
  PROVE  /\ Batch(k, q) \in Seq(Waiters)
         /\ \A w \in ToSet(Batch(k, q)) : w \in ToSet(k.fifo[q]) /\ Eligible(k, w, q)
         /\ IsInjective(k.fifo[q]) => IsInjective(Batch(k, q))
         /\ Batch(k, q) = <<>> => \A w \in ToSet(k.fifo[q]) : ~ Eligible(k, w, q)
<1> DEFINE set == {w \in Waiters : Eligible(k, w, q)}
           can == Only(k.fifo[q], set)
           most == IF SweepCap < Clamp THEN 1 ELSE SweepCap \div Clamp
           b == IF Len(can) < most THEN Len(can) ELSE most
<1>1. k.fifo[q] \in Seq(Waiters) /\ \A w \in ToSet(k.fifo[q]) : w \in Waiters
  BY StateFields
<1>2. /\ can \in Seq(Waiters) /\ ToSet(can) = ToSet(k.fifo[q]) \cap set
      /\ IsInjective(k.fifo[q]) => IsInjective(can)
  BY <1>1, OnlyFacts
<1>3. most \in Nat /\ most >= 1
  BY BoundsAssumption
<1>4. Batch(k, q) = SubSeq(can, 1, b)
  BY DEF Batch
<1> HIDE DEF can, most
<1>5. Len(can) \in Nat /\ b \in Nat /\ b <= Len(can) /\ (b < 1 => Len(can) = 0)
  BY <1>2, <1>3
<1>6. /\ SubSeq(can, 1, b) \in Seq(Waiters)
      /\ ToSet(SubSeq(can, 1, b)) = {can[p] : p \in 1 .. b}
      /\ IsInjective(can) => IsInjective(SubSeq(can, 1, b))
      /\ SubSeq(can, 1, b) = <<>> <=> b < 1
  <2> HIDE DEF b
  <2> QED
    BY <1>2, <1>5, SubSeqSet
<1>7. {can[p] : p \in 1 .. b} \subseteq ToSet(can)
  <2>1. \A p \in 1 .. b : p \in 1 .. Len(can)
    BY <1>5
  <2> QED
    BY <1>2, <2>1, SeqSet
<1>8. \A w \in ToSet(Batch(k, q)) : w \in ToSet(k.fifo[q]) /\ Eligible(k, w, q)
  BY <1>2, <1>4, <1>6, <1>7
<1>9. ASSUME Batch(k, q) = <<>>, NEW w \in ToSet(k.fifo[q]), Eligible(k, w, q) PROVE FALSE
  <2>1. w \in ToSet(can)
    BY <1>1, <1>2, <1>9
  <2>2. Len(can) = 0
    BY <1>4, <1>5, <1>6, <1>9
  <2>3. PICK i \in 1 .. Len(can) : w = can[i]
    BY <1>2, <2>1, SeqSet
  <2> QED
    BY <2>2, <2>3
<1> QED
  BY <1>2, <1>4, <1>6, <1>8, <1>9

(* What calls leave alone decides who is owed, and they make nobody           *)
(* eligible.                                                                  *)
LEMMA FrameOwed ==
  ASSUME NEW k \in WakerStates, NEW m \in WakerStates, Frame(k, m), NEW q \in Queues
  PROVE  /\ \A w \in Waiters : Owed(m, w, q) <=> Owed(k, w, q)
         /\ \A w \in Waiters : Eligible(m, w, q) => Eligible(k, w, q)
         /\ Sought(m, q) <=> Sought(k, q)
<1>1. \A w \in Waiters : Owed(m, w, q) <=> Owed(k, w, q)
  BY DEF Owed, Frame
<1>2. \A w \in Waiters : Eligible(m, w, q) => Eligible(k, w, q)
  BY <1>1 DEF Eligible, Frame
<1>3. \A w \in Waiters : WasOwed(m, w, q) <=> WasOwed(k, w, q)
  BY DEF WasOwed, Frame
<1>4. m.fifo = k.fifo /\ \A w \in ToSet(k.fifo[q]) : w \in Waiters
  BY StateFields DEF Frame
<1> QED
  BY <1>1, <1>2, <1>3, <1>4 DEF Sought

(* Doing nothing leaves everything alone.                                     *)
LEMMA FrameRefl ==
  ASSUME NEW k
  PROVE  Frame(k, k)
BY DEF Frame

(* Two calls leave alone what each does.                                      *)
LEMMA FrameTrans ==
  ASSUME NEW k, NEW m, NEW p, Frame(k, m), Frame(m, p)
  PROVE  Frame(k, p)
<1>1. p.list = k.list /\ p.fifo = k.fifo /\ p.bell = k.bell
  BY DEF Frame
<1>2. \A w \in Waiters :
       /\ p.slot[w].arrival = k.slot[w].arrival /\ p.slot[w].ended = k.slot[w].ended
       /\ p.slot[w].offer = k.slot[w].offer /\ (k.slot[w].busy => p.slot[w].busy)
  BY DEF Frame
<1>3. /\ k.sweeps \subseteq p.sweeps
      /\ \A s \in p.sweeps : s \in k.sweeps \/ (s.jobs = <<>> /\ s.is = "sent")
  BY DEF Frame
<1>4. \A q \in Queues : k.inFlight[q] => p.inFlight[q] /\ (k.pending[q] => p.pending[q])
  BY DEF Frame
<1> QED
  BY <1>1, <1>2, <1>3, <1>4 DEF Frame

(* StartSweep, when there is nobody to serve and when there is.                *)
LEMMA StartNone ==
  ASSUME NEW a, NEW k, LockInv(k, a), NEW q \in Queues, Batch(k, q) = <<>>
  PROVE  LET m == StartSweep(k, q) IN
         /\ LockInv(m, a)
         /\ m.inFlight = k.inFlight
         /\ \A p \in Queues : p # q => m.pending[p] = k.pending[p]
         /\ ~ k.inFlight[q] => Frame(k, m) /\ Idle(m, q) /\ Answered(m, q)
<1> DEFINE kept == \E w \in ToSet(k.fifo[q]) : k.slot[w].busy /\ Owed(k, w, q)
           m == [k EXCEPT !.pending[q] = kept]
<1>0. k \in WakerStates
  BY DEF LockInv
<1>1. StartSweep(k, q) = m
  BY DEF StartSweep
<1>2. kept \in BOOLEAN
  OBVIOUS
<1>3. kept <=> \E w \in ToSet(k.fifo[q]) : k.slot[w].busy /\ Owed(k, w, q)
  OBVIOUS
<1> HIDE DEF kept
<1>4. /\ m.list = k.list /\ m.slot = k.slot /\ m.bell = k.bell /\ m.fifo = k.fifo
      /\ m.inFlight = k.inFlight /\ m.sweeps = k.sweeps
      /\ m.pending = [k.pending EXCEPT ![q] = kept]
  BY <1>0 DEF WakerStates
<1>5. m \in WakerStates
  BY <1>0, <1>2 DEF WakerStates
<1>6. /\ m.pending[q] = kept
      /\ \A p \in Queues : p # q => m.pending[p] = k.pending[p]
  BY <1>0, <1>4, StateFields
<1> HIDE DEF m
<1>7. LockInv(m, a)
  BY <1>4, <1>5 DEF LockInv, Fifos, SweepsOk, SweepOk, BusyOk
<1>8. ASSUME ~ k.inFlight[q] PROVE Frame(k, m) /\ Idle(m, q) /\ Answered(m, q)
  <2>1. Frame(k, m)
    <3>1. \A p \in Queues : k.inFlight[p] => p # q
      BY <1>8
    <3> QED
      BY <1>4, <1>6, <3>1 DEF Frame
  <2>2. \A w \in ToSet(k.fifo[q]) : ~ Eligible(k, w, q)
    BY <1>0, BatchFacts
  <2>3. Idle(m, q)
    BY <1>0, <1>4, <1>5, <2>1, <2>2, FrameOwed, StateFields DEF Idle
  <2>4. ASSUME Sought(m, q) PROVE kept
    <3>1. Sought(k, q)
      BY <1>0, <1>5, <2>1, <2>4, FrameOwed
    <3>2. PICK w \in ToSet(k.fifo[q]) : Owed(k, w, q)
      BY <3>1 DEF Sought
    <3>3. k.slot[w].busy
      BY <2>2, <3>2 DEF Eligible
    <3> QED
      BY <1>3, <3>2, <3>3
  <2>5. Answered(m, q)
    BY <1>6, <2>4 DEF Answered
  <2> QED
    BY <2>1, <2>3, <2>5
<1> QED
  BY <1>1, <1>4, <1>6, <1>7, <1>8

(* start_sweep_locked with a batch: one more sweep, the first of its queue.   *)
LEMMA StartSome ==
  ASSUME NEW a, NEW k, LockInv(k, a), NEW q \in Queues, Batch(k, q) # <<>>, ~ k.inFlight[q]
  PROVE  LET m == StartSweep(k, q) IN
         /\ LockInv(m, a)
         /\ m.inFlight[q]
         /\ \A p \in Queues : p # q => /\ m.pending[p] = k.pending[p]
                                       /\ m.inFlight[p] = k.inFlight[p]
         /\ Frame(k, m)
<1> DEFINE batch == Batch(k, q)
           s == [queue |-> q, batch |-> batch, jobs |-> <<>>, is |-> "sent"]
           slots == [w \in Waiters |-> [k.slot[w] EXCEPT !.busy = @ \/ w \in ToSet(batch)]]
           sweeps == k.sweeps \cup {s}
           m == [k EXCEPT !.pending[q] = FALSE, !.inFlight[q] = TRUE, !.slot = slots,
                          !.sweeps = sweeps]
<1>0. k \in WakerStates
  BY DEF LockInv
<1>1. StartSweep(k, q) = m
  BY DEF StartSweep
<1>2. /\ batch \in Seq(Waiters) /\ IsInjective(batch)
      /\ \A w \in ToSet(batch) : w \in ToSet(k.fifo[q]) /\ Eligible(k, w, q) /\ w \in Waiters
  <2>1. IsInjective(k.fifo[q])
    BY DEF LockInv, Fifos
  <2> QED
    BY <1>0, <2>1, BatchFacts, StateFields
<1> HIDE DEF batch
<1>3. s \in SweepStates /\ s.queue = q /\ s.batch = batch /\ s.jobs = <<>> /\ s.is = "sent"
  BY <1>2 DEF SweepStates
<1> HIDE DEF s
<1>4. \A w \in Waiters :
        /\ slots[w] \in SlotStates
        /\ slots[w].arrival = k.slot[w].arrival /\ slots[w].ended = k.slot[w].ended
        /\ slots[w].offer = k.slot[w].offer
        /\ slots[w].busy <=> k.slot[w].busy \/ w \in ToSet(batch)
  <2> TAKE w \in Waiters
  <2> DEFINE b == k.slot[w].busy \/ w \in ToSet(batch)
  <2>1. k.slot[w] \in SlotStates
    BY <1>0, StateFields
  <2>2. slots[w] = [k.slot[w] EXCEPT !.busy = b] /\ b \in BOOLEAN
    OBVIOUS
  <2>3. b <=> k.slot[w].busy \/ w \in ToSet(batch)
    OBVIOUS
  <2> HIDE DEF b, slots
  <2> QED
    BY <2>1, <2>2, <2>3 DEF SlotStates
<1>5. slots \in [Waiters -> SlotStates] /\ sweeps \subseteq SweepStates
  <2>1. sweeps \subseteq SweepStates
    BY <1>0, <1>3, StateFields
  <2> QED
    BY <1>4, <2>1
<1>6. /\ m.list = k.list /\ m.bell = k.bell /\ m.fifo = k.fifo
      /\ m.inFlight = [k.inFlight EXCEPT ![q] = TRUE]
      /\ m.pending = [k.pending EXCEPT ![q] = FALSE]
      /\ m.sweeps = k.sweeps \cup {s} /\ m.slot = slots
      /\ m \in WakerStates
  <2>1. sweeps = k.sweeps \cup {s}
    OBVIOUS
  <2> HIDE DEF slots, sweeps
  <2> QED
    BY <1>0, <1>5, <2>1 DEF WakerStates
<1>7. /\ m.inFlight[q]
      /\ \A p \in Queues : p # q => m.pending[p] = k.pending[p] /\ m.inFlight[p] = k.inFlight[p]
      /\ \A p \in Queues : k.inFlight[p] => p # q /\ m.inFlight[p]
  BY <1>0, <1>6, StateFields
<1> HIDE DEF m, slots, sweeps
<1>8. Frame(k, m)
  BY <1>3, <1>4, <1>6, <1>7 DEF Frame
<1>9. Fifos(m, a)
  BY <1>6 DEF LockInv, Fifos
<1>10. SweepsOk(m, a)
  <2>1. \A t \in k.sweeps : t.queue \in Queues /\ SweepOk(k, a, t) /\ t.queue # q
    BY <1>0, StateFields DEF LockInv, SweepsOk, SweepOk, SweepStates
  <2>2. \A t \in k.sweeps : SweepOk(m, a, t)
    BY <1>6, <1>7, <2>1 DEF SweepOk
  <2>3. SweepOk(m, a, s)
    <3>1. IsInjective(s.jobs)
      BY <1>3 DEF IsInjective
    <3>2. \A w \in ToSet(batch) : a[w] # "new" /\ q \in ToSet(k.list[w])
      BY <1>2 DEF LockInv, Fifos
    <3> QED
      BY <1>2, <1>3, <1>6, <1>7, <3>1, <3>2 DEF SweepOk
  <2>4. \A t, u \in k.sweeps : t.queue = u.queue => t = u
    BY DEF LockInv, SweepsOk
  <2> QED
    BY <1>3, <1>6, <2>1, <2>2, <2>3, <2>4 DEF SweepsOk
<1>11. BusyOk(m)
  <2> SUFFICES ASSUME NEW w \in Waiters, m.slot[w].busy
               PROVE  \E t \in m.sweeps : w \in ToSet(t.batch)
    BY DEF BusyOk
  <2>1. CASE w \in ToSet(batch)
    BY <1>3, <1>6, <2>1
  <2>2. CASE k.slot[w].busy
    <3>1. PICK t \in k.sweeps : w \in ToSet(t.batch)
      BY <2>2 DEF LockInv, BusyOk
    <3> QED
      BY <1>6, <3>1
  <2> QED
    BY <1>4, <1>6, <2>1, <2>2
<1> QED
  BY <1>1, <1>6, <1>7, <1>8, <1>9, <1>10, <1>11 DEF LockInv

CallSet == [how : {"start", "trigger", "deferred"}, queue : Queues]

(* A call keeps the state under the lock in order, leaves no trigger beside   *)
(* a waiter that could be served, and answers its queue.                      *)
LEMMA CallFacts ==
  ASSUME NEW a, NEW k, LockInv(k, a), NEW c \in CallSet,
         c.how = "start" => ~ k.inFlight[c.queue]
  PROVE  LET m == Call(k, c) IN
         /\ LockInv(m, a) /\ Frame(k, m)
         /\ \A q \in Queues : q # c.queue => m.inFlight[q] = k.inFlight[q]
         /\ \A q \in Queues : Idle(k, q) \/ q = c.queue => Idle(m, q)
         /\ \A q \in Queues : Answered(k, q) \/ (q = c.queue /\ c.how # "deferred")
                                => Answered(m, q)
<1> DEFINE q == c.queue
           m == Call(k, c)
<1>0. k \in WakerStates /\ q \in Queues /\ c.how \in {"start", "trigger", "deferred"}
  BY DEF LockInv, CallSet
<1> HIDE DEF q
(* It is enough to know what happens to the queue itself. *)
<1> DEFINE Enough == /\ LockInv(m, a) /\ Frame(k, m)
                     /\ \A p \in Queues : p # q => /\ m.inFlight[p] = k.inFlight[p]
                                                   /\ m.pending[p] = k.pending[p]
                     /\ Idle(m, q)
                     /\ Answered(k, q) \/ c.how # "deferred" => Answered(m, q)
<1>1. ASSUME Enough
      PROVE  /\ LockInv(m, a) /\ Frame(k, m)
             /\ \A p \in Queues : p # q => m.inFlight[p] = k.inFlight[p]
             /\ \A p \in Queues : Idle(k, p) \/ p = q => Idle(m, p)
             /\ \A p \in Queues : Answered(k, p) \/ (p = q /\ c.how # "deferred")
                                    => Answered(m, p)
  <2> HIDE DEF m
  <2>0. m \in WakerStates /\ m.fifo = k.fifo
    BY <1>1 DEF LockInv, Frame
  <2>1. ASSUME NEW p \in Queues, p # q, Idle(k, p) PROVE Idle(m, p)
    <3>1. \A w \in ToSet(k.fifo[p]) : Eligible(m, w, p) => Eligible(k, w, p)
      BY <1>0, <1>1, <2>0, FrameOwed, StateFields
    <3> QED
      BY <1>1, <2>0, <2>1, <3>1 DEF Idle
  <2>2. ASSUME NEW p \in Queues, p # q, Answered(k, p) PROVE Answered(m, p)
    <3>1. Sought(m, p) <=> Sought(k, p)
      BY <1>0, <1>1, <2>0, FrameOwed
    <3> QED
      BY <1>1, <2>2, <3>1 DEF Answered
  <2> QED
    BY <1>1, <2>1, <2>2
<1>2. ASSUME ~ k.inFlight[q], m = StartSweep(k, q) PROVE Enough
  <2> HIDE DEF m
  <2>1. CASE Batch(k, q) = <<>>
    BY <1>0, <1>2, <2>1, StartNone
  <2>2. CASE Batch(k, q) # <<>>
    <3>1. /\ LockInv(m, a) /\ m.inFlight[q] /\ Frame(k, m)
          /\ \A p \in Queues : p # q => /\ m.pending[p] = k.pending[p]
                                        /\ m.inFlight[p] = k.inFlight[p]
      BY <1>0, <1>2, <2>2, StartSome
    <3>2. Idle(m, q) /\ Answered(m, q)
      BY <3>1 DEF Idle, Answered
    <3> QED
      BY <3>1, <3>2
  <2> QED
    BY <2>1, <2>2
<1>3. CASE c.how = "start"
  <2>1. m = StartSweep(k, q) /\ ~ k.inFlight[q]
    BY <1>3 DEF Call, q
  <2> QED
    BY <1>1, <1>2, <2>1 DEF q
<1>4. CASE c.how = "trigger"
  <2>1. m = Trigger(k, q)
    BY <1>4 DEF Call, q
  <2>2. CASE ~ Known(k, q)
    <3>1. m = k
      BY <2>1, <2>2 DEF Trigger
    <3>2. k.fifo[q] = <<>>
      BY <2>2 DEF Known
    <3>3. ToSet(k.fifo[q]) = {}
      BY <3>2 DEF ToSet
    <3>4. Idle(k, q) /\ Answered(k, q)
      BY <3>3 DEF Idle, Answered, Sought
    <3>5. Enough
      BY <3>1, <3>4, FrameRefl
    <3> QED
      BY <1>1, <3>5 DEF q
  <2>3. CASE Known(k, q) /\ k.inFlight[q]
    <3>1. m = [k EXCEPT !.pending[q] = TRUE]
      BY <2>1, <2>3 DEF Trigger
    <3> HIDE DEF m
    <3>2. /\ m \in WakerStates /\ m.list = k.list /\ m.slot = k.slot /\ m.bell = k.bell
          /\ m.fifo = k.fifo /\ m.inFlight = k.inFlight /\ m.sweeps = k.sweeps
          /\ m.pending = [k.pending EXCEPT ![q] = TRUE]
      BY <1>0, <3>1 DEF WakerStates
    <3>3. m.pending[q] /\ \A p \in Queues : p # q => m.pending[p] = k.pending[p]
      BY <1>0, <3>2, StateFields
    <3>4. \A p \in Queues : k.pending[p] => m.pending[p]
      BY <3>3
    <3>5. Frame(k, m)
      BY <3>2, <3>4 DEF Frame
    <3>6. LockInv(m, a)
      BY <3>2 DEF LockInv, Fifos, SweepsOk, SweepOk, BusyOk
    <3>7. Idle(m, q) /\ Answered(m, q)
      BY <2>3, <3>2, <3>3 DEF Idle, Answered
    <3>8. Enough
      BY <3>2, <3>3, <3>5, <3>6, <3>7
    <3> QED
      BY <1>1, <3>8 DEF q, m
  <2>4. CASE Known(k, q) /\ ~ k.inFlight[q]
    <3>1. m = StartSweep(k, q)
      BY <2>1, <2>4 DEF Trigger
    <3> QED
      BY <1>1, <1>2, <2>4, <3>1 DEF q
  <2> QED
    BY <2>2, <2>3, <2>4
<1>5. CASE c.how = "deferred"
  <2>1. m = Deferred(k, q)
    BY <1>5 DEF Call, q
  <2>2. CASE k.pending[q] /\ ~ k.inFlight[q]
    <3>1. m = StartSweep(k, q)
      BY <2>1, <2>2 DEF Deferred
    <3> QED
      BY <1>1, <1>2, <2>2, <3>1 DEF q
  <2>3. CASE ~ (k.pending[q] /\ ~ k.inFlight[q])
    <3>1. m = k
      BY <2>1, <2>3 DEF Deferred
    <3>2. Idle(k, q)
      BY <2>3 DEF Idle
    <3>3. Enough
      BY <1>5, <3>1, <3>2, FrameRefl
    <3> QED
      BY <1>1, <3>3 DEF q
  <2> QED
    BY <2>2, <2>3
<1> QED
  BY <1>0, <1>3, <1>4, <1>5

Chains(k, calls, n, g) ==
  /\ g = [i \in 0 .. n |-> g[i]]
  /\ g[0] = k
  /\ \A i \in 1 .. n : g[i] = Call(g[i - 1], calls[i])

(* The states between calls made one after the other exist.                   *)
LEMMA ChainExists ==
  ASSUME NEW k, NEW calls \in Seq(CallSet)
  PROVE  \E g : Chains(k, calls, Len(calls), g)
<1> DEFINE Bad == {n \in 0 .. Len(calls) : ~ \E g : Chains(k, calls, n, g)}
<1>0. Len(calls) \in Nat
  OBVIOUS
<1>1. SUFFICES ASSUME Len(calls) \in Bad PROVE FALSE
  BY <1>0
<1>2. PICK n \in Bad : \A y \in Bad : n <= y
  <2>1. Bad \subseteq Nat /\ Bad # {}
    BY <1>0, <1>1
  <2> HIDE DEF Bad
  <2> QED
    BY <2>1, LeastNat
<1>3. n \in 0 .. Len(calls) /\ ~ \E g : Chains(k, calls, n, g)
  BY <1>2
<1>4. CASE n = 0
  <2> DEFINE g == [i \in 0 .. 0 |-> k]
  <2>1. g[0] = k /\ g = [i \in 0 .. 0 |-> g[i]]
    OBVIOUS
  <2>2. Chains(k, calls, 0, g)
    <3> HIDE DEF g
    <3> QED
      BY <2>1 DEF Chains
  <2> QED
    BY <1>3, <1>4, <2>2
<1>5. CASE n > 0
  <2>1. n - 1 \in 0 .. Len(calls) /\ n - 1 \notin Bad
    <3>1. n - 1 \in 0 .. Len(calls) /\ ~ (n <= n - 1)
      BY <1>0, <1>3, <1>5
    <3> HIDE DEF Bad
    <3> QED
      BY <1>2, <3>1
  <2>2. PICK g : Chains(k, calls, n - 1, g)
    BY <2>1
  <2> DEFINE e == Call(g[n - 1], calls[n])
             f == [i \in 0 .. n |-> IF i = n THEN e ELSE g[i]]
  <2> HIDE DEF e
  <2>3. f[0] = k
    BY <1>3, <1>5, <2>2 DEF Chains
  <2>4. ASSUME NEW i \in 1 .. n PROVE f[i] = Call(f[i - 1], calls[i])
    <3>1. CASE i = n
      <4>1. f[n] = e /\ f[n - 1] = g[n - 1]
        BY <1>3, <1>5
      <4> QED
        BY <3>1, <4>1 DEF e
    <3>2. CASE i # n
      <4>1. i \in 1 .. n - 1 /\ i \in 0 .. n /\ i - 1 \in 0 .. n /\ i - 1 # n
        BY <1>3, <3>2
      <4>2. f[i] = g[i] /\ f[i - 1] = g[i - 1]
        BY <3>2, <4>1
      <4> QED
        BY <2>2, <4>1, <4>2 DEF Chains
    <3> QED
      BY <3>1, <3>2
  <2>5. f = [i \in 0 .. n |-> f[i]]
    OBVIOUS
  <2>6. Chains(k, calls, n, f)
    <3> HIDE DEF f
    <3> QED
      BY <2>3, <2>4, <2>5 DEF Chains
  <2> QED
    BY <1>3, <2>6
<1> QED
  BY <1>3, <1>4, <1>5

(* What calls in turn do: each queue that is called ends idle, and one that is *)
(* started or triggered ends answered.                                         *)
LEMMA InTurnFacts ==
  ASSUME NEW a, NEW k, LockInv(k, a), NEW calls \in Seq(CallSet),
         \A i \in 1 .. Len(calls) :
           calls[i].how = "start" =>
             /\ ~ k.inFlight[calls[i].queue]
             /\ \A j \in 1 .. i - 1 : calls[j].queue # calls[i].queue
  PROVE  LET m == InTurn(k, calls) IN
         /\ LockInv(m, a) /\ Frame(k, m)
         /\ \A q \in Queues :
              Idle(k, q) \/ (\E i \in 1 .. Len(calls) : calls[i].queue = q) => Idle(m, q)
         /\ \A q \in Queues :
              \/ Answered(k, q)
              \/ \E i \in 1 .. Len(calls) : calls[i].queue = q /\ calls[i].how # "deferred"
              => Answered(m, q)
<1> DEFINE n == Len(calls)
           Is(f) == f = [i \in 0 .. n |-> IF i = 0 THEN k ELSE Call(f[i - 1], calls[i])]
           u == CHOOSE f : Is(f)
<1>0. n \in Nat /\ \A i \in 1 .. n : calls[i] \in CallSet
  OBVIOUS
<1>1. PICK g : Chains(k, calls, n, g)
  BY ChainExists
<1>2. Is(g)
  <2>1. g = [i \in 0 .. n |-> g[i]]
    BY <1>1 DEF Chains
  <2>2. \A i \in 0 .. n : g[i] = IF i = 0 THEN k ELSE Call(g[i - 1], calls[i])
    <3> TAKE i \in 0 .. n
    <3>1. i = 0 \/ i \in 1 .. n
      BY <1>0
    <3> QED
      BY <1>1, <3>1 DEF Chains
  <2> QED
    BY <2>1, <2>2
<1>3. Is(u)
  BY <1>2
<1>4. InTurn(k, calls) = u[n]
  BY DEF InTurn
<1> HIDE DEF u
<1>5. \A i \in 0 .. n : u[i] = IF i = 0 THEN k ELSE Call(u[i - 1], calls[i])
  BY <1>3
<1> HIDE DEF Is, n
<1> DEFINE Called(i, q) == \E j \in 1 .. i : calls[j].queue = q
           Asked(i, q) == \E j \in 1 .. i : calls[j].queue = q /\ calls[j].how # "deferred"
           Sound(i) ==
             /\ LockInv(u[i], a) /\ Frame(k, u[i])
             /\ \A q \in Queues : ~ Called(i, q) => u[i].inFlight[q] = k.inFlight[q]
             /\ \A q \in Queues : Idle(k, q) \/ Called(i, q) => Idle(u[i], q)
             /\ \A q \in Queues : Answered(k, q) \/ Asked(i, q) => Answered(u[i], q)
           Bad == {i \in 0 .. n : ~ Sound(i)}
<1>6. SUFFICES ASSUME Bad # {} PROVE FALSE
  <2>1. Sound(n)
    <3> HIDE DEF Sound
    <3> QED
      BY <1>0, <1>6
  <2> QED
    BY <1>4, <2>1 DEF n
<1>7. PICK m \in Bad : \A y \in Bad : m <= y
  <2>1. Bad \subseteq Nat
    BY <1>0
  <2> HIDE DEF Bad
  <2> QED
    BY <1>6, <2>1, LeastNat
<1>8. m \in 0 .. n /\ ~ Sound(m)
  BY <1>7
<1>9. m # 0
  <2>1. u[0] = k
    BY <1>0, <1>5
  <2>2. Sound(0)
    <3>1. \A q : ~ Called(0, q) /\ ~ Asked(0, q)
      OBVIOUS
    <3> QED
      BY <2>1, <3>1, FrameRefl
  <2> QED
    BY <1>8, <2>2
<1>10. m - 1 \in 0 .. n /\ m - 1 \notin Bad /\ m \in 1 .. n
  <2>1. m - 1 \in 0 .. n /\ m \in 1 .. n /\ ~ (m <= m - 1)
    BY <1>0, <1>8, <1>9
  <2> HIDE DEF Bad
  <2> QED
    BY <1>7, <2>1
<1>11. Sound(m - 1)
  BY <1>10
<1> DEFINE c == calls[m]
<1>12. u[m] = Call(u[m - 1], c) /\ c \in CallSet
  BY <1>0, <1>5, <1>8, <1>10
<1>13. /\ \A j \in 1 .. m : j \in 1 .. m - 1 \/ j = m
       /\ \A j \in 1 .. m - 1 : j \in 1 .. m
       /\ m \in 1 .. m
  BY <1>10
<1>14. /\ \A q : Called(m, q) <=> Called(m - 1, q) \/ q = c.queue
       /\ \A q : Asked(m, q) <=> Asked(m - 1, q) \/ (q = c.queue /\ c.how # "deferred")
  BY <1>13
<1>15. c.how = "start" => ~ u[m - 1].inFlight[c.queue]
  <2>1. ASSUME c.how = "start" PROVE ~ u[m - 1].inFlight[c.queue]
    <3>1. ~ k.inFlight[c.queue] /\ ~ Called(m - 1, c.queue)
      BY <1>10, <2>1 DEF n
    <3>2. c.queue \in Queues
      BY <1>12 DEF CallSet
    <3> HIDE DEF Called, c
    <3> QED
      BY <1>11, <3>1, <3>2
  <2> QED
    BY <2>1
<1> HIDE DEF Called, Asked, c
<1>16. /\ LockInv(u[m], a) /\ Frame(u[m - 1], u[m])
       /\ \A q \in Queues : q # c.queue => u[m].inFlight[q] = u[m - 1].inFlight[q]
       /\ \A q \in Queues : Idle(u[m - 1], q) \/ q = c.queue => Idle(u[m], q)
       /\ \A q \in Queues : Answered(u[m - 1], q) \/ (q = c.queue /\ c.how # "deferred")
                              => Answered(u[m], q)
  BY <1>11, <1>12, <1>15, CallFacts
<1>17. Frame(k, u[m])
  BY <1>11, <1>16, FrameTrans
<1> QED
  BY <1>8, <1>11, <1>14, <1>16, <1>17

-----------------------------------------------------------------------------
(* Handing out the jobs of a sweep.                                            *)

(* Chunk i holds the jobs at the positions that end at i * Clamp.              *)
LEMMA ChunkFacts ==
  ASSUME NEW T, NEW jobs \in Seq(T), NEW i \in Nat \ {0}
  PROVE  /\ Chunk(jobs, i) \in Seq(T)
         /\ \A x : x \in ToSet(Chunk(jobs, i)) <=>
              \E p \in 1 .. Len(jobs) : x = jobs[p] /\ (i - 1) * Clamp < p /\ p <= i * Clamp
<1> DEFINE n == Len(jobs)
           lo == (i - 1) * Clamp + 1
           hi == IF i * Clamp < n THEN i * Clamp ELSE n
<1>1. n \in Nat /\ Clamp \in Nat
  BY BoundsAssumption
<1>2. lo \in Nat \ {0} /\ hi \in Nat /\ hi <= n /\ i * Clamp \in Nat /\ (i - 1) * Clamp \in Nat
  BY <1>1
<1>3. Chunk(jobs, i) = SubSeq(jobs, lo, hi)
  BY DEF Chunk
<1>4. /\ SubSeq(jobs, lo, hi) \in Seq(T)
      /\ ToSet(SubSeq(jobs, lo, hi)) = {jobs[p] : p \in lo .. hi}
  <2> HIDE DEF lo, hi
  <2> QED
    BY <1>2, SubSeqSet DEF n
<1>5. \A p : p \in lo .. hi <=> p \in 1 .. n /\ (i - 1) * Clamp < p /\ p <= i * Clamp
  <2> DEFINE x == (i - 1) * Clamp
             y == i * Clamp
  <2> HIDE DEF x, y, n
  <2>1. x \in Nat /\ y \in Nat /\ lo = x + 1 /\ hi = IF y < n THEN y ELSE n
    BY <1>2 DEF x, y
  <2> HIDE DEF lo, hi
  <2>2. \A p : p \in lo .. hi <=> p \in 1 .. n /\ x < p /\ p <= y
    BY <1>1, <2>1
  <2> QED
    BY <2>2 DEF x, y
<1> HIDE DEF lo, hi
<1> QED
  BY <1>3, <1>4, <1>5

(* No job is in two chunks (the cursor of Waker::complete).                   *)
LEMMA ChunksDisjoint ==
  ASSUME NEW T, NEW jobs \in Seq(T), IsInjective(jobs), NEW i \in Nat \ {0}, NEW j \in Nat \ {0},
         i # j
  PROVE  ToSet(Chunk(jobs, i)) \cap ToSet(Chunk(jobs, j)) = {}
<1>1. Clamp \in Nat
  BY BoundsAssumption
<1>2. ASSUME NEW b \in Nat \ {0}, NEW c \in Nat \ {0}, b < c PROVE b * Clamp <= (c - 1) * Clamp
  BY <1>1, <1>2
<1>3. ASSUME NEW p \in Nat, NEW b \in Nat \ {0}, NEW c \in Nat \ {0}, b < c,
             p <= b * Clamp, (c - 1) * Clamp < p
      PROVE  FALSE
  <2> DEFINE x == b * Clamp
             y == (c - 1) * Clamp
  <2>1. x \in Nat /\ y \in Nat /\ x <= y /\ p <= x /\ y < p
    BY <1>1, <1>2, <1>3
  <2> HIDE DEF x, y
  <2> QED
    BY <2>1
<1> SUFFICES ASSUME NEW x, x \in ToSet(Chunk(jobs, i)), x \in ToSet(Chunk(jobs, j)) PROVE FALSE
  OBVIOUS
<1>4. PICK p \in 1 .. Len(jobs) : x = jobs[p] /\ (i - 1) * Clamp < p /\ p <= i * Clamp
  BY ChunkFacts
<1>5. PICK r \in 1 .. Len(jobs) : x = jobs[r] /\ (j - 1) * Clamp < r /\ r <= j * Clamp
  BY ChunkFacts
<1>6. p = r
  BY <1>4, <1>5, SeqSet
<1>7. p \in Nat /\ (i < j \/ j < i)
  OBVIOUS
<1> QED
  BY <1>3, <1>4, <1>5, <1>6, <1>7

(* The chunks of n takers and what is left over are all the jobs.              *)
LEMMA ChunksCover ==
  ASSUME NEW T, NEW jobs \in Seq(T), IsInjective(jobs), NEW n \in Nat
  PROVE  LET rest == SubSeq(jobs, Clamp * n + 1, Len(jobs)) IN
         /\ rest \in Seq(T)
         /\ ToSet(rest) \subseteq ToSet(jobs)
         /\ \A i \in 1 .. n : /\ ToSet(Chunk(jobs, i)) \subseteq ToSet(jobs)
                              /\ ToSet(Chunk(jobs, i)) \cap ToSet(rest) = {}
         /\ \A x \in ToSet(jobs) :
              x \in ToSet(rest) \/ \E i \in 1 .. n : x \in ToSet(Chunk(jobs, i))
<1> DEFINE lo == Clamp * n + 1
           rest == SubSeq(jobs, lo, Len(jobs))
<1>1. Clamp \in Nat \ {0} /\ Len(jobs) \in Nat /\ lo \in Nat \ {0} /\ Clamp * n \in Nat
  BY BoundsAssumption
<1>2. rest \in Seq(T) /\ ToSet(rest) = {jobs[p] : p \in lo .. Len(jobs)}
  <2> HIDE DEF lo
  <2> QED
    BY <1>1, SubSeqSet
<1>3. \A p : p \in lo .. Len(jobs) <=> p \in 1 .. Len(jobs) /\ Clamp * n < p
  <2> DEFINE x == Clamp * n
             l == Len(jobs)
  <2>1. x \in Nat /\ l \in Nat /\ lo = x + 1
    BY <1>1
  <2> HIDE DEF x, l, lo
  <2>2. \A p : p \in lo .. l <=> p \in 1 .. l /\ x < p
    BY <2>1
  <2> QED
    BY <2>2 DEF x, l
<1> HIDE DEF rest, lo
<1>4. \A x : x \in ToSet(rest) <=> \E p \in 1 .. Len(jobs) : x = jobs[p] /\ Clamp * n < p
  BY <1>2, <1>3
<1>5. ToSet(jobs) = {jobs[p] : p \in 1 .. Len(jobs)}
  BY DEF ToSet
<1>6. ASSUME NEW i \in 1 .. n
      PROVE  /\ ToSet(Chunk(jobs, i)) \subseteq ToSet(jobs)
             /\ ToSet(Chunk(jobs, i)) \cap ToSet(rest) = {}
  <2>0. i \in Nat \ {0}
    OBVIOUS
  <2>1. \A x : x \in ToSet(Chunk(jobs, i)) <=>
           \E p \in 1 .. Len(jobs) : x = jobs[p] /\ (i - 1) * Clamp < p /\ p <= i * Clamp
    BY <2>0, ChunkFacts
  <2>2. i * Clamp <= Clamp * n
    BY <1>1
  <2>3. ASSUME NEW x, x \in ToSet(Chunk(jobs, i)), x \in ToSet(rest) PROVE FALSE
    <3>1. PICK p \in 1 .. Len(jobs) : x = jobs[p] /\ p <= i * Clamp
      BY <2>1, <2>3
    <3>2. PICK r \in 1 .. Len(jobs) : x = jobs[r] /\ Clamp * n < r
      BY <1>4, <2>3
    <3>3. p = r
      BY <3>1, <3>2, SeqSet
    <3> DEFINE y == i * Clamp
               z == Clamp * n
    <3>4. y \in Nat /\ z \in Nat /\ y <= z /\ p <= y /\ z < p /\ p \in Nat
      BY <1>1, <2>2, <3>1, <3>2, <3>3
    <3> HIDE DEF y, z
    <3> QED
      BY <3>4
  <2> QED
    BY <1>5, <2>1, <2>3
<1>7. ASSUME NEW x \in ToSet(jobs), x \notin ToSet(rest)
      PROVE  \E i \in 1 .. n : x \in ToSet(Chunk(jobs, i))
  <2>1. PICK p \in 1 .. Len(jobs) : x = jobs[p]
    BY <1>5
  <2>2. p <= Clamp * n /\ p \in Nat
    BY <1>1, <1>4, <1>7, <2>1
  <2> DEFINE Up == {i \in Nat : p <= i * Clamp}
  <2>3. n \in Up
    BY <1>1, <2>2
  <2>4. PICK i \in Up : \A y \in Up : i <= y
    <3> HIDE DEF Up
    <3>1. Up \subseteq Nat
      BY DEF Up
    <3> QED
      BY <2>3, <3>1, LeastNat
  <2>5. i \in Nat /\ p <= i * Clamp /\ i <= n
    BY <2>3, <2>4
  <2>6. i # 0
    <3>1. i = 0 => i * Clamp = 0
      BY <1>1
    <3>2. p >= 1
      OBVIOUS
    <3> QED
      BY <2>5, <3>1, <3>2
  <2>7. i - 1 \in Nat /\ i - 1 \notin Up
    <3>1. i - 1 \in Nat /\ ~ (i <= i - 1)
      BY <2>5, <2>6
    <3> HIDE DEF Up
    <3> QED
      BY <2>4, <3>1
  <2>8. (i - 1) * Clamp < p
    <3> DEFINE y == (i - 1) * Clamp
    <3>1. y \in Nat /\ ~ (p <= y)
      BY <1>1, <2>7
    <3> HIDE DEF y
    <3>2. y < p
      BY <2>2, <3>1
    <3> QED
      BY <3>2 DEF y
  <2>9. i \in Nat \ {0} /\ i \in 1 .. n
    BY <2>5, <2>6
  <2> QED
    BY <2>1, <2>5, <2>8, <2>9, ChunkFacts
<1> QED
  BY <1>2, <1>4, <1>5, <1>6, <1>7 DEF rest, lo

(* Waiter::offer fills the slots nobody has finished and no others.           *)
LEMMA OfferFacts ==
  ASSUME NEW k \in WakerStates, NEW offers,
         \A w \in DOMAIN offers : w \in Waiters /\ offers[w] \in Seq(Reservations)
  PROVE  LET m == Offer(k, offers) IN
         /\ m \in WakerStates
         /\ m.list = k.list /\ m.fifo = k.fifo /\ m.inFlight = k.inFlight
         /\ m.pending = k.pending /\ m.sweeps = k.sweeps
         /\ \A w \in Waiters :
              /\ m.slot[w].arrival = k.slot[w].arrival /\ m.slot[w].busy = k.slot[w].busy
              /\ IF w \in DOMAIN offers /\ k.slot[w].ended = "no"
                   THEN m.slot[w].ended = "Offered" /\ m.slot[w].offer = offers[w]
                   ELSE m.slot[w] = k.slot[w]
<1> DEFINE to == {w \in DOMAIN offers : k.slot[w].ended = "no"}
           slots == [w \in Waiters |->
                       IF w \in to
                       THEN [k.slot[w] EXCEPT !.ended = "Offered", !.offer = offers[w]]
                       ELSE k.slot[w]]
           bells == [w \in Waiters |-> k.bell[w] \/ w \in to]
           m == [k EXCEPT !.slot = slots, !.bell = bells]
<1>1. Offer(k, offers) = m
  BY DEF Offer
<1>2. \A w \in Waiters :
        /\ slots[w] \in SlotStates
        /\ slots[w].arrival = k.slot[w].arrival /\ slots[w].busy = k.slot[w].busy
        /\ IF w \in DOMAIN offers /\ k.slot[w].ended = "no"
             THEN slots[w].ended = "Offered" /\ slots[w].offer = offers[w]
             ELSE slots[w] = k.slot[w]
  <2> TAKE w \in Waiters
  <2>1. k.slot[w] \in SlotStates
    BY StateFields
  <2>2. CASE w \in to
    <3>1. slots[w] = [k.slot[w] EXCEPT !.ended = "Offered", !.offer = offers[w]]
      BY <2>2
    <3>2. offers[w] \in Seq(Reservations) /\ w \in DOMAIN offers /\ k.slot[w].ended = "no"
      BY <2>2
    <3> HIDE DEF slots, to
    <3> QED
      BY <2>1, <3>1, <3>2 DEF SlotStates
  <2>3. CASE w \notin to
    BY <2>1, <2>3
  <2> QED
    BY <2>2, <2>3
<1>3. slots \in [Waiters -> SlotStates] /\ bells \in [Waiters -> BOOLEAN]
  BY <1>2
<1> HIDE DEF slots, bells
<1>4. /\ m \in WakerStates
      /\ m.list = k.list /\ m.fifo = k.fifo /\ m.inFlight = k.inFlight
      /\ m.pending = k.pending /\ m.sweeps = k.sweeps /\ m.slot = slots
  BY <1>3 DEF WakerStates
<1> QED
  BY <1>1, <1>2, <1>4

(* A sweep that is back frees its batch and is gone.                          *)
LEMMA FreedFacts ==
  ASSUME NEW k \in WakerStates, NEW s
  PROVE  LET m == Freed(k, s) IN
         /\ m \in WakerStates
         /\ m.list = k.list /\ m.fifo = k.fifo /\ m.inFlight = k.inFlight
         /\ m.pending = k.pending /\ m.sweeps = k.sweeps \ {s} /\ m.bell = k.bell
         /\ \A w \in Waiters :
              /\ m.slot[w].arrival = k.slot[w].arrival /\ m.slot[w].ended = k.slot[w].ended
              /\ m.slot[w].offer = k.slot[w].offer
              /\ m.slot[w].busy <=> k.slot[w].busy /\ w \notin ToSet(s.batch)
<1> DEFINE slots == [w \in Waiters |-> [k.slot[w] EXCEPT !.busy = @ /\ w \notin ToSet(s.batch)]]
           sweeps == k.sweeps \ {s}
           m == [k EXCEPT !.slot = slots, !.sweeps = sweeps]
<1>1. Freed(k, s) = m
  BY DEF Freed
<1>2. \A w \in Waiters :
        /\ slots[w] \in SlotStates
        /\ slots[w].arrival = k.slot[w].arrival /\ slots[w].ended = k.slot[w].ended
        /\ slots[w].offer = k.slot[w].offer
        /\ slots[w].busy <=> k.slot[w].busy /\ w \notin ToSet(s.batch)
  <2> TAKE w \in Waiters
  <2> DEFINE b == k.slot[w].busy /\ w \notin ToSet(s.batch)
  <2>1. k.slot[w] \in SlotStates
    BY StateFields
  <2>2. slots[w] = [k.slot[w] EXCEPT !.busy = b] /\ b \in BOOLEAN
    OBVIOUS
  <2>3. b <=> k.slot[w].busy /\ w \notin ToSet(s.batch)
    OBVIOUS
  <2> HIDE DEF b, slots
  <2> QED
    BY <2>1, <2>2, <2>3 DEF SlotStates
<1>3. slots \in [Waiters -> SlotStates] /\ sweeps \subseteq SweepStates
  <2>1. sweeps \subseteq SweepStates
    BY StateFields
  <2> QED
    BY <1>2, <2>1
<1> HIDE DEF slots
<1>4. /\ m \in WakerStates
      /\ m.list = k.list /\ m.fifo = k.fifo /\ m.inFlight = k.inFlight
      /\ m.pending = k.pending /\ m.sweeps = sweeps /\ m.slot = slots /\ m.bell = k.bell
  <2> HIDE DEF sweeps
  <2> QED
    BY <1>3 DEF WakerStates
<1> QED
  BY <1>1, <1>2, <1>4

(* The types of the fields of a sweep.                                        *)
LEMMA SweepFields ==
  ASSUME NEW k \in WakerStates, NEW s \in k.sweeps
  PROVE  /\ s.queue \in Queues /\ s.batch \in Seq(Waiters) /\ s.jobs \in Seq(Reservations)
         /\ s.is \in {"sent", "back", "failed"}
         /\ \A w \in ToSet(s.batch) : w \in Waiters
<1>1. s \in SweepStates
  BY StateFields
<1>2. /\ s.queue \in Queues /\ s.batch \in Seq(Waiters) /\ s.jobs \in Seq(Reservations)
      /\ s.is \in {"sent", "back", "failed"}
  BY <1>1 DEF SweepStates
<1> QED
  BY <1>2, SeqSet

(* Jobs go to distinct waiters that have come and that nobody has finished.   *)
LEMMA TakersFacts ==
  ASSUME NEW a, NEW k, LockInv(k, a), NEW s \in k.sweeps
  PROVE  /\ Takers(k, s) \in Seq(Waiters) /\ IsInjective(Takers(k, s))
         /\ \A w \in ToSet(Takers(k, s)) :
              w \in Waiters /\ k.slot[w].ended = "no" /\ a[w] # "new"
<1> DEFINE first == {w \in Waiters : k.slot[w].ended = "no"}
           others == {w \in Waiters \ ToSet(s.batch) : Eligible(k, w, s.queue)}
           x == Only(s.batch, first)
           y == Only(k.fifo[s.queue], others)
<1>0. /\ k \in WakerStates /\ s.queue \in Queues /\ s.batch \in Seq(Waiters)
      /\ k.fifo[s.queue] \in Seq(Waiters)
  BY SweepFields, StateFields DEF LockInv
<1>1. IsInjective(s.batch) /\ IsInjective(k.fifo[s.queue])
  BY <1>0 DEF LockInv, Fifos, SweepsOk, SweepOk
<1>2. x \in Seq(Waiters) /\ ToSet(x) = ToSet(s.batch) \cap first /\ IsInjective(x)
  BY <1>0, <1>1, OnlyFacts
<1>3. y \in Seq(Waiters) /\ ToSet(y) = ToSet(k.fifo[s.queue]) \cap others /\ IsInjective(y)
  BY <1>0, <1>1, OnlyFacts
<1>4. ToSet(x) \cap ToSet(y) = {}
  BY <1>2, <1>3
<1>5. Takers(k, s) = x \o y
  BY DEF Takers
<1> HIDE DEF x, y
<1>6. /\ x \o y \in Seq(Waiters) /\ IsInjective(x \o y)
      /\ ToSet(x \o y) = ToSet(x) \cup ToSet(y)
  BY <1>2, <1>3, <1>4, ConcatSet
<1>7. \A w \in ToSet(x) : w \in Waiters /\ k.slot[w].ended = "no" /\ a[w] # "new"
  BY <1>0, <1>2 DEF LockInv, SweepsOk, SweepOk
<1>8. \A w \in ToSet(y) : w \in Waiters /\ k.slot[w].ended = "no" /\ a[w] # "new"
  BY <1>0, <1>3 DEF LockInv, Fifos, Eligible, Owed
<1> QED
  BY <1>5, <1>6, <1>7, <1>8

(* The waiters that a sweep's jobs go to.                                      *)
Fed(k, s) == {Takers(k, s)[i] : i \in Served(k, s)}

(* Each job of a sweep is in the slot of one waiter or left over; the slots    *)
(* that get some were empty.                                                   *)
LEMMA GivenFacts ==
  ASSUME NEW a, NEW k, LockInv(k, a), NEW s \in k.sweeps
  PROVE  LET g == Given(k, s)
             rest == Leftovers(k, s)
         IN
         /\ g \in WakerStates
         /\ g.list = k.list /\ g.fifo = k.fifo /\ g.inFlight = k.inFlight
         /\ g.pending = k.pending /\ g.sweeps = k.sweeps \ {s}
         /\ \A w \in Waiters :
              /\ g.slot[w].arrival = k.slot[w].arrival
              /\ g.slot[w].busy <=> k.slot[w].busy /\ w \notin ToSet(s.batch)
         /\ \A w \in Waiters : w \notin Fed(k, s) =>
              g.slot[w].ended = k.slot[w].ended /\ g.slot[w].offer = k.slot[w].offer
         /\ \A w \in Fed(k, s) :
              /\ w \in Waiters /\ a[w] # "new"
              /\ k.slot[w].ended = "no" /\ g.slot[w].ended = "Offered"
              /\ ToSet(g.slot[w].offer) \subseteq ToSet(s.jobs)
              /\ ToSet(g.slot[w].offer) \cap ToSet(rest) = {}
         /\ \A w, v \in Fed(k, s) :
              w # v => ToSet(g.slot[w].offer) \cap ToSet(g.slot[v].offer) = {}
         /\ rest \in Seq(Reservations) /\ ToSet(rest) \subseteq ToSet(s.jobs)
         /\ \A r \in ToSet(s.jobs) :
              r \in ToSet(rest) \/ \E w \in Fed(k, s) : r \in ToSet(g.slot[w].offer)
<1> DEFINE takers == Takers(k, s)
           served == Served(k, s)
           who == {takers[i] : i \in served}
           offers == [w \in who |-> Chunk(s.jobs, CHOOSE i \in served : takers[i] = w)]
           f == Freed(k, s)
           g == Given(k, s)
           rest == Leftovers(k, s)
<1>0. k \in WakerStates /\ s.jobs \in Seq(Reservations) /\ IsInjective(s.jobs)
  BY SweepFields DEF LockInv, SweepsOk, SweepOk
<1>1. /\ takers \in Seq(Waiters) /\ IsInjective(takers)
      /\ \A w \in ToSet(takers) : w \in Waiters /\ k.slot[w].ended = "no" /\ a[w] # "new"
  BY TakersFacts
<1>2. /\ served \subseteq 1 .. Len(takers)
      /\ \A i \in 1 .. Len(takers) : i \notin served => Chunk(s.jobs, i) = <<>>
      /\ Len(takers) \in Nat
  <2>1. Len(takers) \in Nat
    BY <1>1
  <2> QED
    BY <2>1 DEF Served
<1>3. g = Offer(f, offers) /\ Fed(k, s) = who /\ DOMAIN offers = who
  BY DEF Given, Fed
<1>4. rest = SubSeq(s.jobs, Clamp * Len(takers) + 1, Len(s.jobs))
  BY DEF Leftovers
<1> HIDE DEF takers, served, g, f, rest
<1>5. \A i \in served : /\ takers[i] \in who /\ offers[takers[i]] = Chunk(s.jobs, i)
                        /\ takers[i] \in ToSet(takers) /\ i \in Nat \ {0}
  <2> TAKE i \in served
  <2>1. takers[i] \in who /\ i \in 1 .. Len(takers)
    BY <1>2
  <2> DEFINE c == CHOOSE j \in served : takers[j] = takers[i]
  <2>2. c \in served /\ takers[c] = takers[i]
    OBVIOUS
  <2>3. c = i
    BY <1>1, <1>2, <2>1, <2>2, SeqSet
  <2>4. offers[takers[i]] = Chunk(s.jobs, c)
    BY <2>1
  <2> HIDE DEF c, offers
  <2> QED
    BY <1>1, <2>1, <2>3, <2>4, SeqSet
<1>6. \A w \in who : \E i \in served : w = takers[i]
  OBVIOUS
<1> HIDE DEF offers, who
<1>7. \A w \in who : w \in Waiters /\ offers[w] \in Seq(Reservations)
  <2> TAKE w \in who
  <2>1. PICK i \in served : w = takers[i]
    BY <1>6
  <2>2. offers[w] = Chunk(s.jobs, i) /\ i \in Nat \ {0} /\ w \in ToSet(takers)
    BY <1>5, <2>1
  <2>3. Chunk(s.jobs, i) \in Seq(Reservations)
    BY <1>0, <2>2, ChunkFacts
  <2> QED
    BY <1>1, <2>2, <2>3
<1>8. /\ f \in WakerStates
      /\ f.list = k.list /\ f.fifo = k.fifo /\ f.inFlight = k.inFlight
      /\ f.pending = k.pending /\ f.sweeps = k.sweeps \ {s}
      /\ \A w \in Waiters :
              /\ f.slot[w].arrival = k.slot[w].arrival /\ f.slot[w].ended = k.slot[w].ended
              /\ f.slot[w].offer = k.slot[w].offer
              /\ f.slot[w].busy <=> k.slot[w].busy /\ w \notin ToSet(s.batch)
  BY <1>0, FreedFacts DEF f
<1>9. /\ g \in WakerStates
      /\ g.list = f.list /\ g.fifo = f.fifo /\ g.inFlight = f.inFlight
      /\ g.pending = f.pending /\ g.sweeps = f.sweeps
      /\ \A w \in Waiters :
              /\ g.slot[w].arrival = f.slot[w].arrival /\ g.slot[w].busy = f.slot[w].busy
              /\ IF w \in who /\ f.slot[w].ended = "no"
                   THEN g.slot[w].ended = "Offered" /\ g.slot[w].offer = offers[w]
                   ELSE g.slot[w] = f.slot[w]
  BY <1>3, <1>7, <1>8, OfferFacts
<1>10. \A w \in who : /\ w \in Waiters /\ k.slot[w].ended = "no" /\ a[w] # "new"
                      /\ g.slot[w].ended = "Offered" /\ g.slot[w].offer = offers[w]
  BY <1>1, <1>5, <1>6, <1>8, <1>9
<1>11. \A w \in Waiters : w \notin who =>
         g.slot[w].ended = k.slot[w].ended /\ g.slot[w].offer = k.slot[w].offer
  BY <1>8, <1>9
<1>12. /\ rest \in Seq(Reservations)
       /\ ToSet(rest) \subseteq ToSet(s.jobs)
       /\ \A i \in 1 .. Len(takers) : /\ ToSet(Chunk(s.jobs, i)) \subseteq ToSet(s.jobs)
                                      /\ ToSet(Chunk(s.jobs, i)) \cap ToSet(rest) = {}
       /\ \A x \in ToSet(s.jobs) :
            x \in ToSet(rest) \/ \E i \in 1 .. Len(takers) : x \in ToSet(Chunk(s.jobs, i))
  BY <1>0, <1>2, <1>4, ChunksCover
<1>13. \A w \in who : /\ ToSet(g.slot[w].offer) \subseteq ToSet(s.jobs)
                      /\ ToSet(g.slot[w].offer) \cap ToSet(rest) = {}
  <2> TAKE w \in who
  <2>1. PICK i \in served : w = takers[i]
    BY <1>6
  <2>2. g.slot[w].offer = Chunk(s.jobs, i) /\ i \in 1 .. Len(takers)
    BY <1>2, <1>5, <1>10, <2>1
  <2> QED
    BY <1>12, <2>2
<1>14. \A w, v \in who : w # v => ToSet(g.slot[w].offer) \cap ToSet(g.slot[v].offer) = {}
  <2> TAKE w, v \in who
  <2> HAVE w # v
  <2>1. PICK i \in served : w = takers[i]
    BY <1>6
  <2>2. PICK j \in served : v = takers[j]
    BY <1>6
  <2>3. i # j /\ i \in Nat \ {0} /\ j \in Nat \ {0}
    BY <1>5, <2>1, <2>2
  <2>4. ToSet(Chunk(s.jobs, i)) \cap ToSet(Chunk(s.jobs, j)) = {}
    BY <1>0, <2>3, ChunksDisjoint
  <2> QED
    BY <1>5, <1>10, <2>1, <2>2, <2>4
<1>15. ASSUME NEW r \in ToSet(s.jobs), r \notin ToSet(rest)
       PROVE  \E w \in who : r \in ToSet(g.slot[w].offer)
  <2>1. PICK i \in 1 .. Len(takers) : r \in ToSet(Chunk(s.jobs, i))
    BY <1>12, <1>15
  <2>2. Chunk(s.jobs, i) # <<>>
    BY <2>1 DEF ToSet
  <2>3. i \in served
    BY <1>2, <2>2
  <2> QED
    BY <1>5, <1>10, <2>1, <2>3
<1>16. /\ g \in WakerStates
       /\ g.list = k.list /\ g.fifo = k.fifo /\ g.inFlight = k.inFlight
       /\ g.pending = k.pending /\ g.sweeps = k.sweeps \ {s}
       /\ \A w \in Waiters :
            /\ g.slot[w].arrival = k.slot[w].arrival
            /\ g.slot[w].busy <=> k.slot[w].busy /\ w \notin ToSet(s.batch)
  BY <1>8, <1>9
<1> QED
  BY <1>3, <1>10, <1>11, <1>12, <1>13, <1>14, <1>15, <1>16 DEF g, rest

(* A list of queues is no longer than ListLen.                                *)
LEMMA ListFacts ==
  ASSUME NEW l \in Lists \cup {<<>>}
  PROVE  l \in Seq(Queues) /\ Len(l) \in Nat /\ Len(l) <= ListLen
<1>1. CASE l = <<>>
  BY <1>1, BoundsAssumption
<1>2. CASE l \in Lists
  <2>1. PICK n \in 1 .. ListLen : l \in [1 .. n -> Queues]
    BY <1>2 DEF Lists
  <2>2. ListLen \in Nat /\ n \in Nat /\ n <= ListLen
    BY BoundsAssumption
  <2>3. l \in Seq(Queues) /\ Len(l) = n
    BY <2>1, <2>2, SeqDef
  <2> QED
    BY <2>2, <2>3
<1> QED
  BY <1>1, <1>2

(* The types of the fields of a slot.                                         *)
LEMMA SlotFields ==
  ASSUME NEW k \in WakerStates, NEW w \in Waiters
  PROVE  /\ k.slot[w] \in SlotStates
         /\ k.slot[w].arrival \in Nat \ {0} /\ k.slot[w].arrival <= ListLen + 1
         /\ k.slot[w].busy \in BOOLEAN /\ k.slot[w].offer \in Seq(Reservations)
         /\ k.list[w] \in Seq(Queues) /\ Len(k.list[w]) \in Nat /\ Len(k.list[w]) <= ListLen
         /\ \A q \in ToSet(k.list[w]) : q \in Queues
<1>1. k.slot[w] \in SlotStates /\ k.list[w] \in Lists \cup {<<>>}
  BY StateFields
<1>2. /\ k.slot[w].arrival \in 1 .. ListLen + 1
      /\ k.slot[w].busy \in BOOLEAN /\ k.slot[w].offer \in Seq(Reservations)
  BY <1>1 DEF SlotStates
<1>3. /\ k.list[w] \in Seq(Queues) /\ Len(k.list[w]) \in Nat /\ Len(k.list[w]) <= ListLen
  BY <1>1, ListFacts
<1>4. \A q \in ToSet(k.list[w]) : q \in Queues
  BY <1>3, SeqSet
<1> QED
  BY <1>1, <1>2, <1>3, <1>4, BoundsAssumption

(* After complete's first half: the queue is free, and the waiters that got    *)
(* nothing are one further if they were at it.                                 *)
LEMMA DoneFacts ==
  ASSUME NEW a, NEW k, LockInv(k, a), NEW s \in k.sweeps
  PROVE  LET d == Done(k, s)
             g == Given(k, s)
             q == s.queue
         IN
         /\ LockInv(d, a)
         /\ d.list = k.list /\ d.fifo = k.fifo /\ d.sweeps = k.sweeps \ {s}
         /\ ~ d.inFlight[q]
         /\ d.pending[q] <=> k.pending[q] \/ Len(s.jobs) >= Clamp * Len(s.batch)
         /\ \A p \in Queues : p # q => /\ d.inFlight[p] = k.inFlight[p]
                                       /\ d.pending[p] = k.pending[p]
         /\ \A w \in Waiters :
              /\ d.slot[w].ended = g.slot[w].ended /\ d.slot[w].offer = g.slot[w].offer
              /\ d.slot[w].busy <=> k.slot[w].busy /\ w \notin ToSet(s.batch)
              /\ d.slot[w].arrival = IF w \in ToSet(Left(k, s)) /\ At(k, w, q)
                                       THEN k.slot[w].arrival + 1 ELSE k.slot[w].arrival
<1> DEFINE d == Done(k, s)
           g == Given(k, s)
           q == s.queue
           who == ToSet(Left(k, s))
           e == EmptyHanded(g, who, q)
           full == Len(s.jobs) >= Clamp * Len(s.batch)
<1>0. k \in WakerStates /\ q \in Queues
  BY SweepFields DEF LockInv
<1>1. /\ g \in WakerStates
      /\ g.list = k.list /\ g.fifo = k.fifo /\ g.inFlight = k.inFlight
      /\ g.pending = k.pending /\ g.sweeps = k.sweeps \ {s}
      /\ \A w \in Waiters :
           /\ g.slot[w].arrival = k.slot[w].arrival
           /\ g.slot[w].busy <=> k.slot[w].busy /\ w \notin ToSet(s.batch)
  BY GivenFacts
<1>2. d = [e EXCEPT !.inFlight[q] = FALSE, !.pending[q] = e.pending[q] \/ full]
  BY DEF Done
<1> HIDE DEF d, g, q, who, full
<1>3. /\ e \in WakerStates
      /\ e.list = g.list /\ e.fifo = g.fifo /\ e.inFlight = g.inFlight
      /\ e.pending = g.pending /\ e.sweeps = g.sweeps
      /\ \A w \in Waiters :
           /\ e.slot[w].ended = g.slot[w].ended /\ e.slot[w].offer = g.slot[w].offer
           /\ e.slot[w].busy = g.slot[w].busy
           /\ e.slot[w].arrival = IF w \in who /\ At(g, w, q)
                                    THEN g.slot[w].arrival + 1 ELSE g.slot[w].arrival
  <2> DEFINE slots == [w \in Waiters |->
                         [g.slot[w] EXCEPT !.arrival = IF w \in who /\ At(g, w, q) THEN @ + 1
                                                                                  ELSE @]]
             bells == [w \in Waiters |-> g.bell[w] \/ w \in who]
  <2>1. e = [g EXCEPT !.slot = slots, !.bell = bells]
    BY DEF EmptyHanded
  <2>2. \A w \in Waiters :
          /\ slots[w] \in SlotStates
          /\ slots[w].ended = g.slot[w].ended /\ slots[w].offer = g.slot[w].offer
          /\ slots[w].busy = g.slot[w].busy
          /\ slots[w].arrival = IF w \in who /\ At(g, w, q)
                                  THEN g.slot[w].arrival + 1 ELSE g.slot[w].arrival
    <3> TAKE w \in Waiters
    <3> DEFINE n == IF w \in who /\ At(g, w, q) THEN g.slot[w].arrival + 1 ELSE g.slot[w].arrival
    <3>1. /\ g.slot[w] \in SlotStates /\ g.slot[w].arrival \in Nat \ {0}
          /\ g.slot[w].arrival <= ListLen + 1
          /\ Len(g.list[w]) \in Nat /\ Len(g.list[w]) <= ListLen
      BY <1>1, SlotFields
    <3>2. At(g, w, q) => g.slot[w].arrival <= Len(g.list[w])
      BY DEF At
    <3>3. n \in 1 .. ListLen + 1
      BY <3>1, <3>2, BoundsAssumption
    <3>4. slots[w] = [g.slot[w] EXCEPT !.arrival = n]
      OBVIOUS
    <3>5. n = IF w \in who /\ At(g, w, q) THEN g.slot[w].arrival + 1 ELSE g.slot[w].arrival
      OBVIOUS
    <3> HIDE DEF n, slots
    <3> QED
      BY <3>1, <3>3, <3>4, <3>5 DEF SlotStates
  <2>3. slots \in [Waiters -> SlotStates] /\ bells \in [Waiters -> BOOLEAN]
    BY <2>2
  <2> HIDE DEF slots, bells, e
  <2> QED
    BY <1>1, <2>1, <2>2, <2>3 DEF WakerStates
<1> HIDE DEF e
<1>4. full \in BOOLEAN
  BY DEF full
<1>5. /\ d \in WakerStates
      /\ d.list = e.list /\ d.fifo = e.fifo /\ d.sweeps = e.sweeps /\ d.slot = e.slot
      /\ d.inFlight = [e.inFlight EXCEPT ![q] = FALSE]
      /\ d.pending = [e.pending EXCEPT ![q] = e.pending[q] \/ full]
  BY <1>2, <1>3, <1>4 DEF WakerStates
<1>6. /\ ~ d.inFlight[q] /\ (d.pending[q] <=> k.pending[q] \/ full)
      /\ \A p \in Queues : p # q => /\ d.inFlight[p] = k.inFlight[p]
                                    /\ d.pending[p] = k.pending[p]
  BY <1>0, <1>1, <1>3, <1>5, StateFields
<1>7. \A w \in Waiters : At(g, w, q) <=> At(k, w, q)
  BY <1>1 DEF At
<1>8. \A w \in Waiters :
        /\ d.slot[w].ended = g.slot[w].ended /\ d.slot[w].offer = g.slot[w].offer
        /\ d.slot[w].busy <=> k.slot[w].busy /\ w \notin ToSet(s.batch)
        /\ d.slot[w].arrival = IF w \in who /\ At(k, w, q)
                                 THEN k.slot[w].arrival + 1 ELSE k.slot[w].arrival
  BY <1>1, <1>3, <1>5, <1>7
<1>9. d.list = k.list /\ d.fifo = k.fifo /\ d.sweeps = k.sweeps \ {s}
  BY <1>1, <1>3, <1>5
<1>10. Fifos(d, a)
  BY <1>9 DEF LockInv, Fifos
<1>11. SweepsOk(d, a)
  <2>1. \A t \in d.sweeps : t \in k.sweeps /\ SweepOk(k, a, t) /\ t.queue # q /\ t.queue \in Queues
    BY <1>0, <1>9, SweepFields DEF LockInv, SweepsOk, q
  <2>2. \A t \in d.sweeps : SweepOk(d, a, t)
    BY <1>6, <1>9, <2>1 DEF SweepOk
  <2>3. \A t, u \in d.sweeps : t.queue = u.queue => t = u
    BY <2>1 DEF LockInv, SweepsOk
  <2> QED
    BY <2>2, <2>3 DEF SweepsOk
<1>12. BusyOk(d)
  <2> SUFFICES ASSUME NEW w \in Waiters, d.slot[w].busy
               PROVE  \E t \in d.sweeps : w \in ToSet(t.batch)
    BY DEF BusyOk
  <2>1. k.slot[w].busy /\ w \notin ToSet(s.batch)
    BY <1>8
  <2>2. PICK t \in k.sweeps : w \in ToSet(t.batch)
    BY <2>1 DEF LockInv, BusyOk
  <2>3. t \in d.sweeps
    BY <1>9, <2>1, <2>2
  <2> QED
    BY <2>2, <2>3
<1>13. LockInv(d, a)
  BY <1>5, <1>10, <1>11, <1>12 DEF LockInv
<1> QED
  BY <1>6, <1>8, <1>9, <1>13 DEF d, g, q, who, full

(* A forgotten trigger had nobody to serve.                                    *)
LEMMA ForgottenFacts ==
  ASSUME NEW a, NEW k, LockInv(k, a)
  PROVE  LET m == Forgotten(k) IN
         /\ LockInv(m, a)
         /\ m.list = k.list /\ m.slot = k.slot /\ m.bell = k.bell /\ m.fifo = k.fifo
         /\ m.inFlight = k.inFlight /\ m.sweeps = k.sweeps
         /\ \A q \in Queues : k.inFlight[q] => m.pending[q] = k.pending[q]
         /\ \A q \in Queues : Idle(k, q) => Idle(m, q)
         /\ \A q \in Queues : Answered(k, q) => Answered(m, q)
<1> DEFINE pend == [q \in Queues |-> k.pending[q] /\ Known(k, q)]
           m == [k EXCEPT !.pending = pend]
<1>0. k \in WakerStates
  BY DEF LockInv
<1>1. Forgotten(k) = m
  BY DEF Forgotten
<1>2. \A q \in Queues : pend[q] \in BOOLEAN /\ (pend[q] <=> k.pending[q] /\ Known(k, q))
  OBVIOUS
<1>3. pend \in [Queues -> BOOLEAN]
  OBVIOUS
<1> HIDE DEF pend
<1>4. /\ m \in WakerStates
      /\ m.list = k.list /\ m.slot = k.slot /\ m.bell = k.bell /\ m.fifo = k.fifo
      /\ m.inFlight = k.inFlight /\ m.sweeps = k.sweeps /\ m.pending = pend
  BY <1>0, <1>3 DEF WakerStates
<1> HIDE DEF m
<1>5. LockInv(m, a)
  BY <1>4 DEF LockInv, Fifos, SweepsOk, SweepOk, BusyOk
<1>6. \A q \in Queues : k.pending[q] \in BOOLEAN
  BY <1>0, StateFields
<1>7. \A q \in Queues : k.inFlight[q] => m.pending[q] = k.pending[q]
  BY <1>2, <1>4, <1>6 DEF Known
<1>8. \A w, q : Owed(m, w, q) <=> Owed(k, w, q)
  BY <1>4 DEF Owed
<1>9. ASSUME NEW q \in Queues, Idle(k, q) PROVE Idle(m, q)
  BY <1>2, <1>4, <1>8, <1>9 DEF Idle, Eligible
<1>10. ASSUME NEW q \in Queues, Answered(k, q) PROVE Answered(m, q)
  <2>1. SUFFICES ASSUME Sought(m, q) PROVE m.inFlight[q] \/ m.pending[q]
    BY DEF Answered
  <2>2. Sought(k, q)
    BY <1>4, <1>8, <2>1 DEF Sought, WasOwed
  <2>3. ToSet(k.fifo[q]) # {}
    BY <2>2 DEF Sought
  <2>4. k.fifo[q] # <<>>
    BY <2>3 DEF ToSet
  <2> QED
    BY <1>2, <1>4, <1>10, <2>2, <2>4 DEF Answered, Known
<1> QED
  BY <1>1, <1>4, <1>5, <1>7, <1>9, <1>10

(* A call for each queue, in order.                                           *)
LEMMA CallsFacts ==
  ASSUME NEW how \in {"start", "trigger", "deferred"}, NEW queues \in Seq(Queues)
  PROVE  /\ Calls(how, queues) \in Seq(CallSet)
         /\ \A c \in ToSet(Calls(how, queues)) : c.how = how
         /\ \A q \in ToSet(queues) : \E c \in ToSet(Calls(how, queues)) : c.queue = q
<1> DEFINE n == Len(queues)
           calls == [i \in 1 .. n |-> [how |-> how, queue |-> queues[i]]]
<1>1. n \in Nat /\ \A i \in 1 .. n : queues[i] \in Queues
  OBVIOUS
<1>2. \A i \in 1 .. n : /\ calls[i] \in CallSet /\ calls[i].how = how
                        /\ calls[i].queue = queues[i]
  BY <1>1 DEF CallSet
<1>3. calls \in [1 .. n -> CallSet] /\ DOMAIN calls = 1 .. n
  BY <1>2
<1>4. Calls(how, queues) = calls
  BY DEF Calls
<1> HIDE DEF calls
<1>5. calls \in Seq(CallSet) /\ ToSet(calls) = {calls[i] : i \in 1 .. n}
  BY <1>1, <1>3, SeqDef DEF ToSet
<1>6. ToSet(queues) = {queues[i] : i \in 1 .. n}
  BY DEF ToSet
<1> QED
  BY <1>2, <1>4, <1>5, <1>6

(* The waiters left without jobs are those of the batch whose slots are       *)
(* open; the queues they go on to, and all others they may be owed, are       *)
(* called.                                                                    *)
LEMMA OnwardFacts ==
  ASSUME NEW a, NEW k, LockInv(k, a), NEW s \in k.sweeps
  PROVE  /\ Left(k, s) \in Seq(Waiters)
         /\ \A w \in Waiters : w \in ToSet(Left(k, s)) <=>
              w \in ToSet(s.batch) /\ Given(k, s).slot[w].ended = "no"
         /\ Onward(k, s) \in Seq(Queues)
         /\ \A w \in ToSet(Left(k, s)) :
              LET n == Done(k, s).slot[w].arrival IN
              n # k.slot[w].arrival /\ n <= Len(k.list[w])
                => k.list[w][n] \in ToSet(Onward(k, s))
         /\ Awaited(k, s) \subseteq Queues
         /\ \A w \in ToSet(Left(k, s)) : \A q \in ToSet(k.list[w]) :
              q # s.queue => q \in Awaited(k, s)
<1> DEFINE set == {w \in Waiters : Given(k, s).slot[w].ended = "no"}
           left == Left(k, s)
           moved == Done(k, s).slot
           further == {w \in Waiters : /\ moved[w].arrival # k.slot[w].arrival
                                       /\ moved[w].arrival <= Len(k.list[w])}
           on == Only(left, further)
           onward == [i \in 1 .. Len(on) |-> k.list[on[i]][moved[on[i]].arrival]]
<1>0. k \in WakerStates /\ s.batch \in Seq(Waiters)
  BY SweepFields DEF LockInv
<1>1. left \in Seq(Waiters) /\ ToSet(left) = ToSet(s.batch) \cap set
  BY <1>0, OnlyFacts DEF Left
<1> HIDE DEF left, on
<1>2. on \in Seq(Waiters) /\ ToSet(on) = ToSet(left) \cap further
  BY <1>1, OnlyFacts DEF on
<1>3. Onward(k, s) = onward
  BY DEF Onward, on, left
<1>4. Done(k, s) \in WakerStates
  BY DoneFacts DEF LockInv
<1> HIDE DEF moved
<1>5. \A w \in further : k.list[w][moved[w].arrival] \in Queues
  <2> TAKE w \in further
  <2>1. w \in Waiters /\ moved[w].arrival \in Nat \ {0} /\ moved[w].arrival <= Len(k.list[w])
    BY <1>4, SlotFields DEF moved
  <2>2. k.list[w] \in Seq(Queues) /\ Len(k.list[w]) \in Nat
    BY <1>0, <2>1, SlotFields
  <2>3. moved[w].arrival \in 1 .. Len(k.list[w])
    BY <2>1, <2>2
  <2> QED
    BY <2>2, <2>3
<1> HIDE DEF further
<1>6. Len(on) \in Nat /\ \A i \in 1 .. Len(on) : on[i] \in ToSet(on)
  BY <1>2, SeqSet
<1>7. \A i \in 1 .. Len(on) : onward[i] \in Queues
  BY <1>2, <1>5, <1>6
<1>8. onward \in [1 .. Len(on) -> Queues]
  BY <1>7
<1>9. onward \in Seq(Queues)
  <2> HIDE DEF onward
  <2> QED
    BY <1>6, <1>8, SeqDef
<1>10. ASSUME NEW w \in ToSet(left), moved[w].arrival # k.slot[w].arrival,
              moved[w].arrival <= Len(k.list[w])
       PROVE  k.list[w][moved[w].arrival] \in ToSet(onward)
  <2>1. w \in further
    BY <1>1, <1>10 DEF further
  <2>2. w \in ToSet(on)
    BY <1>2, <1>10, <2>1
  <2>3. PICK i \in 1 .. Len(on) : w = on[i]
    BY <1>2, <2>2, SeqSet
  <2>4. onward[i] = k.list[w][moved[w].arrival] /\ i \in DOMAIN onward
    BY <2>3
  <2> HIDE DEF onward
  <2> QED
    BY <2>4 DEF ToSet
<1>11. Awaited(k, s) \subseteq Queues
  BY <1>0, <1>1, SlotFields DEF Awaited, left
<1>12. \A w \in ToSet(left) : \A q \in ToSet(k.list[w]) : q # s.queue => q \in Awaited(k, s)
  <2> TAKE w \in ToSet(left)
  <2> TAKE q \in ToSet(k.list[w])
  <2> HAVE q # s.queue
  <2> DEFINE asked == {ToSet(k.list[v]) : v \in ToSet(left)}
  <2>1. ToSet(k.list[w]) \in asked
    OBVIOUS
  <2>2. Awaited(k, s) = (UNION asked) \ {s.queue}
    BY DEF Awaited, left
  <2> HIDE DEF asked
  <2>3. q \in UNION asked
    BY <2>1
  <2> QED
    BY <2>2, <2>3
<1> HIDE DEF onward
<1> QED
  BY <1>1, <1>3, <1>9, <1>10, <1>11, <1>12 DEF left, moved

(* complete, Ok.  Other queues stay answered: a waiter that goes on triggers   *)
(* the queue it comes to, and one that parks was owed this queue only.  No     *)
(* kept trigger is left with a waiter this sweep has freed.                    *)
LEMMA DeliversFacts ==
  ASSUME NEW a, NEW k, LockInv(k, a), NEW s \in k.sweeps, \A q \in Queues : Idle(k, q)
  PROVE  LET m == Delivers(k, s)
             g == Given(k, s)
         IN
         /\ LockInv(m, a)
         /\ m.list = k.list /\ m.fifo = k.fifo
         /\ \A w \in Waiters :
              /\ m.slot[w].ended = g.slot[w].ended /\ m.slot[w].offer = g.slot[w].offer
              /\ a[w] = "new" => m.slot[w].arrival = k.slot[w].arrival
         /\ k.sweeps \ {s} \subseteq m.sweeps
         /\ \A t \in m.sweeps : t \in k.sweeps \ {s} \/ (t.jobs = <<>> /\ t.is = "sent")
         /\ \A q \in Queues : q # s.queue /\ k.inFlight[q] /\ k.pending[q] => m.pending[q]
         /\ \A q \in Queues : Idle(m, q)
         /\ \A q \in Queues : q # s.queue /\ Answered(k, q) => Answered(m, q)
         /\ k.pending[s.queue] \/ Len(s.jobs) >= Clamp * Len(s.batch) => Answered(m, s.queue)
<1> DEFINE d == Done(k, s)
           g == Given(k, s)
           q0 == s.queue
           left == ToSet(Left(k, s))
           x == Calls("deferred", <<q0>>)
           y == Calls("trigger", Onward(k, s))
           z == Calls("deferred", SetToSeq(Awaited(k, s)))
           calls == (x \o y) \o z
           t0 == InTurn(d, calls)
           m == Forgotten(t0)
           full == Len(s.jobs) >= Clamp * Len(s.batch)
<1>0. k \in WakerStates /\ q0 \in Queues
  BY SweepFields DEF LockInv
<1>1. /\ LockInv(d, a)
      /\ d.list = k.list /\ d.fifo = k.fifo /\ d.sweeps = k.sweeps \ {s}
      /\ ~ d.inFlight[q0]
      /\ d.pending[q0] <=> k.pending[q0] \/ full
      /\ \A p \in Queues : p # q0 => /\ d.inFlight[p] = k.inFlight[p]
                                     /\ d.pending[p] = k.pending[p]
      /\ \A w \in Waiters :
           /\ d.slot[w].ended = g.slot[w].ended /\ d.slot[w].offer = g.slot[w].offer
           /\ d.slot[w].busy <=> k.slot[w].busy /\ w \notin ToSet(s.batch)
           /\ d.slot[w].arrival = IF w \in left /\ At(k, w, q0)
                                    THEN k.slot[w].arrival + 1 ELSE k.slot[w].arrival
  BY DoneFacts
<1>2. \A w \in Waiters : g.slot[w].ended = "no" => k.slot[w].ended = "no"
  BY GivenFacts
<1>3. /\ Onward(k, s) \in Seq(Queues)
      /\ \A w \in Waiters : w \in left <=> w \in ToSet(s.batch) /\ g.slot[w].ended = "no"
      /\ \A w \in left : d.slot[w].arrival # k.slot[w].arrival
                           /\ d.slot[w].arrival <= Len(k.list[w])
                         => k.list[w][d.slot[w].arrival] \in ToSet(Onward(k, s))
      /\ Awaited(k, s) \subseteq Queues
      /\ \A w \in left : \A p \in ToSet(k.list[w]) : p # q0 => p \in Awaited(k, s)
  BY OnwardFacts
<1>4. /\ SetToSeq(Awaited(k, s)) \in Seq(Queues)
      /\ ToSet(SetToSeq(Awaited(k, s))) = Awaited(k, s)
  <2>1. IsFiniteSet(Awaited(k, s))
    BY <1>3, FiniteAssumption, FS_Subset
  <2>2. SetToSeq(Awaited(k, s)) \in Seq(Awaited(k, s)) /\ ToSet(SetToSeq(Awaited(k, s))) = Awaited(k, s)
    BY <2>1, SetToSeqFacts
  <2>3. Seq(Awaited(k, s)) \subseteq Seq(Queues)
    BY <1>3
  <2> QED
    BY <2>2, <2>3
<1>5. <<q0>> \in Seq(Queues) /\ q0 \in ToSet(<<q0>>)
  BY <1>0 DEF ToSet
<1>6. Delivers(k, s) = m
  BY DEF Delivers
<1> HIDE DEF q0, left, x, y, z, d, g, full
<1>7. /\ x \in Seq(CallSet) /\ \A c \in ToSet(x) : c.how = "deferred"
      /\ \E c \in ToSet(x) : c.queue = q0
  BY <1>5, CallsFacts DEF x
<1>8. /\ y \in Seq(CallSet) /\ \A c \in ToSet(y) : c.how = "trigger"
      /\ \A p \in ToSet(Onward(k, s)) : \E c \in ToSet(y) : c.queue = p
  BY <1>3, CallsFacts DEF y
<1>9. /\ z \in Seq(CallSet) /\ \A c \in ToSet(z) : c.how = "deferred"
      /\ \A p \in Awaited(k, s) : \E c \in ToSet(z) : c.queue = p
  <2>1. /\ z \in Seq(CallSet) /\ \A c \in ToSet(z) : c.how = "deferred"
        /\ \A p \in ToSet(SetToSeq(Awaited(k, s))) : \E c \in ToSet(z) : c.queue = p
    BY <1>4, CallsFacts DEF z
  <2> QED
    BY <1>4, <2>1
<1>10. calls \in Seq(CallSet) /\ ToSet(calls) = (ToSet(x) \cup ToSet(y)) \cup ToSet(z)
  <2>1. x \o y \in Seq(CallSet) /\ ToSet(x \o y) = ToSet(x) \cup ToSet(y)
    BY <1>7, <1>8, ConcatSet
  <2> DEFINE xy == x \o y
  <2>2. xy \in Seq(CallSet)
    BY <2>1
  <2> HIDE DEF xy
  <2>3. xy \o z \in Seq(CallSet) /\ ToSet(xy \o z) = ToSet(xy) \cup ToSet(z)
    BY <1>9, <2>2, ConcatSet
  <2> QED
    BY <2>1, <2>3 DEF xy
<1> HIDE DEF calls
<1>11. /\ \A i \in 1 .. Len(calls) : calls[i] \in ToSet(calls)
       /\ \A c \in ToSet(calls) : \E i \in 1 .. Len(calls) : c = calls[i]
  BY <1>10, SeqSet
<1>12. \A i \in 1 .. Len(calls) : calls[i].how # "start"
  BY <1>7, <1>8, <1>9, <1>10, <1>11
<1>13. /\ LockInv(t0, a) /\ Frame(d, t0)
       /\ \A p \in Queues :
            Idle(d, p) \/ (\E i \in 1 .. Len(calls) : calls[i].queue = p) => Idle(t0, p)
       /\ \A p \in Queues :
            \/ Answered(d, p)
            \/ \E i \in 1 .. Len(calls) : calls[i].queue = p /\ calls[i].how # "deferred"
            => Answered(t0, p)
  BY <1>1, <1>10, <1>12, InTurnFacts
<1> HIDE DEF t0
<1>14. /\ LockInv(m, a)
       /\ m.list = t0.list /\ m.slot = t0.slot /\ m.bell = t0.bell /\ m.fifo = t0.fifo
       /\ m.inFlight = t0.inFlight /\ m.sweeps = t0.sweeps
       /\ \A q \in Queues : t0.inFlight[q] => m.pending[q] = t0.pending[q]
       /\ \A q \in Queues : Idle(t0, q) => Idle(m, q)
       /\ \A q \in Queues : Answered(t0, q) => Answered(m, q)
  BY <1>13, ForgottenFacts
<1> HIDE DEF m
<1>15. /\ m.list = k.list /\ m.fifo = k.fifo
       /\ \A w \in Waiters :
            m.slot[w].ended = g.slot[w].ended /\ m.slot[w].offer = g.slot[w].offer
       /\ k.sweeps \ {s} \subseteq m.sweeps
       /\ \A t \in m.sweeps : t \in k.sweeps \ {s} \/ (t.jobs = <<>> /\ t.is = "sent")
  BY <1>1, <1>13, <1>14 DEF Frame
<1>15a. \A w \in Waiters : a[w] = "new" => m.slot[w].arrival = k.slot[w].arrival
  <2>1. \A w \in Waiters : a[w] = "new" => w \notin left
    BY <1>3 DEF LockInv, SweepsOk, SweepOk
  <2> QED
    BY <1>1, <1>13, <1>14, <2>1 DEF Frame
<1>16. \A q \in Queues : q # q0 /\ k.inFlight[q] /\ k.pending[q] => m.pending[q]
  BY <1>1, <1>13, <1>14 DEF Frame
<1>17. \A p \in ToSet(Onward(k, s)) :
         \E i \in 1 .. Len(calls) : calls[i].queue = p /\ calls[i].how # "deferred"
  BY <1>8, <1>10, <1>11
<1>18. \A p \in Awaited(k, s) \cup {q0} : \E i \in 1 .. Len(calls) : calls[i].queue = p
  BY <1>7, <1>9, <1>10, <1>11
<1>19. ASSUME NEW q \in Queues PROVE Idle(m, q)
  <2>1. CASE q \in Awaited(k, s) \cup {q0}
    BY <1>13, <1>14, <1>18, <2>1
  <2>2. CASE q \notin Awaited(k, s) \cup {q0}
    <3>1. Idle(d, q)
      <4> SUFFICES ASSUME d.pending[q], ~ d.inFlight[q], NEW w \in ToSet(d.fifo[q]), Eligible(d, w, q)
                   PROVE  FALSE
        BY DEF Idle
      <4>1. /\ w \in ToSet(k.fifo[q]) /\ w \in Waiters /\ q \in ToSet(k.list[w])
            /\ k.pending[q] /\ ~ k.inFlight[q]
        BY <1>0, <1>1, <2>2, StateFields DEF LockInv, Fifos
      <4>2. w \notin left
        BY <1>3, <2>2, <4>1
      <4>3. g.slot[w].ended = "no" /\ d.slot[w].ended = "no"
        BY <1>1, <4>1 DEF Eligible, Owed
      <4>4. w \notin ToSet(s.batch)
        BY <1>3, <4>1, <4>2, <4>3
      <4>5. k.slot[w].ended = "no" /\ d.slot[w].arrival = k.slot[w].arrival
            /\ (d.slot[w].busy <=> k.slot[w].busy)
        BY <1>1, <1>2, <4>1, <4>2, <4>3, <4>4
      <4>6. Eligible(k, w, q)
        BY <1>1, <4>5 DEF Eligible, Owed
      <4> QED
        BY <4>1, <4>6 DEF Idle
    <3> QED
      BY <1>13, <1>14, <3>1
  <2> QED
    BY <2>1, <2>2
<1>20. ASSUME NEW q \in Queues, q # q0, Answered(k, q) PROVE Answered(m, q)
  <2>1. CASE q \in ToSet(Onward(k, s))
    BY <1>13, <1>14, <1>17, <2>1
  <2>2. CASE q \notin ToSet(Onward(k, s))
    <3>1. Answered(d, q)
      <4> SUFFICES ASSUME NEW w \in ToSet(d.fifo[q]), Owed(d, w, q), WasOwed(d, w, q)
                   PROVE  k.inFlight[q] \/ k.pending[q]
        BY <1>1, <1>20 DEF Answered, Sought
      <4>1. /\ w \in ToSet(k.fifo[q]) /\ w \in Waiters
            /\ k.list[w] \in Seq(Queues) /\ Len(k.list[w]) \in Nat
            /\ k.slot[w].arrival \in Nat \ {0}
        BY <1>0, <1>1, StateFields, SlotFields
      <4>2. k.slot[w].ended = "no"
        BY <1>1, <1>2, <4>1 DEF Owed
      <4>3. CASE d.slot[w].arrival = k.slot[w].arrival
        <5>1. Owed(k, w, q) /\ WasOwed(k, w, q)
          BY <1>1, <4>2, <4>3 DEF Owed, WasOwed
        <5> QED
          BY <1>20, <4>1, <5>1 DEF Answered, Sought
      <4>4. CASE d.slot[w].arrival # k.slot[w].arrival
        <5> DEFINE n == k.slot[w].arrival
                   l == k.list[w]
        <5>1. w \in left /\ d.slot[w].arrival = n + 1 /\ n <= Len(l) /\ l[n] = q0
          BY <1>1, <4>1, <4>4 DEF At
        <5>2. CASE n + 1 <= Len(l)
          <6>1. l[n + 1] \in ToSet(Onward(k, s))
            BY <1>3, <4>4, <5>1, <5>2
          <6>2. ~ (n + 1 > Len(l))
            BY <4>1, <5>2
          <6>3. l[n + 1] = q
            BY <1>1, <5>1, <6>2 DEF Owed
          <6> QED
            BY <2>2, <6>1, <6>3
        <5>3. CASE ~ (n + 1 <= Len(l))
          <6>1. n = Len(l)
            BY <4>1, <5>1, <5>3
          <6>2. Last(l) = q
            BY <1>1, <5>1, <5>3 DEF WasOwed
          <6>3. Last(l) = l[Len(l)]
            BY DEF Last
          <6> QED
            BY <1>20, <5>1, <6>1, <6>2, <6>3
        <5> QED
          BY <5>2, <5>3
      <4> QED
        BY <4>3, <4>4
    <3> QED
      BY <1>13, <1>14, <3>1
  <2> QED
    BY <2>1, <2>2
<1>21. ASSUME k.pending[q0] \/ full PROVE Answered(m, q0)
  <2>1. Answered(d, q0)
    BY <1>1, <1>21 DEF Answered
  <2> QED
    BY <1>0, <1>13, <1>14, <2>1
<1> QED
  BY <1>6, <1>14, <1>15, <1>16, <1>15a, <1>19, <1>20, <1>21 DEF g, q0, full

(* complete, Err.  The waiters it leaves on the queue are in sweeps of other   *)
(* queues; where a RESERVE names one queue, there are none.                    *)
LEMMA FailsFacts ==
  ASSUME NEW a, NEW k, LockInv(k, a), NEW s \in k.sweeps, \A q \in Queues : Idle(k, q)
  PROVE  LET m == Fails(k, s) IN
         /\ LockInv(m, a)
         /\ m.list = k.list /\ m.fifo = k.fifo /\ m.sweeps = k.sweeps \ {s}
         /\ \A w \in Waiters :
              /\ m.slot[w].arrival = k.slot[w].arrival
              /\ \/ m.slot[w].ended = k.slot[w].ended /\ m.slot[w].offer = k.slot[w].offer
                 \/ /\ k.slot[w].ended = "no" /\ m.slot[w].ended = "Offered"
                    /\ m.slot[w].offer = <<>> /\ a[w] # "new"
         /\ \A q \in Queues : q # s.queue => m.pending[q] = k.pending[q]
         /\ \A q \in Queues : Idle(m, q)
         /\ \A q \in Queues : q # s.queue /\ Answered(k, q) => Answered(m, q)
         /\ ListLen = 1 => Answered(m, s.queue)
<1> DEFINE q0 == s.queue
           f == Freed(k, s)
           bells == [w \in Waiters |-> k.bell[w] \/ w \in ToSet(s.batch)]
           free == [f EXCEPT !.bell = bells, !.inFlight[q0] = FALSE, !.pending[q0] = FALSE]
           told == ToSet(s.batch) \cup {w \in ToSet(k.fifo[q0]) : ~ free.slot[w].busy}
           offers == [w \in told |-> <<>>]
           m == Offer(free, offers)
<1>0. /\ k \in WakerStates /\ q0 \in Queues
      /\ \A w \in ToSet(s.batch) : w \in Waiters
      /\ \A w \in ToSet(k.fifo[q0]) : w \in Waiters
  BY SweepFields, StateFields DEF LockInv
<1>1. /\ f \in WakerStates
      /\ f.list = k.list /\ f.fifo = k.fifo /\ f.inFlight = k.inFlight
      /\ f.pending = k.pending /\ f.sweeps = k.sweeps \ {s}
      /\ \A w \in Waiters :
              /\ f.slot[w].arrival = k.slot[w].arrival /\ f.slot[w].ended = k.slot[w].ended
              /\ f.slot[w].offer = k.slot[w].offer
              /\ f.slot[w].busy <=> k.slot[w].busy /\ w \notin ToSet(s.batch)
  BY <1>0, FreedFacts
<1>2. Fails(k, s) = m
  BY DEF Fails
<1>3. bells \in [Waiters -> BOOLEAN]
  OBVIOUS
<1> HIDE DEF q0, f, bells
<1>4. /\ free \in WakerStates
      /\ free.list = f.list /\ free.fifo = f.fifo /\ free.slot = f.slot
      /\ free.sweeps = f.sweeps
      /\ free.inFlight = [f.inFlight EXCEPT ![q0] = FALSE]
      /\ free.pending = [f.pending EXCEPT ![q0] = FALSE]
  BY <1>1, <1>3 DEF WakerStates
<1> HIDE DEF free
<1>5. \A w \in told : w \in Waiters /\ a[w] # "new"
  BY <1>0 DEF LockInv, Fifos, SweepsOk, SweepOk
<1>6. \A w \in Waiters : w \notin told => /\ w \notin ToSet(s.batch)
                                          /\ w \in ToSet(k.fifo[q0]) => k.slot[w].busy
  BY <1>1, <1>4
<1>7. ToSet(s.batch) \subseteq told
  OBVIOUS
<1> HIDE DEF told
<1>8. DOMAIN offers = told /\ \A w \in told : offers[w] = <<>> /\ <<>> \in Seq(Reservations)
  OBVIOUS
<1> HIDE DEF offers
<1>9. /\ m \in WakerStates
      /\ m.list = free.list /\ m.fifo = free.fifo /\ m.inFlight = free.inFlight
      /\ m.pending = free.pending /\ m.sweeps = free.sweeps
      /\ \A w \in Waiters :
           /\ m.slot[w].arrival = free.slot[w].arrival /\ m.slot[w].busy = free.slot[w].busy
           /\ IF w \in told /\ free.slot[w].ended = "no"
                THEN m.slot[w].ended = "Offered" /\ m.slot[w].offer = <<>>
                ELSE m.slot[w] = free.slot[w]
  <2>1. \A w \in DOMAIN offers : w \in Waiters /\ offers[w] \in Seq(Reservations)
    BY <1>5, <1>8
  <2> QED
    BY <1>4, <1>8, <2>1, OfferFacts
<1> HIDE DEF m
<1>10. /\ m.list = k.list /\ m.fifo = k.fifo /\ m.sweeps = k.sweeps \ {s}
       /\ ~ m.inFlight[q0] /\ ~ m.pending[q0]
       /\ \A p \in Queues : p # q0 => m.inFlight[p] = k.inFlight[p] /\ m.pending[p] = k.pending[p]
  BY <1>0, <1>1, <1>4, <1>9, StateFields
<1>11. \A w \in Waiters :
         /\ m.slot[w].arrival = k.slot[w].arrival
         /\ m.slot[w].busy <=> k.slot[w].busy /\ w \notin ToSet(s.batch)
         /\ \/ m.slot[w].ended = k.slot[w].ended /\ m.slot[w].offer = k.slot[w].offer
            \/ /\ k.slot[w].ended = "no" /\ m.slot[w].ended = "Offered"
               /\ m.slot[w].offer = <<>> /\ w \in told
         /\ m.slot[w].ended = "no" => w \notin told /\ k.slot[w].ended = "no"
  BY <1>1, <1>4, <1>9
<1>12. Fifos(m, a)
  BY <1>10 DEF LockInv, Fifos
<1>13. SweepsOk(m, a)
  <2>1. \A t \in m.sweeps : t \in k.sweeps /\ SweepOk(k, a, t) /\ t.queue # q0 /\ t.queue \in Queues
    BY <1>0, <1>10, SweepFields DEF LockInv, SweepsOk, q0
  <2>2. \A t \in m.sweeps : SweepOk(m, a, t)
    BY <1>10, <2>1 DEF SweepOk
  <2>3. \A t, u \in m.sweeps : t.queue = u.queue => t = u
    BY <2>1 DEF LockInv, SweepsOk
  <2> QED
    BY <2>2, <2>3 DEF SweepsOk
<1>14. BusyOk(m)
  <2> SUFFICES ASSUME NEW w \in Waiters, m.slot[w].busy
               PROVE  \E t \in m.sweeps : w \in ToSet(t.batch)
    BY DEF BusyOk
  <2>1. k.slot[w].busy /\ w \notin ToSet(s.batch)
    BY <1>11
  <2>2. PICK t \in k.sweeps : w \in ToSet(t.batch)
    BY <2>1 DEF LockInv, BusyOk
  <2>3. t \in m.sweeps
    BY <1>10, <2>1, <2>2
  <2> QED
    BY <2>2, <2>3
<1>15. LockInv(m, a)
  BY <1>9, <1>12, <1>13, <1>14 DEF LockInv
<1>16. \A w \in Waiters : \A q : Owed(m, w, q) => Owed(k, w, q) /\ w \notin told
  BY <1>10, <1>11 DEF Owed
<1>17. ASSUME NEW q \in Queues PROVE Idle(m, q)
  <2> SUFFICES ASSUME m.pending[q], ~ m.inFlight[q], NEW w \in ToSet(m.fifo[q]), Eligible(m, w, q)
               PROVE  FALSE
    BY DEF Idle
  <2>1. q # q0 /\ k.pending[q] /\ ~ k.inFlight[q] /\ w \in ToSet(k.fifo[q]) /\ w \in Waiters
    BY <1>0, <1>10, StateFields
  <2>2. Owed(k, w, q) /\ w \notin ToSet(s.batch) /\ ~ m.slot[w].busy
    BY <1>7, <1>16, <2>1 DEF Eligible
  <2>3. Eligible(k, w, q)
    BY <1>11, <2>1, <2>2 DEF Eligible
  <2> QED
    BY <2>1, <2>3 DEF Idle
<1>18. ASSUME NEW q \in Queues, q # q0, Answered(k, q) PROVE Answered(m, q)
  <2>1. ASSUME Sought(m, q) PROVE Sought(k, q)
    <3>1. PICK w \in ToSet(m.fifo[q]) : Owed(m, w, q) /\ WasOwed(m, w, q)
      BY <2>1 DEF Sought
    <3>2. w \in ToSet(k.fifo[q]) /\ w \in Waiters
      BY <1>0, <1>10, StateFields
    <3>3. Owed(k, w, q) /\ WasOwed(k, w, q)
      BY <1>10, <1>11, <1>16, <3>1, <3>2 DEF WasOwed
    <3> QED
      BY <3>2, <3>3 DEF Sought
  <2> QED
    BY <1>10, <1>18, <2>1 DEF Answered
<1>19. ASSUME ListLen = 1 PROVE Answered(m, q0)
  <2> SUFFICES ASSUME NEW w \in ToSet(k.fifo[q0]), Owed(m, w, q0) PROVE FALSE
    BY <1>10 DEF Answered, Sought
  <2>1. w \in Waiters /\ w \notin ToSet(s.batch) /\ k.slot[w].busy
    BY <1>0, <1>6, <1>16
  <2>2. PICK t \in k.sweeps : w \in ToSet(t.batch)
    BY <2>1 DEF LockInv, BusyOk
  <2>3. t.queue \in ToSet(k.list[w]) /\ q0 \in ToSet(k.list[w])
    BY <1>0, <2>2 DEF LockInv, SweepsOk, SweepOk, Fifos
  <2>4. k.list[w] \in Seq(Queues) /\ Len(k.list[w]) \in Nat /\ Len(k.list[w]) <= 1
    BY <1>0, <1>19, <2>1, SlotFields
  <2>5. PICK i \in 1 .. Len(k.list[w]) : t.queue = k.list[w][i]
    BY <2>3, <2>4, SeqSet
  <2>6. PICK j \in 1 .. Len(k.list[w]) : q0 = k.list[w][j]
    BY <2>3, <2>4, SeqSet
  <2>7. i = j
    BY <2>4
  <2>8. t = s
    BY <2>5, <2>6, <2>7 DEF LockInv, SweepsOk, q0
  <2> QED
    BY <2>1, <2>2, <2>8
<1> QED
  BY <1>2, <1>5, <1>10, <1>11, <1>15, <1>17, <1>18, <1>19 DEF q0

-----------------------------------------------------------------------------
(* The invariant.                                                              *)

(* The places of a reservation: a sweep, a slot, a hand, an unreserve.         *)
AtSweep(k, r) == \E s \in k.sweeps : r \in ToSet(s.jobs)
AtSlot(k, r) == \E w \in Waiters : r \in ToSet(k.slot[w].offer)
AtHand(h, r) == \E w \in Waiters : r \in ToSet(h[w])
AtUndo(u, r) == \E x \in u : r \in x.jobs

(* It is in one of them, delivered or returned, and in one only.               *)
Once(k, h, u, d, b, m) ==
  \A r :
    /\ r \in m <=> \/ AtSweep(k, r) \/ AtSlot(k, r) \/ AtHand(h, r) \/ AtUndo(u, r)
                   \/ r \in d \/ r \in b
    /\ AtSweep(k, r) => /\ ~ AtSlot(k, r) /\ ~ AtHand(h, r) /\ ~ AtUndo(u, r)
                        /\ r \notin d /\ r \notin b
    /\ AtSlot(k, r) => ~ AtHand(h, r) /\ ~ AtUndo(u, r) /\ r \notin d /\ r \notin b
    /\ AtHand(h, r) => ~ AtUndo(u, r) /\ r \notin d /\ r \notin b
    /\ AtUndo(u, r) => r \notin d /\ r \notin b
    /\ r \in d => r \notin b

Apart(k, h, u) ==
  \A r :
    /\ \A s, t \in k.sweeps : r \in ToSet(s.jobs) /\ r \in ToSet(t.jobs) => s = t
    /\ \A w, v \in Waiters : r \in ToSet(k.slot[w].offer) /\ r \in ToSet(k.slot[v].offer) => w = v
    /\ \A w, v \in Waiters : r \in ToSet(h[w]) /\ r \in ToSet(h[v]) => w = v
    /\ \A x, y \in u : r \in x.jobs /\ r \in y.jobs => x = y

Looked(k, a) == \A w \in Waiters : ToSet(k.slot[w].offer) # {} => a[w] \in {"loop", "asleep"}

Fresh(k, a) == \A w \in Waiters : a[w] = "new" => k.slot[w].arrival = 1

Handlers(k, a, h) ==
  \A w \in Waiters :
    /\ k.slot[w].ended = "no" => k.slot[w].offer = <<>>
    /\ a[w] \in {"new", "loop", "asleep"} => k.slot[w].ended \in {"no", "Offered"}
    /\ a[w] \in {"leave", "handoff", "over"} => k.slot[w].ended # "no" /\ k.slot[w].offer = <<>>
    /\ h[w] # <<>> => a[w] \in {"leave", "handoff"}

RowsOk(rw, m) ==
  /\ \A j \in Jobs : rw[j].attempts <= rw[j].n
  /\ \A r \in m : r.n <= rw[r.job].n /\ rw[r.job].queue \in Queues

LiesIn(rw, j, q) ==
  rw[j].queue = q /\ rw[j].stamp = 0 /\ rw[j].hinted /\ rw[j].n < MaxReservations

(* A sweep that came back with fewer jobs than it could take left none of those *)
(* announced; one announced since has a trigger.                                *)
Swept(k, hs, rw) ==
  \A s \in k.sweeps :
    /\ s.is = "back" /\ Len(s.jobs) < Clamp * Len(s.batch)
    /\ ~ k.pending[s.queue] /\ s.queue \notin hs
    => \A j \in Jobs : ~ LiesIn(rw, j, s.queue)

AllIdle == \A q \in Queues : Idle(wk, q)

NoSweepFails == "failure" \notin Events \/ ListLen = 1
AllAnswered ==
  NoSweepFails => \A q \in Queues : q \notin hints /\ (\E j \in Jobs : LiesIn(row, j, q))
                                      => Answered(wk, q)

Inv ==
  /\ WakerTypeOK
  /\ LockInv(wk, at)
  /\ Fresh(wk, at)
  /\ Handlers(wk, at, hand)
  /\ RowsOk(row, made)
  /\ Once(wk, hand, undo, delivered, returned, made)
  /\ Apart(wk, hand, undo)
  /\ Looked(wk, at)
  /\ Swept(wk, hints, row)
  /\ AllIdle
  /\ AllAnswered

(* The invariant has every reservation in exactly one place.                  *)
LEMMA InvDeliver ==
  ASSUME Inv
  PROVE  DeliverXorUnreserve
<1>1. /\ Once(wk, hand, undo, delivered, returned, made) /\ Apart(wk, hand, undo)
      /\ Looked(wk, at)
  BY DEF Inv
<1> DEFINE P1 == UNION {InSweep(s) : s \in wk.sweeps}
           P2 == UNION {InSlot(w) : w \in Waiters}
           P3 == UNION {InHand(w) : w \in Waiters}
           P4 == UNION {u.jobs : u \in undo}
<1>2. \A r : /\ r \in P1 <=> AtSweep(wk, r)
             /\ r \in P2 <=> AtSlot(wk, r)
             /\ r \in P3 <=> AtHand(hand, r)
             /\ r \in P4 <=> AtUndo(undo, r)
  BY DEF AtSweep, AtSlot, AtHand, AtUndo, InSweep, InSlot, InHand
<1> HIDE DEF P1, P2, P3, P4
<1>3. Places = <<P1, P2, P3, P4, delivered, returned>>
  BY DEF Places, P1, P2, P3, P4
<1>4. /\ Places[1] = P1 /\ Places[2] = P2 /\ Places[3] = P3 /\ Places[4] = P4
      /\ Places[5] = delivered /\ Places[6] = returned
  BY <1>3
<1>5. \A i : i \in 1 .. 6 <=> i \in {1, 2, 3, 4, 5, 6}
  OBVIOUS
<1>6. \A r : r \in UNION {Places[i] : i \in 1 .. 6} <=> \E i \in {1, 2, 3, 4, 5, 6} : r \in Places[i]
  BY <1>5
<1>7. UNION {Places[i] : i \in 1 .. 6} = made
  <2>1. \A r : r \in UNION {Places[i] : i \in 1 .. 6} <=> r \in made
    BY <1>1, <1>2, <1>4, <1>6 DEF Once
  <2> QED
    BY <2>1
<1>8. \A i, j \in 1 .. 6 : i # j => Places[i] \cap Places[j] = {}
  <2>1. /\ P1 \cap P2 = {} /\ P1 \cap P3 = {} /\ P1 \cap P4 = {} /\ P1 \cap delivered = {}
        /\ P1 \cap returned = {} /\ P2 \cap P3 = {} /\ P2 \cap P4 = {} /\ P2 \cap delivered = {}
        /\ P2 \cap returned = {} /\ P3 \cap P4 = {} /\ P3 \cap delivered = {}
        /\ P3 \cap returned = {} /\ P4 \cap delivered = {} /\ P4 \cap returned = {}
        /\ delivered \cap returned = {}
    BY <1>1, <1>2 DEF Once
  <2> QED
    BY <1>4, <1>5, <2>1
<1>9. \A s, t \in wk.sweeps : s # t => InSweep(s) \cap InSweep(t) = {}
  BY <1>1 DEF Apart, InSweep
<1>10. \A u, v \in undo : u # v => u.jobs \cap v.jobs = {}
  BY <1>1 DEF Apart
<1>11. \A w, v \in Waiters :
         w # v => InSlot(w) \cap InSlot(v) = {} /\ InHand(w) \cap InHand(v) = {}
  BY <1>1 DEF Apart, InSlot, InHand
<1>12. \A w \in Waiters : InSlot(w) # {} => at[w] \in {"loop", "asleep"}
  BY <1>1 DEF Looked, InSlot
<1> QED
  BY <1>7, <1>8, <1>9, <1>10, <1>11, <1>12 DEF DeliverXorUnreserve

(* The invariant leaves no announced job beside a waiter that could take it.  *)
LEMMA InvHint ==
  ASSUME Inv, NoSweepFails
  PROVE  HintNotLost
<1> SUFFICES ASSUME NEW q \in Queues, q \notin hints, NEW j \in Jobs, Lies(j, q),
                    NEW w \in ToSet(wk.fifo[q]), Eligible(wk, w, q), WasOwed(wk, w, q),
                    ~ wk.inFlight[q]
             PROVE  FALSE
  BY DEF HintNotLost
<1>1. LiesIn(row, j, q)
  BY DEF Lies, LiesIn
<1>2. Answered(wk, q)
  BY <1>1 DEF Inv, AllAnswered
<1>3. Sought(wk, q)
  BY DEF Sought, Eligible
<1>4. wk.pending[q]
  BY <1>2, <1>3 DEF Answered
<1> QED
  BY <1>4 DEF Inv, AllIdle, Idle

(* The initial state satisfies the invariant.                                 *)
LEMMA InvInit ==
  ASSUME WakerInit
  PROVE  Inv
<1>1. /\ wk = [list     |-> [w \in Waiters |-> <<>>],
               slot     |-> [w \in Waiters |-> NoSlot],
               bell     |-> [w \in Waiters |-> FALSE],
               fifo     |-> [q \in Queues |-> <<>>],
               inFlight |-> [q \in Queues |-> FALSE],
               pending  |-> [q \in Queues |-> FALSE],
               sweeps   |-> {}]
      /\ at = [w \in Waiters |-> "new"] /\ hand = [w \in Waiters |-> <<>>]
      /\ row = [j \in Jobs |-> [queue |-> NoQueue, attempts |-> 0, stamp |-> 0,
                                n |-> 0, hinted |-> FALSE]]
      /\ hints = {} /\ undo = {} /\ made = {} /\ delivered = {} /\ returned = {}
  BY DEF WakerInit
<1>2. NoSlot \in SlotStates /\ NoSlot.arrival = 1 /\ ~ NoSlot.busy /\ NoSlot.ended = "no" /\ NoSlot.offer = <<>>
  BY BoundsAssumption DEF NoSlot, SlotStates
<1>3. wk \in WakerStates
  BY <1>1, <1>2 DEF WakerStates
<1>4. \A j \in Jobs : row[j] \in Rows /\ row[j].attempts = 0 /\ row[j].n = 0 /\ ~ row[j].hinted
  BY <1>1, BoundsAssumption DEF Rows
<1>5. WakerTypeOK
  <2>1. row \in [Jobs -> Rows]
    <3>1. row = [j \in Jobs |-> row[j]]
      BY <1>1
    <3> QED
      BY <1>4, <3>1
  <2>2. now \in 1 .. MaxTime
    BY BoundsAssumption DEF WakerInit
  <2>3. /\ at \in [Waiters -> {"new", "loop", "asleep", "leave", "handoff", "over"}]
        /\ hand \in [Waiters -> Seq(Reservations)]
    BY <1>1
  <2>4. /\ saw \in [Waiters -> BOOLEAN] /\ cancel \in [Waiters -> BOOLEAN]
        /\ live \in [Waiters -> BOOLEAN] /\ draining \in BOOLEAN
        /\ clock \in [Waiters -> {"wait", "late", "due"}]
    BY DEF WakerInit
  <2>5. /\ hints \subseteq Queues
        /\ undo \subseteq [jobs : SUBSET Reservations, gaveUp : BOOLEAN]
        /\ made \subseteq Reservations /\ delivered \subseteq Reservations
        /\ returned \subseteq Reservations
    BY <1>1
  <2> QED
    BY <1>3, <2>1, <2>2, <2>3, <2>4, <2>5 DEF WakerTypeOK
<1>6. ToSet(<<>>) = {} /\ IsInjective(<<>>)
  BY DEF ToSet, IsInjective
<1>7. /\ wk.sweeps = {} /\ \A w \in Waiters : wk.slot[w] = NoSlot /\ hand[w] = <<>> /\ at[w] = "new"
      /\ \A q \in Queues : wk.fifo[q] = <<>> /\ ~ wk.pending[q]
  BY <1>1
<1>8. LockInv(wk, at)
  BY <1>2, <1>3, <1>6, <1>7 DEF LockInv, Fifos, SweepsOk, BusyOk
<1>9. Fresh(wk, at) /\ Handlers(wk, at, hand) /\ Looked(wk, at) /\ Swept(wk, hints, row)
  BY <1>2, <1>6, <1>7 DEF Fresh, Handlers, Looked, Swept
<1>10. RowsOk(row, made)
  BY <1>1, <1>4 DEF RowsOk
<1>11. Once(wk, hand, undo, delivered, returned, made) /\ Apart(wk, hand, undo)
  BY <1>1, <1>2, <1>6, <1>7 DEF Once, Apart, AtSweep, AtSlot, AtHand, AtUndo
<1>12. AllIdle /\ AllAnswered
  BY <1>4, <1>7 DEF AllIdle, Idle, AllAnswered, LiesIn
<1> QED
  BY <1>5, <1>8, <1>9, <1>10, <1>11, <1>12 DEF Inv

(* Steps that leave the timers alone.                                          *)
LEMMA IdleNext ==
  ASSUME clock' = clock, \A q \in Queues : Idle(wk', q)
  PROVE  AllIdle'
BY DEF AllIdle, Idle, Eligible, Owed

(* AllAnswered after a step that no timer takes.                              *)
LEMMA AnsweredNext ==
  ASSUME clock' = clock,
         NoSweepFails => \A q \in Queues : q \notin hints' /\ (\E j \in Jobs : LiesIn(row', j, q))
                                             => Answered(wk', q)
  PROVE  AllAnswered'
BY DEF AllAnswered, NoSweepFails, Answered, Sought, Owed, WasOwed, LiesIn

(* AllAnswered, for one queue and one job.                                    *)
LEMMA AllAnsweredFacts ==
  ASSUME Inv, NoSweepFails, NEW q \in Queues, q \notin hints, NEW j \in Jobs, LiesIn(row, j, q)
  PROVE  Answered(wk, q)
BY DEF Inv, AllAnswered

(* What calls leave alone is enough for the rest of the invariant.             *)
LEMMA FrameKeeps ==
  ASSUME NEW k \in WakerStates, NEW m \in WakerStates, Frame(k, m),
         NEW a, NEW h, NEW u, NEW d, NEW b, NEW mk, NEW hs, NEW rw
  PROVE  /\ Once(k, h, u, d, b, mk) => Once(m, h, u, d, b, mk)
         /\ Apart(k, h, u) => Apart(m, h, u)
         /\ Looked(k, a) => Looked(m, a)
         /\ Fresh(k, a) => Fresh(m, a)
         /\ Handlers(k, a, h) => Handlers(m, a, h)
         /\ SweepsOk(k, a) /\ Swept(k, hs, rw) => Swept(m, hs, rw)
<1>1. \A r : AtSweep(m, r) <=> AtSweep(k, r)
  <2>1. ToSet(<<>>) = {}
    BY DEF ToSet
  <2> QED
    BY <2>1 DEF AtSweep, Frame
<1>2. \A r : AtSlot(m, r) <=> AtSlot(k, r)
  BY DEF AtSlot, Frame
<1>3. Once(k, h, u, d, b, mk) => Once(m, h, u, d, b, mk)
  BY <1>1, <1>2 DEF Once
<1>4. Apart(k, h, u) => Apart(m, h, u)
  <2>1. ToSet(<<>>) = {}
    BY DEF ToSet
  <2>2. ASSUME Apart(k, h, u), NEW r, NEW s \in m.sweeps, NEW t \in m.sweeps,
               r \in ToSet(s.jobs), r \in ToSet(t.jobs)
        PROVE  s = t
    <3>1. s \in k.sweeps /\ t \in k.sweeps
      BY <2>1, <2>2 DEF Frame
    <3> QED
      BY <2>2, <3>1 DEF Apart
  <2>3. ASSUME Apart(k, h, u), NEW r, NEW w \in Waiters, NEW v \in Waiters,
               r \in ToSet(m.slot[w].offer), r \in ToSet(m.slot[v].offer)
        PROVE  w = v
    <3>1. r \in ToSet(k.slot[w].offer) /\ r \in ToSet(k.slot[v].offer)
      BY <2>3 DEF Frame
    <3> QED
      BY <2>3, <3>1 DEF Apart
  <2>4. Apart(k, h, u) => \A r : /\ \A w, v \in Waiters : r \in ToSet(h[w]) /\ r \in ToSet(h[v]) => w = v
                                 /\ \A x, y \in u : r \in x.jobs /\ r \in y.jobs => x = y
    BY DEF Apart
  <2> QED
    BY <2>2, <2>3, <2>4 DEF Apart
<1>5. Looked(k, a) => Looked(m, a)
  BY DEF Looked, Frame
<1>6. Fresh(k, a) => Fresh(m, a)
  BY DEF Fresh, Frame
<1>7. Handlers(k, a, h) => Handlers(m, a, h)
  BY DEF Handlers, Frame
<1>8. ASSUME SweepsOk(k, a), Swept(k, hs, rw) PROVE Swept(m, hs, rw)
  <2> SUFFICES ASSUME NEW s \in m.sweeps, s.is = "back", Len(s.jobs) < Clamp * Len(s.batch),
                      ~ m.pending[s.queue], s.queue \notin hs, NEW j \in Jobs
               PROVE  ~ LiesIn(rw, j, s.queue)
    BY DEF Swept
  <2>1. s \in k.sweeps
    BY DEF Frame
  <2>2. k.inFlight[s.queue] /\ s.queue \in Queues
    BY <1>8, <2>1, SweepFields DEF SweepsOk, SweepOk
  <2>3. ~ k.pending[s.queue]
    BY <2>2 DEF Frame
  <2> QED
    BY <1>8, <2>1, <2>3 DEF Swept
<1> QED
  BY <1>3, <1>4, <1>5, <1>6, <1>7, <1>8

(* Calls on the waker's state, and nothing else.                               *)
LEMMA CallsStep ==
  ASSUME Inv, LockInv(wk', at), Frame(wk, wk'),
         clock' = clock, UNCHANGED <<handlerVars, worldVars, tableVars, undo, history>>,
         hints' \subseteq hints,
         \A q \in Queues : Idle(wk', q),
         \A q \in Queues : Answered(wk, q) => Answered(wk', q),
         \A q \in hints \ hints' : Answered(wk', q)
                                   /\ \A s \in wk'.sweeps : s.queue = q /\ s.is = "back" => wk'.pending[q]
  PROVE  Inv'
<1>0. /\ WakerTypeOK /\ LockInv(wk, at) /\ Fresh(wk, at) /\ Handlers(wk, at, hand)
      /\ RowsOk(row, made) /\ Once(wk, hand, undo, delivered, returned, made)
      /\ Apart(wk, hand, undo) /\ Looked(wk, at) /\ Swept(wk, hints, row)
  BY DEF Inv
<1>1. /\ at' = at /\ saw' = saw /\ hand' = hand /\ cancel' = cancel /\ live' = live
      /\ draining' = draining /\ row' = row /\ now' = now /\ undo' = undo /\ made' = made
      /\ delivered' = delivered /\ returned' = returned
  BY DEF handlerVars, worldVars, tableVars, history
<1>2. wk \in WakerStates /\ wk' \in WakerStates /\ SweepsOk(wk, at)
  BY <1>0 DEF LockInv
<1>3. WakerTypeOK'
  BY <1>0, <1>1, <1>2 DEF WakerTypeOK
<1>4. /\ Fresh(wk', at) /\ Handlers(wk', at, hand) /\ Looked(wk', at)
      /\ Once(wk', hand, undo, delivered, returned, made) /\ Apart(wk', hand, undo)
      /\ Swept(wk', hints, row)
  BY <1>0, <1>2, FrameKeeps
<1>5. Swept(wk', hints', row)
  BY <1>4 DEF Swept
<1>6. AllIdle'
  BY IdleNext
<1>7. ASSUME NoSweepFails, NEW q \in Queues, q \notin hints', NEW j \in Jobs, LiesIn(row', j, q)
      PROVE  Answered(wk', q)
  <2>1. CASE q \in hints
    BY <1>7, <2>1
  <2>2. CASE q \notin hints
    BY <1>1, <1>7, <2>2, AllAnsweredFacts
  <2> QED
    BY <2>1, <2>2
<1>8. AllAnswered'
  BY <1>7, AnsweredNext
<1> QED
  BY <1>0, <1>1, <1>3, <1>4, <1>5, <1>6, <1>8 DEF Inv

(* The poll starts sweeps of queues that have none in flight.                 *)
LEMMA StepPollAll ==
  ASSUME Inv, PollAll
  PROVE  Inv'
<1> DEFINE due == {q \in Queues : /\ ~ wk.inFlight[q]
                                  /\ \E w \in ToSet(wk.fifo[q]) : Eligible(wk, w, q)}
<1>1. PICK order \in SetToSeqs(due) : wk' = InTurn(wk, Calls("start", order))
  BY DEF PollAll
<1>2. UNCHANGED <<handlerVars, worldVars, tableVars, undoVars, history>>
  BY DEF PollAll
<1>3. due \subseteq Queues /\ \A q \in due : ~ wk.inFlight[q]
  OBVIOUS
<1> HIDE DEF due
<1> DEFINE n == Cardinality(due)
<1>4. n \in Nat
  BY <1>3, FiniteAssumption, FS_Subset, FS_CardinalityType
<1>5. order \in [1 .. n -> due] /\ \A i, j \in 1 .. n : i # j => order[i] # order[j]
  BY DEF SetToSeqs
<1> HIDE DEF n
<1>6. order \in Seq(due) /\ Len(order) = n
  BY <1>4, <1>5, SeqDef
<1>7. order \in Seq(Queues)
  BY <1>3, <1>6
<1> DEFINE calls == Calls("start", order)
<1>8. calls \in Seq(CallSet)
  BY <1>7, CallsFacts
<1>9. Len(calls) = n /\ \A i \in 1 .. n : calls[i].queue = order[i]
  BY <1>4, <1>6, <1>8 DEF Calls
<1> HIDE DEF calls
<1>10. \A i \in 1 .. Len(calls) :
         calls[i].how = "start" => /\ ~ wk.inFlight[calls[i].queue]
                                   /\ \A j \in 1 .. i - 1 : calls[j].queue # calls[i].queue
  <2> TAKE i \in 1 .. Len(calls)
  <2>1. i \in 1 .. n /\ \A j \in 1 .. i - 1 : j \in 1 .. n /\ j # i
    BY <1>4, <1>9
  <2> QED
    BY <1>3, <1>5, <1>9, <2>1
<1>11. LockInv(wk, at) /\ \A q \in Queues : Idle(wk, q)
  BY DEF Inv, AllIdle
<1>12. /\ LockInv(wk', at) /\ Frame(wk, wk')
       /\ \A q \in Queues : Idle(wk', q)
       /\ \A q \in Queues : Answered(wk, q) => Answered(wk', q)
  BY <1>1, <1>8, <1>10, <1>11, InTurnFacts DEF calls
<1>13. hints' = hints /\ undo' = undo /\ clock' = clock
  BY <1>2 DEF undoVars, worldVars
<1> QED
  BY <1>2, <1>12, <1>13, CallsStep

(* A hint answers its queue.                                                  *)
LEMMA StepHint ==
  ASSUME Inv, NEW q \in Queues, Hint(q)
  PROVE  Inv'
<1>1. /\ hints' = hints \ {q} /\ wk' = Trigger(wk, q)
      /\ UNCHANGED <<handlerVars, worldVars, tableVars, undo, history>>
  BY DEF Hint
<1> DEFINE c == [how |-> "trigger", queue |-> q]
<1>2. c \in CallSet /\ c.how = "trigger" /\ c.queue = q /\ Call(wk, c) = Trigger(wk, q)
  BY DEF CallSet, Call
<1> HIDE DEF c
<1>3. LockInv(wk, at) /\ \A p \in Queues : Idle(wk, p)
  BY DEF Inv, AllIdle
<1>4. /\ LockInv(wk', at) /\ Frame(wk, wk')
      /\ \A p \in Queues : Idle(wk', p)
      /\ \A p \in Queues : Answered(wk, p) => Answered(wk', p)
      /\ Answered(wk', q)
  BY <1>1, <1>2, <1>3, CallFacts
<1>5. ASSUME NEW s \in wk'.sweeps, s.queue = q, s.is = "back" PROVE wk'.pending[q]
  <2>1. s \in wk.sweeps
    BY <1>4, <1>5 DEF Frame
  <2>2. wk.inFlight[q]
    BY <1>3, <1>5, <2>1 DEF LockInv, SweepsOk, SweepOk
  <2>3. wk' = [wk EXCEPT !.pending[q] = TRUE]
    BY <1>1, <2>2 DEF Trigger, Known
  <2>4. wk \in WakerStates
    BY <1>3 DEF LockInv
  <2> QED
    BY <2>3, <2>4 DEF WakerStates
<1>6. clock' = clock
  BY <1>1 DEF worldVars
<1> QED
  BY <1>1, <1>4, <1>5, <1>6, CallsStep

(* A new waiter is at the first queue of its list, which is triggered.        *)
LEMMA StepRegister ==
  ASSUME Inv, NEW w \in Waiters, NEW list \in Lists, Register(w, list)
  PROVE  Inv'
<1> DEFINE fifos == [q \in Queues |-> IF q \in ToSet(list) THEN Append(wk.fifo[q], w)
                                                         ELSE wk.fifo[q]]
           k == [wk EXCEPT !.list[w] = list, !.fifo = fifos]
           q0 == Head(list)
           a == [at EXCEPT ![w] = "loop"]
<1>0. /\ WakerTypeOK /\ LockInv(wk, at) /\ Fresh(wk, at) /\ Handlers(wk, at, hand)
      /\ RowsOk(row, made) /\ Once(wk, hand, undo, delivered, returned, made)
      /\ Apart(wk, hand, undo) /\ Looked(wk, at) /\ Swept(wk, hints, row)
      /\ \A q \in Queues : Idle(wk, q)
      /\ wk \in WakerStates
  BY DEF Inv, AllIdle, LockInv
<1>1. /\ at[w] = "new" /\ wk' = Trigger(k, q0) /\ at' = a
      /\ saw' = saw /\ hand' = hand /\ clock' = clock /\ cancel' = cancel /\ live' = live
      /\ draining' = draining /\ row' = row /\ now' = now /\ hints' = hints /\ undo' = undo
      /\ made' = made /\ delivered' = delivered /\ returned' = returned
  BY DEF Register, worldVars, tableVars, undoVars, history
<1>2. a[w] = "loop" /\ \A v \in Waiters : v # w => a[v] = at[v]
  BY <1>0 DEF WakerTypeOK
<1>3. /\ list \in Seq(Queues) /\ Len(list) \in Nat /\ Len(list) >= 1 /\ q0 = list[1]
      /\ q0 \in Queues /\ \A q \in ToSet(list) : q \in Queues
  <2>1. PICK n \in 1 .. ListLen : list \in [1 .. n -> Queues]
    BY DEF Lists
  <2>2. n \in Nat /\ n >= 1
    BY BoundsAssumption
  <2>3. list \in Seq(Queues) /\ Len(list) = n
    BY <2>1, <2>2, SeqDef
  <2>4. list # <<>>
    BY <2>2, <2>3
  <2>5. Head(list) = list[1] /\ list[1] \in Queues
    BY <2>2, <2>3, <2>4
  <2> QED
    BY <2>2, <2>3, <2>5, SeqSet
<1>4. /\ \A q \in Queues : wk.fifo[q] \in Seq(Waiters)
      /\ \A q \in Queues : \A v \in ToSet(wk.fifo[q]) : v \in Waiters /\ v # w
  <2>1. \A q \in Queues : \A v \in ToSet(wk.fifo[q]) : v \in Waiters /\ at[v] # "new"
    BY <1>0, StateFields DEF LockInv, Fifos
  <2> QED
    BY <1>0, <1>1, <2>1, StateFields
<1>5. \A q \in Queues :
        /\ fifos[q] \in Seq(Waiters) /\ IsInjective(fifos[q])
        /\ \A v \in ToSet(fifos[q]) : v \in ToSet(wk.fifo[q]) \/ (v = w /\ q \in ToSet(list))
  <2> TAKE q \in Queues
  <2>1. IsInjective(wk.fifo[q]) /\ wk.fifo[q] \in Seq(Waiters) /\ w \notin ToSet(wk.fifo[q])
    BY <1>0, <1>4 DEF LockInv, Fifos
  <2>2. CASE q \in ToSet(list)
    <3>1. fifos[q] = Append(wk.fifo[q], w)
      BY <2>2
    <3>2. /\ Append(wk.fifo[q], w) \in Seq(Waiters) /\ IsInjective(Append(wk.fifo[q], w))
          /\ ToSet(Append(wk.fifo[q], w)) = ToSet(wk.fifo[q]) \cup {w}
      BY <2>1, AppendSet
    <3> HIDE DEF fifos
    <3> QED
      BY <2>2, <3>1, <3>2
  <2>3. CASE q \notin ToSet(list)
    <3>1. fifos[q] = wk.fifo[q]
      BY <2>3
    <3> HIDE DEF fifos
    <3> QED
      BY <2>1, <3>1
  <2> QED
    BY <2>2, <2>3
<1>6. fifos \in [Queues -> Seq(Waiters)]
  BY <1>5
<1> HIDE DEF fifos, q0, a
<1>7. /\ k \in WakerStates /\ k.fifo = fifos /\ k.slot = wk.slot /\ k.sweeps = wk.sweeps
      /\ k.inFlight = wk.inFlight /\ k.pending = wk.pending /\ k.bell = wk.bell
      /\ k.list = [wk.list EXCEPT ![w] = list]
  BY <1>0, <1>6 DEF WakerStates
<1>8. k.list[w] = list /\ \A v \in Waiters : v # w => k.list[v] = wk.list[v]
  BY <1>0, <1>7, StateFields
<1> HIDE DEF k
<1>9. Fifos(k, a)
  <2> SUFFICES ASSUME NEW q \in Queues, NEW v \in ToSet(fifos[q])
               PROVE  a[v] \in {"loop", "asleep", "leave"} /\ q \in ToSet(k.list[v])
    BY <1>5, <1>7 DEF Fifos
  <2>1. CASE v = w
    BY <1>2, <1>4, <1>5, <1>8, <2>1
  <2>2. CASE v # w
    <3>1. v \in ToSet(wk.fifo[q]) /\ v \in Waiters
      BY <1>4, <1>5, <2>2
    <3> QED
      BY <1>0, <1>2, <1>8, <2>2, <3>1 DEF LockInv, Fifos
  <2> QED
    BY <2>1, <2>2
<1>10. SweepsOk(k, a)
  <2>1. \A s \in wk.sweeps : SweepOk(wk, at, s) /\ \A v \in ToSet(s.batch) : v \in Waiters
    BY <1>0, SweepFields DEF LockInv, SweepsOk
  <2>2. \A s \in wk.sweeps : SweepOk(k, a, s)
    BY <1>1, <1>2, <1>7, <1>8, <2>1 DEF SweepOk
  <2>3. \A s, t \in wk.sweeps : s.queue = t.queue => s = t
    BY <1>0 DEF LockInv, SweepsOk
  <2> QED
    BY <1>7, <2>2, <2>3 DEF SweepsOk
<1>11. LockInv(k, a)
  BY <1>0, <1>7, <1>9, <1>10 DEF LockInv, BusyOk
<1>12. \A v \in Waiters, q \in Queues :
         v # w => /\ Owed(k, v, q) <=> Owed(wk, v, q)
                  /\ WasOwed(k, v, q) <=> WasOwed(wk, v, q)
  BY <1>7, <1>8 DEF Owed, WasOwed
<1>13. \A q \in Queues : Owed(k, w, q) => q = q0
  BY <1>0, <1>1, <1>3, <1>7, <1>8 DEF Owed, Fresh
<1>14. ASSUME NEW q \in Queues, q # q0 PROVE Idle(k, q) /\ (Answered(wk, q) => Answered(k, q))
  <2>1. \A v \in ToSet(k.fifo[q]) : Owed(k, v, q) => v \in ToSet(wk.fifo[q]) /\ v # w
    BY <1>4, <1>5, <1>7, <1>13, <1>14
  <2>2. \A v \in ToSet(k.fifo[q]) : Eligible(k, v, q) => v \in ToSet(wk.fifo[q]) /\ Eligible(wk, v, q)
    BY <1>4, <1>7, <1>12, <2>1 DEF Eligible
  <2>3. Idle(k, q)
    BY <1>0, <1>7, <2>2 DEF Idle
  <2>4. Sought(k, q) => Sought(wk, q)
    BY <1>4, <1>12, <2>1 DEF Sought
  <2> QED
    BY <1>7, <2>3, <2>4 DEF Answered
<1> DEFINE c == [how |-> "trigger", queue |-> q0]
<1>15. c \in CallSet /\ c.how = "trigger" /\ c.queue = q0 /\ Call(k, c) = Trigger(k, q0)
  BY <1>3 DEF CallSet, Call
<1> HIDE DEF c
<1>16. /\ LockInv(wk', a) /\ Frame(k, wk')
       /\ \A p \in Queues : Idle(k, p) \/ p = q0 => Idle(wk', p)
       /\ \A p \in Queues : Answered(k, p) \/ p = q0 => Answered(wk', p)
  BY <1>1, <1>11, <1>15, CallFacts
<1>17. wk' \in WakerStates
  BY <1>16 DEF LockInv
<1>18. WakerTypeOK'
  <2>1. a \in [Waiters -> {"new", "loop", "asleep", "leave", "handoff", "over"}]
    BY <1>0 DEF a, WakerTypeOK
  <2> QED
    BY <1>0, <1>1, <1>17, <2>1 DEF WakerTypeOK
<1>19. Once(k, hand, undo, delivered, returned, made) /\ Apart(k, hand, undo)
  BY <1>0, <1>7 DEF Once, Apart, AtSweep, AtSlot
<1>20. Looked(k, a) /\ Fresh(k, a)
  BY <1>0, <1>2, <1>7 DEF Looked, Fresh
<1>21. Handlers(k, a, hand)
  BY <1>0, <1>1, <1>2, <1>7 DEF Handlers
<1>22. Swept(k, hints, row)
  BY <1>0, <1>7 DEF Swept
<1>23. /\ Once(wk', hand, undo, delivered, returned, made) /\ Apart(wk', hand, undo)
       /\ Looked(wk', a) /\ Fresh(wk', a) /\ Handlers(wk', a, hand) /\ Swept(wk', hints, row)
  BY <1>7, <1>10, <1>16, <1>17, <1>19, <1>20, <1>21, <1>22, FrameKeeps
<1>24. AllIdle'
  BY <1>1, <1>14, <1>16, IdleNext
<1>25. ASSUME NoSweepFails, NEW q \in Queues, q \notin hints', NEW j \in Jobs, LiesIn(row', j, q)
       PROVE  Answered(wk', q)
  <2>1. Answered(wk, q)
    BY <1>1, <1>25, AllAnsweredFacts
  <2> QED
    BY <1>14, <1>16, <2>1
<1>26. AllAnswered'
  BY <1>1, <1>25, AnsweredNext
<1> QED
  BY <1>0, <1>1, <1>16, <1>18, <1>23, <1>24, <1>26 DEF Inv

(* Steps of the handlers: slots are finished, never reopened.                  *)
LEMMA SlotOnly ==
  ASSUME NEW k \in WakerStates, NEW m \in WakerStates, NEW a, NEW b,
         m.list = k.list, m.fifo = k.fifo, m.inFlight = k.inFlight, m.pending = k.pending,
         m.sweeps = k.sweeps,
         \A v \in Waiters : /\ m.slot[v].arrival = k.slot[v].arrival
                            /\ m.slot[v].busy = k.slot[v].busy
                            /\ m.slot[v].ended = "no" => k.slot[v].ended = "no",
         \A v \in Waiters : /\ a[v] = "new" <=> b[v] = "new"
                            /\ a[v] \in {"loop", "asleep", "leave"}
                                 => b[v] \in {"loop", "asleep", "leave"}
  PROVE  /\ LockInv(k, a) => LockInv(m, b)
         /\ \A q \in Queues : Idle(k, q) => Idle(m, q)
         /\ \A q \in Queues : Answered(k, q) => Answered(m, q)
         /\ Fresh(k, a) => Fresh(m, b)
         /\ \A hs, rw : Swept(k, hs, rw) => Swept(m, hs, rw)
<1>1. ASSUME LockInv(k, a) PROVE LockInv(m, b)
  <2>1. Fifos(m, b)
    BY <1>1, StateFields DEF LockInv, Fifos
  <2>2. \A s \in k.sweeps : SweepOk(m, b, s)
    BY <1>1, SweepFields DEF LockInv, SweepsOk, SweepOk
  <2>3. SweepsOk(m, b)
    BY <1>1, <2>2 DEF LockInv, SweepsOk
  <2> QED
    BY <1>1, <2>1, <2>3 DEF LockInv, BusyOk
<1>2. \A v \in Waiters, q \in Queues : /\ Owed(m, v, q) => Owed(k, v, q)
                                       /\ WasOwed(m, v, q) => WasOwed(k, v, q)
                                       /\ Eligible(m, v, q) => Eligible(k, v, q)
  BY DEF Owed, WasOwed, Eligible
<1>3. \A q \in Queues : \A v \in ToSet(k.fifo[q]) : v \in Waiters
  BY StateFields
<1>4. \A q \in Queues : Idle(k, q) => Idle(m, q)
  BY <1>2, <1>3 DEF Idle
<1>5. \A q \in Queues : Answered(k, q) => Answered(m, q)
  BY <1>2, <1>3 DEF Answered, Sought
<1>6. Fresh(k, a) => Fresh(m, b)
  BY DEF Fresh
<1>7. \A hs, rw : Swept(k, hs, rw) => Swept(m, hs, rw)
  BY DEF Swept
<1> QED
  BY <1>1, <1>4, <1>5, <1>6, <1>7

(* The same as a step.                                                         *)
LEMMA SlotStep ==
  ASSUME Inv, wk' \in WakerStates,
         wk'.list = wk.list, wk'.fifo = wk.fifo, wk'.inFlight = wk.inFlight,
         wk'.pending = wk.pending, wk'.sweeps = wk.sweeps,
         \A v \in Waiters : /\ wk'.slot[v].arrival = wk.slot[v].arrival
                            /\ wk'.slot[v].busy = wk.slot[v].busy
                            /\ wk'.slot[v].ended = "no" => wk.slot[v].ended = "no",
         \A v \in Waiters : /\ at[v] = "new" <=> at'[v] = "new"
                            /\ at[v] \in {"loop", "asleep", "leave"}
                                 => at'[v] \in {"loop", "asleep", "leave"},
         clock' = clock, row' = row, hints' = hints
  PROVE  /\ LockInv(wk', at') /\ Fresh(wk', at') /\ Swept(wk', hints', row')
         /\ AllIdle' /\ AllAnswered'
<1>1. /\ LockInv(wk, at) /\ Fresh(wk, at) /\ Swept(wk, hints, row)
      /\ wk \in WakerStates /\ \A q \in Queues : Idle(wk, q)
  BY DEF Inv, AllIdle, LockInv
<1>2. /\ LockInv(wk', at') /\ Fresh(wk', at') /\ Swept(wk', hints, row)
      /\ \A q \in Queues : Idle(wk', q)
      /\ \A q \in Queues : Answered(wk, q) => Answered(wk', q)
  BY <1>1, SlotOnly
<1>3. AllIdle'
  BY <1>2, IdleNext
<1>4. ASSUME NoSweepFails, NEW q \in Queues, q \notin hints', NEW j \in Jobs, LiesIn(row', j, q)
      PROVE  Answered(wk', q)
  BY <1>2, <1>4, AllAnsweredFacts
<1>5. AllAnswered'
  BY <1>4, AnsweredNext
<1> QED
  BY <1>2, <1>3, <1>5

(* The offer goes from the slot to the hand.                                   *)
LEMMA StepTake ==
  ASSUME Inv, NEW w \in Waiters, Turn(w), wk.slot[w].ended = "Offered"
  PROVE  Inv'
<1> DEFINE x == wk.slot[w].offer
           slots == [wk.slot EXCEPT ![w].offer = <<>>]
<1>0. /\ WakerTypeOK /\ LockInv(wk, at) /\ Handlers(wk, at, hand)
      /\ RowsOk(row, made) /\ Once(wk, hand, undo, delivered, returned, made)
      /\ Apart(wk, hand, undo) /\ Looked(wk, at) /\ wk \in WakerStates
  BY DEF Inv, LockInv
<1>1. /\ at[w] = "loop" /\ hand' = [hand EXCEPT ![w] = x]
      /\ wk' = [wk EXCEPT !.slot = slots]
      /\ at' = [at EXCEPT ![w] = "leave"]
      /\ saw' = saw /\ clock' = clock /\ cancel' = cancel /\ live' = live
      /\ draining' = draining /\ row' = row /\ now' = now /\ hints' = hints /\ undo' = undo
      /\ made' = made /\ delivered' = delivered /\ returned' = returned
  BY DEF Turn, worldVars, tableVars, undoVars, history
<1>2. x \in Seq(Reservations) /\ wk.slot[w] \in SlotStates
  BY <1>0, SlotFields
<1>3. /\ slots \in [Waiters -> SlotStates]
      /\ slots[w].offer = <<>> /\ slots[w].ended = "Offered"
      /\ slots[w].arrival = wk.slot[w].arrival /\ slots[w].busy = wk.slot[w].busy
      /\ \A v \in Waiters : v # w => slots[v] = wk.slot[v]
  <2>1. wk.slot \in [Waiters -> SlotStates]
    BY <1>0, StateFields
  <2> DEFINE one == [wk.slot[w] EXCEPT !.offer = <<>>]
  <2>2. /\ one \in SlotStates /\ one.offer = <<>> /\ one.ended = "Offered"
        /\ one.arrival = wk.slot[w].arrival /\ one.busy = wk.slot[w].busy
    <3>1. wk.slot[w] \in SlotStates /\ <<>> \in Seq(Reservations)
      BY <1>2
    <3> QED
      BY <3>1 DEF SlotStates
  <2>3. slots = [wk.slot EXCEPT ![w] = one]
    BY <2>1
  <2> HIDE DEF one, slots
  <2> QED
    BY <2>1, <2>2, <2>3
<1> HIDE DEF slots, x
<1>4. /\ wk' \in WakerStates /\ wk'.list = wk.list /\ wk'.fifo = wk.fifo
      /\ wk'.inFlight = wk.inFlight /\ wk'.pending = wk.pending /\ wk'.sweeps = wk.sweeps
      /\ wk'.slot = slots
  BY <1>0, <1>1, <1>3 DEF WakerStates
<1>5. /\ at'[w] = "leave" /\ hand'[w] = x
      /\ \A v \in Waiters : v # w => at'[v] = at[v] /\ hand'[v] = hand[v]
  BY <1>0, <1>1 DEF WakerTypeOK
<1>6. WakerTypeOK'
  <2>1. /\ at' \in [Waiters -> {"new", "loop", "asleep", "leave", "handoff", "over"}]
        /\ hand' \in [Waiters -> Seq(Reservations)]
    BY <1>0, <1>1, <1>2 DEF WakerTypeOK
  <2> QED
    BY <1>0, <1>1, <1>4, <2>1 DEF WakerTypeOK
<1>7. /\ LockInv(wk', at') /\ Fresh(wk', at') /\ Swept(wk', hints', row')
      /\ AllIdle' /\ AllAnswered'
  <2>1. \A v \in Waiters : /\ wk'.slot[v].arrival = wk.slot[v].arrival
                           /\ wk'.slot[v].busy = wk.slot[v].busy
                           /\ wk'.slot[v].ended = "no" => wk.slot[v].ended = "no"
    BY <1>3, <1>4
  <2>2. \A v \in Waiters : /\ at[v] = "new" <=> at'[v] = "new"
                           /\ at[v] \in {"loop", "asleep", "leave"}
                                => at'[v] \in {"loop", "asleep", "leave"}
    BY <1>1, <1>5
  <2> QED
    BY <1>1, <1>4, <2>1, <2>2, SlotStep
<1>8. hand[w] = <<>>
  BY <1>0, <1>1 DEF Handlers
<1>9. ToSet(<<>>) = {}
  BY DEF ToSet
<1>10. Handlers(wk', at', hand')
  BY <1>0, <1>3, <1>4, <1>5 DEF Handlers
<1>11. Looked(wk', at')
  BY <1>0, <1>3, <1>4, <1>5, <1>9 DEF Looked
<1>12. \A r : /\ AtSweep(wk', r) <=> AtSweep(wk, r)
              /\ AtSlot(wk', r) <=> AtSlot(wk, r) /\ r \notin ToSet(x)
              /\ r \in ToSet(x) => AtSlot(wk, r)
              /\ AtHand(hand', r) <=> AtHand(hand, r) \/ r \in ToSet(x)
  <2>1. \A r : AtSweep(wk', r) <=> AtSweep(wk, r)
    BY <1>4 DEF AtSweep
  <2>2. \A r : r \in ToSet(x) => AtSlot(wk, r)
    BY DEF AtSlot, x
  <2>4. \A r, v : v \in Waiters /\ r \in ToSet(wk.slot[v].offer) /\ r \in ToSet(x) => v = w
    BY <1>0 DEF Apart, x
  <2>5. \A r : AtSlot(wk', r) <=> AtSlot(wk, r) /\ r \notin ToSet(x)
    <3> TAKE r
    <3>1. ASSUME AtSlot(wk', r) PROVE AtSlot(wk, r) /\ r \notin ToSet(x)
      <4>1. PICK v \in Waiters : r \in ToSet(slots[v].offer)
        BY <1>4, <3>1 DEF AtSlot
      <4>2. v # w /\ r \in ToSet(wk.slot[v].offer)
        BY <1>3, <1>9, <4>1
      <4> QED
        BY <2>4, <4>2 DEF AtSlot
    <3>2. ASSUME AtSlot(wk, r), r \notin ToSet(x) PROVE AtSlot(wk', r)
      <4>1. PICK v \in Waiters : r \in ToSet(wk.slot[v].offer)
        BY <3>2 DEF AtSlot
      <4>2. v # w
        BY <3>2, <4>1 DEF x
      <4> QED
        BY <1>3, <1>4, <4>1, <4>2 DEF AtSlot
    <3> QED
      BY <3>1, <3>2
  <2>6. \A r : AtHand(hand', r) <=> AtHand(hand, r) \/ r \in ToSet(x)
    BY <1>5, <1>8, <1>9 DEF AtHand
  <2> QED
    BY <2>1, <2>2, <2>5, <2>6
<1>13. Once(wk', hand', undo', delivered', returned', made')
  BY <1>0, <1>1, <1>12 DEF Once
<1>14. Apart(wk', hand', undo')
  <2>1. ASSUME NEW r, NEW v \in Waiters, NEW y \in Waiters,
               r \in ToSet(wk'.slot[v].offer), r \in ToSet(wk'.slot[y].offer)
        PROVE  v = y
    <3>1. r \in ToSet(wk.slot[v].offer) /\ r \in ToSet(wk.slot[y].offer)
      BY <1>3, <1>4, <1>9, <2>1
    <3> QED
      BY <1>0, <3>1 DEF Apart
  <2>2. ASSUME NEW r, NEW v \in Waiters, NEW y \in Waiters,
               r \in ToSet(hand'[v]), r \in ToSet(hand'[y])
        PROVE  v = y
    <3>1. CASE v # w /\ y # w
      BY <1>0, <1>5, <2>2, <3>1 DEF Apart
    <3>2. CASE v = w /\ y # w
      <4>1. r \in ToSet(x) /\ AtHand(hand, r)
        BY <1>5, <2>2, <3>2 DEF AtHand
      <4> QED
        BY <1>0, <1>12, <4>1 DEF Once
    <3>3. CASE v # w /\ y = w
      <4>1. r \in ToSet(x) /\ AtHand(hand, r)
        BY <1>5, <2>2, <3>3 DEF AtHand
      <4> QED
        BY <1>0, <1>12, <4>1 DEF Once
    <3> QED
      BY <3>1, <3>2, <3>3
  <2> QED
    BY <1>0, <1>1, <1>4, <2>1, <2>2 DEF Apart
<1> QED
  BY <1>0, <1>1, <1>6, <1>7, <1>10, <1>11, <1>13, <1>14 DEF Inv

(* The slot is finished, or the handler goes to sleep.                         *)
LEMMA StepVerdict ==
  ASSUME Inv, NEW w \in Waiters, Turn(w), wk.slot[w].ended # "Offered"
  PROVE  Inv'
<1> DEFINE e == Verdict(w)
           slots == [wk.slot EXCEPT ![w].ended = e]
           b == IF e = "no" THEN "asleep" ELSE "leave"
<1>0. /\ WakerTypeOK /\ LockInv(wk, at) /\ Handlers(wk, at, hand)
      /\ RowsOk(row, made) /\ Once(wk, hand, undo, delivered, returned, made)
      /\ Apart(wk, hand, undo) /\ Looked(wk, at) /\ wk \in WakerStates
  BY DEF Inv, LockInv
<1>1. /\ at[w] = "loop" /\ hand' = hand
      /\ wk' = [wk EXCEPT !.slot = slots]
      /\ at' = [at EXCEPT ![w] = b]
      /\ saw' = [saw EXCEPT ![w] = wk.slot[w].busy /\ e = "no"]
      /\ clock' = clock /\ cancel' = cancel /\ live' = live
      /\ draining' = draining /\ row' = row /\ now' = now /\ hints' = hints /\ undo' = undo
      /\ made' = made /\ delivered' = delivered /\ returned' = returned
  BY DEF Turn, worldVars, tableVars, undoVars, history
<1>2. e \in {"no", "Deadline", "Cancelled", "Teardown", "Drained"}
  BY DEF Verdict
<1>3. wk.slot[w].ended = "no" /\ wk.slot[w].offer = <<>> /\ hand[w] = <<>>
  BY <1>0, <1>1 DEF Handlers
<1> HIDE DEF e
<1>4. /\ slots \in [Waiters -> SlotStates]
      /\ slots[w].offer = <<>> /\ slots[w].ended = e
      /\ slots[w].arrival = wk.slot[w].arrival /\ slots[w].busy = wk.slot[w].busy
      /\ \A v \in Waiters : v # w => slots[v] = wk.slot[v]
  <2>1. wk.slot \in [Waiters -> SlotStates]
    BY <1>0, StateFields
  <2> DEFINE one == [wk.slot[w] EXCEPT !.ended = e]
  <2>2. /\ one \in SlotStates /\ one.offer = <<>> /\ one.ended = e
        /\ one.arrival = wk.slot[w].arrival /\ one.busy = wk.slot[w].busy
    <3>1. wk.slot[w] \in SlotStates
      BY <2>1
    <3> QED
      BY <1>2, <1>3, <3>1 DEF SlotStates
  <2>3. slots = [wk.slot EXCEPT ![w] = one]
    BY <2>1
  <2> HIDE DEF one, slots
  <2> QED
    BY <2>1, <2>2, <2>3
<1> HIDE DEF slots
<1>5. /\ wk' \in WakerStates /\ wk'.list = wk.list /\ wk'.fifo = wk.fifo
      /\ wk'.inFlight = wk.inFlight /\ wk'.pending = wk.pending /\ wk'.sweeps = wk.sweeps
      /\ wk'.slot = slots
  BY <1>0, <1>1, <1>4 DEF WakerStates
<1>6. b \in {"asleep", "leave"} /\ (b = "asleep" <=> e = "no")
  OBVIOUS
<1> HIDE DEF b
<1>7. at'[w] = b /\ \A v \in Waiters : v # w => at'[v] = at[v]
  BY <1>0, <1>1 DEF WakerTypeOK
<1>8. WakerTypeOK'
  <2>1. at' \in [Waiters -> {"new", "loop", "asleep", "leave", "handoff", "over"}]
    BY <1>0, <1>1, <1>6 DEF WakerTypeOK
  <2>2. saw' \in [Waiters -> BOOLEAN]
    <3> DEFINE x == wk.slot[w].busy /\ e = "no"
    <3>1. x \in BOOLEAN /\ saw' = [saw EXCEPT ![w] = x]
      BY <1>1
    <3> HIDE DEF x
    <3> QED
      BY <1>0, <3>1 DEF WakerTypeOK
  <2> QED
    BY <1>0, <1>1, <1>5, <2>1, <2>2 DEF WakerTypeOK
<1>9. /\ LockInv(wk', at') /\ Fresh(wk', at') /\ Swept(wk', hints', row')
      /\ AllIdle' /\ AllAnswered'
  <2>1. \A v \in Waiters : /\ wk'.slot[v].arrival = wk.slot[v].arrival
                           /\ wk'.slot[v].busy = wk.slot[v].busy
                           /\ wk'.slot[v].ended = "no" => wk.slot[v].ended = "no"
    BY <1>3, <1>4, <1>5
  <2>2. \A v \in Waiters : /\ at[v] = "new" <=> at'[v] = "new"
                           /\ at[v] \in {"loop", "asleep", "leave"}
                                => at'[v] \in {"loop", "asleep", "leave"}
    BY <1>1, <1>6, <1>7
  <2> QED
    BY <1>1, <1>5, <2>1, <2>2, SlotStep
<1>10. ToSet(<<>>) = {}
  BY DEF ToSet
<1>11. \A v \in Waiters : wk'.slot[v].offer = wk.slot[v].offer
  BY <1>3, <1>4, <1>5
<1>12. Handlers(wk', at', hand')
  <2> SUFFICES ASSUME NEW v \in Waiters
               PROVE  /\ wk'.slot[v].ended = "no" => wk'.slot[v].offer = <<>>
                      /\ at'[v] \in {"new", "loop", "asleep"}
                           => wk'.slot[v].ended \in {"no", "Offered"}
                      /\ at'[v] \in {"leave", "handoff", "over"}
                           => wk'.slot[v].ended # "no" /\ wk'.slot[v].offer = <<>>
                      /\ hand'[v] # <<>> => at'[v] \in {"leave", "handoff"}
    BY DEF Handlers
  <2>1. CASE v = w
    BY <1>1, <1>3, <1>4, <1>5, <1>6, <1>7, <2>1
  <2>2. CASE v # w
    BY <1>0, <1>1, <1>4, <1>5, <1>7, <2>2 DEF Handlers
  <2> QED
    BY <2>1, <2>2
<1>13. Looked(wk', at')
  BY <1>0, <1>3, <1>7, <1>10, <1>11 DEF Looked
<1>14. Once(wk', hand', undo', delivered', returned', made') /\ Apart(wk', hand', undo')
  BY <1>0, <1>1, <1>5, <1>11 DEF Once, Apart, AtSweep, AtSlot
<1> QED
  BY <1>0, <1>1, <1>8, <1>9, <1>12, <1>13, <1>14 DEF Inv

(* A handler that wakes changes its own place only.                           *)
LEMMA StepWake ==
  ASSUME Inv, NEW w \in Waiters, Wake(w)
  PROVE  Inv'
<1>0. /\ WakerTypeOK /\ LockInv(wk, at) /\ Handlers(wk, at, hand)
      /\ RowsOk(row, made) /\ Once(wk, hand, undo, delivered, returned, made)
      /\ Apart(wk, hand, undo) /\ Looked(wk, at) /\ wk \in WakerStates
  BY DEF Inv, LockInv
<1>1. /\ at[w] = "asleep" /\ hand' = hand
      /\ wk' = [wk EXCEPT !.bell[w] = FALSE] \/ wk' = wk
      /\ at' = [at EXCEPT ![w] = "loop"] /\ saw' = [saw EXCEPT ![w] = FALSE]
      /\ clock' = clock /\ cancel' = cancel /\ live' = live
      /\ draining' = draining /\ row' = row /\ now' = now /\ hints' = hints /\ undo' = undo
      /\ made' = made /\ delivered' = delivered /\ returned' = returned
  BY DEF Wake, worldVars, tableVars, undoVars, history
<1>2. /\ wk' \in WakerStates /\ wk'.list = wk.list /\ wk'.fifo = wk.fifo
      /\ wk'.inFlight = wk.inFlight /\ wk'.pending = wk.pending /\ wk'.sweeps = wk.sweeps
      /\ wk'.slot = wk.slot
  <2>1. CASE wk' = [wk EXCEPT !.bell[w] = FALSE]
    BY <1>0, <2>1 DEF WakerStates
  <2>2. CASE wk' = wk
    BY <1>0, <2>2
  <2> QED
    BY <1>1, <2>1, <2>2
<1>3. at'[w] = "loop" /\ \A v \in Waiters : v # w => at'[v] = at[v]
  BY <1>0, <1>1 DEF WakerTypeOK
<1>4. WakerTypeOK'
  <2>1. /\ at' \in [Waiters -> {"new", "loop", "asleep", "leave", "handoff", "over"}]
        /\ saw' \in [Waiters -> BOOLEAN]
    BY <1>0, <1>1 DEF WakerTypeOK
  <2> QED
    BY <1>0, <1>1, <1>2, <2>1 DEF WakerTypeOK
<1>5. \A v \in Waiters : /\ at[v] = "new" <=> at'[v] = "new"
                         /\ at[v] \in {"loop", "asleep", "leave"}
                              => at'[v] \in {"loop", "asleep", "leave"}
  BY <1>1, <1>3
<1>6. /\ LockInv(wk', at') /\ Fresh(wk', at') /\ Swept(wk', hints', row')
      /\ AllIdle' /\ AllAnswered'
  BY <1>1, <1>2, <1>5, SlotStep
<1>7. Handlers(wk', at', hand')
  BY <1>0, <1>1, <1>2, <1>3 DEF Handlers
<1>8. Looked(wk', at')
  BY <1>0, <1>2, <1>3 DEF Looked
<1>9. Once(wk', hand', undo', delivered', returned', made') /\ Apart(wk', hand', undo')
  BY <1>0, <1>1, <1>2 DEF Once, Apart, AtSweep, AtSlot
<1> QED
  BY <1>0, <1>1, <1>4, <1>6, <1>7, <1>8, <1>9 DEF Inv

(* A waiter that leaves takes no jobs with it but those in its hand.          *)
LEMMA StepDeregister ==
  ASSUME Inv, NEW w \in Waiters, Deregister(w)
  PROVE  Inv'
<1> DEFINE fifos == [q \in Queues |-> Only(wk.fifo[q], Waiters \ {w})]
           k == [wk EXCEPT !.fifo = fifos]
           b == IF hand[w] = <<>> THEN "over" ELSE "handoff"
<1>0. /\ WakerTypeOK /\ LockInv(wk, at) /\ Fresh(wk, at) /\ Handlers(wk, at, hand)
      /\ RowsOk(row, made) /\ Once(wk, hand, undo, delivered, returned, made)
      /\ Apart(wk, hand, undo) /\ Looked(wk, at) /\ Swept(wk, hints, row)
      /\ wk \in WakerStates /\ \A q \in Queues : Idle(wk, q)
  BY DEF Inv, LockInv, AllIdle
<1>1. /\ at[w] = "leave" /\ hand' = hand /\ wk' = Forgotten(k)
      /\ at' = [at EXCEPT ![w] = b] /\ saw' = saw
      /\ clock' = clock /\ cancel' = cancel /\ live' = live
      /\ draining' = draining /\ row' = row /\ now' = now /\ hints' = hints /\ undo' = undo
      /\ made' = made /\ delivered' = delivered /\ returned' = returned
  BY DEF Deregister, worldVars, tableVars, undoVars, history
<1>2. b \in {"over", "handoff"} /\ (hand[w] # <<>> => b = "handoff")
  OBVIOUS
<1> HIDE DEF b
<1>3. at'[w] = b /\ \A v \in Waiters : v # w => at'[v] = at[v]
  BY <1>0, <1>1 DEF WakerTypeOK
<1>4. \A q \in Queues : /\ fifos[q] \in Seq(Waiters) /\ IsInjective(fifos[q])
                        /\ \A v \in ToSet(fifos[q]) : v \in ToSet(wk.fifo[q]) /\ v \in Waiters /\ v # w
  <2> TAKE q \in Queues
  <2>1. wk.fifo[q] \in Seq(Waiters) /\ IsInjective(wk.fifo[q])
    BY <1>0, StateFields DEF LockInv, Fifos
  <2>2. /\ Only(wk.fifo[q], Waiters \ {w}) \in Seq(Waiters)
        /\ ToSet(Only(wk.fifo[q], Waiters \ {w})) = ToSet(wk.fifo[q]) \cap (Waiters \ {w})
        /\ IsInjective(Only(wk.fifo[q], Waiters \ {w}))
    BY <2>1, OnlyFacts
  <2>3. fifos[q] = Only(wk.fifo[q], Waiters \ {w})
    OBVIOUS
  <2> HIDE DEF fifos
  <2> QED
    BY <2>2, <2>3
<1>5. fifos \in [Queues -> Seq(Waiters)]
  BY <1>4
<1> HIDE DEF fifos
<1>6. /\ k \in WakerStates /\ k.list = wk.list /\ k.fifo = fifos /\ k.slot = wk.slot
      /\ k.inFlight = wk.inFlight /\ k.pending = wk.pending /\ k.sweeps = wk.sweeps
  BY <1>0, <1>5 DEF WakerStates
<1> HIDE DEF k
<1>7. LockInv(k, at')
  <2>1. Fifos(k, at')
    BY <1>0, <1>3, <1>4, <1>6 DEF LockInv, Fifos
  <2>2. \A s \in wk.sweeps : SweepOk(wk, at, s) /\ \A v \in ToSet(s.batch) : v \in Waiters
    BY <1>0, SweepFields DEF LockInv, SweepsOk
  <2>3. \A s \in wk.sweeps : SweepOk(k, at', s)
    BY <1>1, <1>2, <1>3, <1>6, <2>2 DEF SweepOk
  <2>4. SweepsOk(k, at')
    BY <1>0, <1>6, <2>3 DEF LockInv, SweepsOk
  <2> QED
    BY <1>0, <1>6, <2>1, <2>4 DEF LockInv, BusyOk
<1>8. \A v, q : /\ Owed(k, v, q) => Owed(wk, v, q)
                /\ WasOwed(k, v, q) => WasOwed(wk, v, q)
                /\ Eligible(k, v, q) => Eligible(wk, v, q)
  BY <1>6 DEF Owed, WasOwed, Eligible
<1>9. \A q \in Queues : Idle(k, q)
  BY <1>0, <1>4, <1>6, <1>8 DEF Idle
<1>10. \A q \in Queues : Answered(wk, q) => Answered(k, q)
  BY <1>4, <1>6, <1>8 DEF Answered, Sought
<1>11. /\ LockInv(wk', at')
       /\ wk'.list = k.list /\ wk'.slot = k.slot /\ wk'.fifo = k.fifo
       /\ wk'.inFlight = k.inFlight /\ wk'.sweeps = k.sweeps
       /\ \A q \in Queues : k.inFlight[q] => wk'.pending[q] = k.pending[q]
       /\ \A q \in Queues : Idle(k, q) => Idle(wk', q)
       /\ \A q \in Queues : Answered(k, q) => Answered(wk', q)
  BY <1>1, <1>7, ForgottenFacts
<1>12. WakerTypeOK'
  <2>1. at' \in [Waiters -> {"new", "loop", "asleep", "leave", "handoff", "over"}]
    BY <1>0, <1>1, <1>2 DEF WakerTypeOK
  <2>2. wk' \in WakerStates
    BY <1>11 DEF LockInv
  <2> QED
    BY <1>0, <1>1, <2>1, <2>2 DEF WakerTypeOK
<1>13. Fresh(wk', at')
  BY <1>0, <1>2, <1>3, <1>6, <1>11 DEF Fresh
<1>14. Handlers(wk', at', hand')
  BY <1>0, <1>1, <1>2, <1>3, <1>6, <1>11 DEF Handlers
<1>15. Looked(wk', at')
  BY <1>0, <1>1, <1>3, <1>6, <1>11 DEF Looked
<1>16. Once(wk', hand', undo', delivered', returned', made') /\ Apart(wk', hand', undo')
  BY <1>0, <1>1, <1>6, <1>11 DEF Once, Apart, AtSweep, AtSlot
<1>17. Swept(wk', hints', row')
  <2>1. \A s \in wk.sweeps : wk.inFlight[s.queue] /\ s.queue \in Queues
    BY <1>0, SweepFields DEF LockInv, SweepsOk, SweepOk
  <2> QED
    BY <1>0, <1>1, <1>6, <1>11, <2>1 DEF Swept
<1>18. AllIdle'
  BY <1>1, <1>9, <1>11, IdleNext
<1>19. ASSUME NoSweepFails, NEW q \in Queues, q \notin hints', NEW j \in Jobs, LiesIn(row', j, q)
       PROVE  Answered(wk', q)
  BY <1>1, <1>10, <1>11, <1>19, AllAnsweredFacts
<1>20. AllAnswered'
  BY <1>1, <1>19, AnsweredNext
<1> QED
  BY <1>0, <1>1, <1>11, <1>12, <1>13, <1>14, <1>15, <1>16, <1>17, <1>18, <1>20 DEF Inv

(* An unreserve has the jobs it was given, and no other statement has them.   *)
LEMMA UnreserveFacts ==
  ASSUME NEW jobs \in Seq(Reservations), Unreserve(jobs),
         undo \subseteq [jobs : SUBSET Reservations, gaveUp : BOOLEAN]
  PROVE  /\ undo' \subseteq [jobs : SUBSET Reservations, gaveUp : BOOLEAN]
         /\ \A r : AtUndo(undo', r) <=> AtUndo(undo, r) \/ r \in ToSet(jobs)
         /\ (\A r \in ToSet(jobs) : ~ AtUndo(undo, r)) =>
              \A r, x, y : (x \in undo' /\ y \in undo' /\ r \in x.jobs /\ r \in y.jobs)
                             => (x \in undo /\ y \in undo) \/ x = y
<1> DEFINE u == [jobs |-> ToSet(jobs), gaveUp |-> FALSE]
<1>1. undo' = IF jobs = <<>> THEN undo ELSE undo \cup {u}
  BY DEF Unreserve
<1>2. u.jobs = ToSet(jobs) /\ u \in [jobs : SUBSET Reservations, gaveUp : BOOLEAN]
  BY SeqSet
<1> HIDE DEF u
<1>3. CASE jobs = <<>>
  <2>1. ToSet(jobs) = {}
    BY <1>3 DEF ToSet
  <2> QED
    BY <1>1, <1>3, <2>1 DEF AtUndo
<1>4. CASE jobs # <<>>
  <2>1. undo' = undo \cup {u}
    BY <1>1, <1>4
  <2> QED
    BY <1>2, <2>1 DEF AtUndo
<1> QED
  BY <1>3, <1>4

(* Jobs leave the hand for the session's writer or for an unreserve.          *)
LEMMA StepHandOff ==
  ASSUME Inv, NEW w \in Waiters, HandOff(w)
  PROVE  Inv'
<1> DEFINE x == hand[w]
<1>0. /\ WakerTypeOK /\ Handlers(wk, at, hand)
      /\ RowsOk(row, made) /\ Once(wk, hand, undo, delivered, returned, made)
      /\ Apart(wk, hand, undo) /\ Looked(wk, at) /\ wk \in WakerStates
  BY DEF Inv, LockInv
<1>1. /\ at[w] = "handoff" /\ hand' = [hand EXCEPT ![w] = <<>>] /\ wk' = wk
      /\ at' = [at EXCEPT ![w] = "over"] /\ saw' = saw
      /\ clock' = clock /\ cancel' = cancel /\ live' = live
      /\ draining' = draining /\ row' = row /\ now' = now /\ hints' = hints
      /\ made' = made /\ returned' = returned
  BY DEF HandOff, worldVars, tableVars
<1>2. \/ delivered' = delivered \cup ToSet(x) /\ undo' = undo
      \/ Unreserve(x) /\ delivered' = delivered
  BY DEF HandOff
<1>3. x \in Seq(Reservations) /\ undo \subseteq [jobs : SUBSET Reservations, gaveUp : BOOLEAN]
  BY <1>0 DEF WakerTypeOK
<1>4. \A r \in ToSet(x) : r \in Reservations
  BY <1>3, SeqSet
<1> HIDE DEF x
<1>5. /\ at'[w] = "over" /\ hand'[w] = <<>>
      /\ \A v \in Waiters : v # w => at'[v] = at[v] /\ hand'[v] = hand[v]
  BY <1>0, <1>1 DEF WakerTypeOK
<1>6. ToSet(<<>>) = {}
  BY DEF ToSet
<1>7. \A r : /\ r \in ToSet(x) => AtHand(hand, r)
             /\ AtHand(hand', r) <=> AtHand(hand, r) /\ r \notin ToSet(x)
  <2>1. \A r : r \in ToSet(x) => AtHand(hand, r)
    BY DEF AtHand, x
  <2>2. \A r, v : v \in Waiters /\ r \in ToSet(hand[v]) /\ r \in ToSet(x) => v = w
    BY <1>0 DEF Apart, x
  <2>3. \A r : AtHand(hand', r) => AtHand(hand, r) /\ r \notin ToSet(x)
    <3> TAKE r
    <3> HAVE AtHand(hand', r)
    <3>1. PICK v \in Waiters : r \in ToSet(hand'[v])
      BY DEF AtHand
    <3>2. v # w /\ r \in ToSet(hand[v])
      BY <1>5, <1>6, <3>1
    <3> QED
      BY <2>2, <3>2 DEF AtHand
  <2>4. \A r : AtHand(hand, r) /\ r \notin ToSet(x) => AtHand(hand', r)
    <3> TAKE r
    <3> HAVE AtHand(hand, r) /\ r \notin ToSet(x)
    <3>1. PICK v \in Waiters : r \in ToSet(hand[v])
      BY DEF AtHand
    <3>2. v # w
      BY <3>1 DEF x
    <3> QED
      BY <1>5, <3>1, <3>2 DEF AtHand
  <2> QED
    BY <2>1, <2>3, <2>4
<1>8. \A r \in ToSet(x) : ~ AtUndo(undo, r)
  BY <1>0, <1>7 DEF Once
<1>9. /\ undo' \subseteq [jobs : SUBSET Reservations, gaveUp : BOOLEAN]
      /\ delivered' \subseteq Reservations
      /\ Once(wk, hand', undo', delivered', returned, made)
      /\ \A r : \A s, t \in undo' : r \in s.jobs /\ r \in t.jobs => s = t
  <2>1. CASE delivered' = delivered \cup ToSet(x) /\ undo' = undo
    <3>1. Once(wk, hand', undo', delivered', returned, made)
      BY <1>0, <1>7, <2>1 DEF Once
    <3> QED
      BY <1>0, <1>3, <1>4, <2>1, <3>1 DEF WakerTypeOK, Apart
  <2>2. CASE Unreserve(x) /\ delivered' = delivered
    <3>1. /\ undo' \subseteq [jobs : SUBSET Reservations, gaveUp : BOOLEAN]
          /\ \A r : AtUndo(undo', r) <=> AtUndo(undo, r) \/ r \in ToSet(x)
          /\ \A r, s, t : (s \in undo' /\ t \in undo' /\ r \in s.jobs /\ r \in t.jobs)
                            => (s \in undo /\ t \in undo) \/ s = t
      BY <1>3, <1>8, <2>2, UnreserveFacts
    <3>2. Once(wk, hand', undo', delivered', returned, made)
      BY <1>0, <1>7, <2>2, <3>1 DEF Once
    <3>3. \A r : \A s, t \in undo' : r \in s.jobs /\ r \in t.jobs => s = t
      BY <1>0, <3>1 DEF Apart
    <3> QED
      BY <1>0, <2>2, <3>1, <3>2, <3>3 DEF WakerTypeOK
  <2> QED
    BY <1>2, <2>1, <2>2
<1>10. WakerTypeOK'
  <2>1. /\ at' \in [Waiters -> {"new", "loop", "asleep", "leave", "handoff", "over"}]
        /\ hand' \in [Waiters -> Seq(Reservations)]
    BY <1>0, <1>1 DEF WakerTypeOK
  <2> QED
    BY <1>0, <1>1, <1>9, <2>1 DEF WakerTypeOK
<1>11. /\ LockInv(wk', at') /\ Fresh(wk', at') /\ Swept(wk', hints', row')
       /\ AllIdle' /\ AllAnswered'
  <2>1. \A v \in Waiters : /\ at[v] = "new" <=> at'[v] = "new"
                           /\ at[v] \in {"loop", "asleep", "leave"}
                                => at'[v] \in {"loop", "asleep", "leave"}
    BY <1>1, <1>5
  <2> QED
    BY <1>0, <1>1, <2>1, SlotStep
<1>12. Handlers(wk', at', hand')
  BY <1>0, <1>1, <1>5 DEF Handlers
<1>13. Looked(wk', at')
  BY <1>0, <1>1, <1>5 DEF Looked
<1>14. Apart(wk', hand', undo')
  <2>1. \A r : \A v, y \in Waiters : r \in ToSet(hand'[v]) /\ r \in ToSet(hand'[y]) => v = y
    BY <1>0, <1>5, <1>6 DEF Apart
  <2> QED
    BY <1>0, <1>1, <1>9, <2>1 DEF Apart
<1> QED
  BY <1>0, <1>1, <1>9, <1>10, <1>11, <1>12, <1>13, <1>14 DEF Inv

(* Timers, clients, sessions and the operator.                                 *)
LEMMA StepWorld ==
  ASSUME Inv,
         UNCHANGED <<wk, handlerVars, row, undoVars, history>>,
         now' \in 1 .. MaxTime, cancel' \in [Waiters -> BOOLEAN], live' \in [Waiters -> BOOLEAN],
         draining' \in BOOLEAN, clock' \in [Waiters -> {"wait", "late", "due"}],
         \A w \in Waiters : clock'[w] = "wait" => clock[w] = "wait"
  PROVE  Inv'
<1>0. /\ WakerTypeOK /\ LockInv(wk, at) /\ wk \in WakerStates
      /\ \A q \in Queues : Idle(wk, q)
  BY DEF Inv, LockInv, AllIdle
<1>1. /\ wk' = wk /\ at' = at /\ saw' = saw /\ hand' = hand /\ row' = row /\ hints' = hints
      /\ undo' = undo /\ made' = made /\ delivered' = delivered /\ returned' = returned
  BY DEF handlerVars, undoVars, history
<1>2. WakerTypeOK'
  BY <1>0, <1>1 DEF WakerTypeOK
<1>3. \A q \in Queues : \A w \in ToSet(wk.fifo[q]) : w \in Waiters
  BY <1>0, StateFields
<1>4. AllIdle'
  BY <1>0, <1>1, <1>3 DEF AllIdle, Idle, Eligible, Owed
<1>5. AllAnswered'
  <2>1. AllAnswered
    BY DEF Inv
  <2> QED
    BY <1>1, <1>3, <2>1 DEF AllAnswered, NoSweepFails, Answered, Sought, Owed, WasOwed
<1> QED
  BY <1>1, <1>2, <1>4, <1>5 DEF Inv

(* Timers, the end of a session and a CANCEL make nobody eligible.            *)
LEMMA StepPasses ==
  ASSUME Inv, NEW w \in Waiters, Passes(w) \/ SessionEnds(w) \/ Cancel(w)
  PROVE  Inv'
<1>0. WakerTypeOK
  BY DEF Inv
<1>1. CASE Passes(w)
  BY <1>0, <1>1, StepWorld DEF Passes, WakerTypeOK, worldVars, tableVars
<1>2. CASE SessionEnds(w)
  BY <1>0, <1>2, StepWorld DEF SessionEnds, WakerTypeOK, worldVars, tableVars
<1>3. CASE Cancel(w)
  BY <1>0, <1>3, StepWorld DEF Cancel, WakerTypeOK, worldVars, tableVars
<1> QED
  BY <1>1, <1>2, <1>3

(* The database's clock and the drain touch nothing of the waker's.           *)
LEMMA StepTick ==
  ASSUME Inv, Tick \/ BeginDrain
  PROVE  Inv'
<1>0. WakerTypeOK
  BY DEF Inv
<1>1. CASE Tick
  BY <1>0, <1>1, StepWorld, BoundsAssumption DEF Tick, WakerTypeOK, worldVars
<1>2. CASE BeginDrain
  BY <1>0, <1>2, StepWorld DEF BeginDrain, WakerTypeOK, tableVars
<1> QED
  BY <1>1, <1>2

(* Steps on the table: no announced job without a hint comes to lie there.     *)
LEMMA StepTable ==
  ASSUME Inv, UNCHANGED <<wk, handlerVars, worldVars>>, now' = now,
         row' \in [Jobs -> Rows], hints' \subseteq Queues,
         undo' \subseteq [jobs : SUBSET Reservations, gaveUp : BOOLEAN],
         returned' \subseteq Reservations, made' = made, delivered' = delivered,
         RowsOk(row', made), Once(wk, hand, undo', delivered, returned', made),
         \A r, x, y : (x \in undo' /\ y \in undo' /\ r \in x.jobs /\ r \in y.jobs) => x = y,
         \A q \in Queues, j \in Jobs :
           q \notin hints' /\ LiesIn(row', j, q) => q \notin hints /\ LiesIn(row, j, q)
  PROVE  Inv'
<1>0. /\ WakerTypeOK /\ LockInv(wk, at) /\ Fresh(wk, at) /\ Handlers(wk, at, hand)
      /\ Apart(wk, hand, undo) /\ Looked(wk, at) /\ Swept(wk, hints, row)
      /\ wk \in WakerStates /\ \A q \in Queues : Idle(wk, q)
  BY DEF Inv, LockInv, AllIdle
<1>1. /\ wk' = wk /\ at' = at /\ saw' = saw /\ hand' = hand /\ clock' = clock
      /\ cancel' = cancel /\ live' = live /\ draining' = draining
  BY DEF handlerVars, worldVars
<1>2. WakerTypeOK'
  BY <1>0, <1>1 DEF WakerTypeOK
<1>3. Apart(wk', hand', undo')
  BY <1>0, <1>1 DEF Apart
<1>4. Swept(wk', hints', row')
  <2>1. \A s \in wk.sweeps : s.queue \in Queues
    BY <1>0, SweepFields
  <2> QED
    BY <1>0, <1>1, <2>1 DEF Swept
<1>5. AllIdle'
  BY <1>0, <1>1, IdleNext
<1>6. ASSUME NoSweepFails, NEW q \in Queues, q \notin hints', NEW j \in Jobs, LiesIn(row', j, q)
      PROVE  Answered(wk', q)
  BY <1>1, <1>6, AllAnsweredFacts
<1>7. AllAnswered'
  BY <1>1, <1>6, AnsweredNext
<1> QED
  BY <1>0, <1>1, <1>2, <1>3, <1>4, <1>5, <1>7 DEF Inv

(* The types of the fields of a row.                                          *)
LEMMA RowFields ==
  ASSUME WakerTypeOK, NEW j \in Jobs
  PROVE  /\ row[j] \in Rows /\ row[j].queue \in Queues \cup {NoQueue}
         /\ row[j].attempts \in Nat /\ row[j].attempts <= MaxReservations
         /\ row[j].stamp \in 0 .. MaxTime
         /\ row[j].n \in Nat /\ row[j].n <= MaxReservations /\ row[j].hinted \in BOOLEAN
<1>1. row[j] \in Rows
  BY DEF WakerTypeOK
<1> QED
  BY <1>1, BoundsAssumption DEF Rows

(* A row that is reserved does not lie there.                                  *)
LEMMA ReservedFacts ==
  ASSUME WakerTypeOK, NEW m \in SUBSET Reservations, RowsOk(row, m), NEW taken, taken \subseteq Jobs,
         \A j \in taken : row[j].n < MaxReservations
  PROVE  /\ Reserved(taken) \in [Jobs -> Rows] /\ RowsOk(Reserved(taken), m)
         /\ \A j \in Jobs, q \in Queues :
              LiesIn(Reserved(taken), j, q) => LiesIn(row, j, q) /\ j \notin taken
         /\ \A j \in taken : /\ Reserved(taken)[j].n = row[j].n + 1
                             /\ Reserved(taken)[j].queue = row[j].queue
<1> DEFINE rw == Reserved(taken)
<1>1. ASSUME NEW j \in taken
      PROVE  /\ rw[j] \in Rows /\ rw[j].n = row[j].n + 1 /\ rw[j].attempts = row[j].attempts + 1
             /\ ~ rw[j].hinted /\ rw[j].queue = row[j].queue
  <2> DEFINE x == [row[j] EXCEPT !.attempts = row[j].attempts + 1, !.stamp = now,
                                 !.n = row[j].n + 1, !.hinted = FALSE]
  <2>1. rw[j] = x
    BY DEF Reserved
  <2>2. row[j] \in Rows /\ row[j].attempts \in Nat /\ row[j].n \in Nat /\ j \in Jobs
    BY RowFields
  <2>3. row[j].attempts + 1 \in 0 .. MaxReservations /\ row[j].n + 1 \in 0 .. MaxReservations
    <3>1. row[j].n < MaxReservations /\ row[j].attempts <= row[j].n
      BY DEF RowsOk
    <3> QED
      BY <2>2, <3>1, BoundsAssumption
  <2>4. now \in 0 .. MaxTime
    BY BoundsAssumption DEF WakerTypeOK
  <2>5. /\ x \in Rows /\ x.n = row[j].n + 1 /\ x.attempts = row[j].attempts + 1
        /\ ~ x.hinted /\ x.queue = row[j].queue
    BY <2>2, <2>3, <2>4 DEF Rows
  <2> HIDE DEF x, rw
  <2> QED
    BY <2>1, <2>5
<1>2. \A j \in Jobs : j \notin taken => rw[j] = row[j] /\ rw[j] \in Rows
  BY RowFields DEF Reserved
<1>3. rw \in [Jobs -> Rows]
  <2>1. rw = [j \in Jobs |-> rw[j]]
    BY DEF Reserved
  <2> HIDE DEF rw
  <2> QED
    BY <1>1, <1>2, <2>1
<1> HIDE DEF rw
<1>4. RowsOk(rw, m)
  <2>1. \A j \in Jobs : row[j].attempts \in Nat /\ row[j].n \in Nat
    BY RowFields
  <2>2. \A j \in Jobs : rw[j].attempts <= rw[j].n
    BY <1>1, <1>2, <2>1 DEF RowsOk
  <2>3. ASSUME NEW r \in m PROVE r.n <= rw[r.job].n /\ rw[r.job].queue \in Queues
    <3>1. r.job \in Jobs /\ r.n \in Nat
      BY BoundsAssumption DEF Reservations
    <3>2. r.n <= row[r.job].n /\ row[r.job].queue \in Queues
      BY DEF RowsOk
    <3> QED
      BY <1>1, <1>2, <2>1, <3>1, <3>2
  <2> QED
    BY <2>2, <2>3 DEF RowsOk
<1>5. \A j \in Jobs, q \in Queues : LiesIn(rw, j, q) => LiesIn(row, j, q) /\ j \notin taken
  BY <1>1, <1>2 DEF LiesIn
<1> QED
  BY <1>1, <1>3, <1>4, <1>5 DEF rw

(* A job reserved elsewhere no longer lies.                                   *)
LEMMA StepOtherReserves ==
  ASSUME Inv, NEW j \in Jobs, OtherReserves(j)
  PROVE  Inv'
<1>0. /\ WakerTypeOK /\ RowsOk(row, made) /\ Once(wk, hand, undo, delivered, returned, made)
      /\ Apart(wk, hand, undo) /\ made \in SUBSET Reservations
  BY DEF Inv, WakerTypeOK
<1>1. /\ row' = Reserved({j}) /\ UNCHANGED <<wk, handlerVars, worldVars>> /\ now' = now
      /\ hints' = hints /\ undo' = undo /\ made' = made /\ delivered' = delivered
      /\ returned' = returned /\ row[j].n < MaxReservations
  BY DEF OtherReserves, Ready, undoVars, history
<1>2. /\ row' \in [Jobs -> Rows] /\ RowsOk(row', made)
      /\ \A i \in Jobs, q \in Queues : LiesIn(row', i, q) => LiesIn(row, i, q)
  BY <1>0, <1>1, ReservedFacts
<1>3. \A r, x, y : (x \in undo' /\ y \in undo' /\ r \in x.jobs /\ r \in y.jobs) => x = y
  BY <1>0, <1>1 DEF Apart
<1>4. /\ hints' \subseteq Queues /\ returned' \subseteq Reservations
      /\ undo' \subseteq [jobs : SUBSET Reservations, gaveUp : BOOLEAN]
  BY <1>0, <1>1 DEF WakerTypeOK
<1> QED
  BY <1>0, <1>1, <1>2, <1>3, <1>4, StepTable

(* A job that arrives is announced by a hint, or lies unannounced.            *)
LEMMA StepArrive ==
  ASSUME Inv, NEW j \in Jobs, NEW q \in Queues, NEW hinted \in BOOLEAN, Arrive(j, q, hinted)
  PROVE  Inv'
<1>0. /\ WakerTypeOK /\ RowsOk(row, made) /\ Once(wk, hand, undo, delivered, returned, made)
      /\ Apart(wk, hand, undo) /\ made \in SUBSET Reservations
  BY DEF Inv, WakerTypeOK
<1>1. /\ row[j].queue = NoQueue /\ row' = [row EXCEPT ![j].queue = q, ![j].hinted = hinted]
      /\ hints' = (IF hinted THEN hints \cup {q} ELSE hints)
      /\ UNCHANGED <<wk, handlerVars, worldVars>> /\ now' = now
      /\ undo' = undo /\ made' = made /\ delivered' = delivered /\ returned' = returned
  BY DEF Arrive, history
<1> DEFINE x == [row[j] EXCEPT !.queue = q, !.hinted = hinted]
<1>2. row \in [Jobs -> Rows] /\ row[j] \in Rows
  BY <1>0 DEF WakerTypeOK
<1>3. /\ x \in Rows /\ x.queue = q /\ x.hinted = hinted /\ x.attempts = row[j].attempts
      /\ x.n = row[j].n
  BY <1>2 DEF Rows
<1>4. row' = [row EXCEPT ![j] = x]
  BY <1>1, <1>2
<1> HIDE DEF x
<1>5. row' \in [Jobs -> Rows] /\ row'[j] = x /\ \A i \in Jobs : i # j => row'[i] = row[i]
  BY <1>2, <1>3, <1>4
<1>6. RowsOk(row', made)
  <2>1. \A r \in made : r.job \in Jobs
    BY <1>0 DEF Reservations
  <2> QED
    BY <1>0, <1>3, <1>5, <2>1 DEF RowsOk
<1>7. \A p \in Queues, i \in Jobs :
        p \notin hints' /\ LiesIn(row', i, p) => p \notin hints /\ LiesIn(row, i, p)
  BY <1>1, <1>3, <1>5 DEF LiesIn
<1>8. \A r, y, z : (y \in undo' /\ z \in undo' /\ r \in y.jobs /\ r \in z.jobs) => y = z
  BY <1>0, <1>1 DEF Apart
<1>9. /\ hints' \subseteq Queues /\ returned' \subseteq Reservations
      /\ undo' \subseteq [jobs : SUBSET Reservations, gaveUp : BOOLEAN]
  BY <1>0, <1>1 DEF WakerTypeOK
<1> QED
  BY <1>0, <1>1, <1>5, <1>6, <1>7, <1>8, <1>9, StepTable

(* The statement is no longer on its way; its reservations are over.           *)
LEMMA StepUnreserveRuns ==
  ASSUME Inv, NEW u \in undo, UnreserveRuns(u)
  PROVE  Inv'
<1> DEFINE back == {r \in u.jobs : Fence(r)}
           ids == {r.job : r \in back}
<1>0. /\ WakerTypeOK /\ RowsOk(row, made) /\ Once(wk, hand, undo, delivered, returned, made)
      /\ Apart(wk, hand, undo) /\ made \in SUBSET Reservations
      /\ u.jobs \in SUBSET Reservations /\ u.gaveUp \in BOOLEAN
  BY DEF Inv, WakerTypeOK
<1>1. /\ row' = [j \in Jobs |-> IF j \in ids
                   THEN [row[j] EXCEPT !.attempts = @ - 1, !.stamp = 0, !.hinted = ~ u.gaveUp]
                   ELSE row[j]]
      /\ hints' = (IF u.gaveUp THEN hints ELSE hints \cup {row[j].queue : j \in ids})
      /\ undo' = undo \ {u} /\ returned' = returned \cup u.jobs
      /\ UNCHANGED <<wk, handlerVars, worldVars>> /\ now' = now
      /\ made' = made /\ delivered' = delivered
  BY DEF UnreserveRuns
<1>2. \A r : /\ r \in u.jobs => AtUndo(undo, r) /\ r \in made
             /\ AtUndo(undo', r) <=> AtUndo(undo, r) /\ r \notin u.jobs
  <2>1. \A r : r \in u.jobs => AtUndo(undo, r)
    BY DEF AtUndo
  <2>2. \A r : AtUndo(undo', r) <=> AtUndo(undo, r) /\ r \notin u.jobs
    BY <1>0, <1>1 DEF Apart, AtUndo
  <2> QED
    BY <1>0, <2>1, <2>2 DEF Once
<1>3. \A j \in ids : j \in Jobs /\ row[j].queue \in Queues /\ row[j].attempts >= 1
  <2> TAKE j \in ids
  <2>1. PICK r \in u.jobs : Fence(r) /\ j = r.job
    OBVIOUS
  <2>2. r \in Reservations /\ r \in made
    BY <1>0, <1>2, <2>1
  <2>3. r.job \in Jobs /\ r.attempts \in 1 .. MaxReservations
    BY <2>2 DEF Reservations
  <2> QED
    BY <1>0, <2>1, <2>2, <2>3, BoundsAssumption DEF RowsOk, Fence
<1> HIDE DEF ids, back
<1>4. ASSUME NEW j \in ids
      PROVE  /\ row'[j] \in Rows /\ row'[j].attempts = row[j].attempts - 1
             /\ row'[j].n = row[j].n /\ row'[j].queue = row[j].queue
             /\ row'[j].hinted = ~ u.gaveUp
  <2> DEFINE x == [row[j] EXCEPT !.attempts = row[j].attempts - 1, !.stamp = 0,
                                 !.hinted = ~ u.gaveUp]
  <2>1. row'[j] = x /\ j \in Jobs
    BY <1>1, <1>3
  <2>2. row[j] \in Rows /\ row[j].attempts - 1 \in 0 .. MaxReservations /\ 0 \in 0 .. MaxTime
    BY <1>0, <1>3, RowFields, BoundsAssumption
  <2>3. (~ u.gaveUp) \in BOOLEAN
    OBVIOUS
  <2>4. /\ x \in Rows /\ x.attempts = row[j].attempts - 1
        /\ x.n = row[j].n /\ x.queue = row[j].queue /\ x.hinted = ~ u.gaveUp
    BY <2>2, <2>3 DEF Rows
  <2> HIDE DEF x
  <2> QED
    BY <2>1, <2>4
<1>5. \A j \in Jobs : j \notin ids => row'[j] = row[j] /\ row'[j] \in Rows
  BY <1>0, <1>1, RowFields
<1>6. row' \in [Jobs -> Rows]
  <2>1. row' = [j \in Jobs |-> row'[j]]
    BY <1>1
  <2> QED
    BY <1>4, <1>5, <2>1
<1>7. RowsOk(row', made)
  <2>1. \A r \in made : r.job \in Jobs
    BY <1>0 DEF Reservations
  <2>2. \A j \in Jobs : row[j].attempts \in Nat /\ row[j].n \in Nat
    BY <1>0, RowFields
  <2>3. \A j \in Jobs : row'[j].attempts <= row'[j].n
    BY <1>0, <1>4, <1>5, <2>2 DEF RowsOk
  <2>4. \A j \in Jobs : row'[j].n = row[j].n /\ row'[j].queue = row[j].queue
    BY <1>4, <1>5
  <2> QED
    BY <1>0, <2>1, <2>3, <2>4 DEF RowsOk
<1>8. Once(wk, hand, undo', delivered, returned', made)
  BY <1>0, <1>1, <1>2 DEF Once
<1>9. \A r, y, z : (y \in undo' /\ z \in undo' /\ r \in y.jobs /\ r \in z.jobs) => y = z
  BY <1>0, <1>1 DEF Apart
<1>10. /\ hints' \subseteq Queues /\ returned' \subseteq Reservations
       /\ undo' \subseteq [jobs : SUBSET Reservations, gaveUp : BOOLEAN]
  <2>1. hints \subseteq Queues /\ {row[j].queue : j \in ids} \subseteq Queues
    BY <1>0, <1>3 DEF WakerTypeOK
  <2>2. hints' = hints \/ hints' = hints \cup {row[j].queue : j \in ids}
    BY <1>1
  <2>3. hints' \subseteq Queues
    BY <2>1, <2>2
  <2>4. /\ returned \subseteq Reservations
        /\ undo \subseteq [jobs : SUBSET Reservations, gaveUp : BOOLEAN]
    BY <1>0 DEF WakerTypeOK
  <2> QED
    BY <1>0, <1>1, <2>3, <2>4
<1>11. ASSUME NEW q \in Queues, NEW j \in Jobs, q \notin hints', LiesIn(row', j, q)
       PROVE  q \notin hints /\ LiesIn(row, j, q)
  <2>1. j \notin ids
    <3> SUFFICES ASSUME j \in ids PROVE FALSE
      OBVIOUS
    <3>1. row'[j].queue = q /\ row'[j].hinted
      BY <1>11 DEF LiesIn
    <3>2. ~ u.gaveUp /\ row[j].queue = q
      BY <1>4, <3>1
    <3> QED
      BY <1>1, <1>11, <3>2
  <2>2. q \notin hints
    BY <1>1, <1>11
  <2> QED
    BY <1>5, <1>11, <2>1, <2>2 DEF LiesIn
<1> QED
  BY <1>1, <1>6, <1>7, <1>8, <1>9, <1>10, <1>11, StepTable

(* A statement given up keeps its jobs until it has run.                      *)
LEMMA StepUnreserveGivesUp ==
  ASSUME Inv, NEW u \in undo, UnreserveGivesUp(u)
  PROVE  Inv'
<1> DEFINE v == [u EXCEPT !.gaveUp = TRUE]
<1>0. /\ WakerTypeOK /\ RowsOk(row, made) /\ Once(wk, hand, undo, delivered, returned, made)
      /\ Apart(wk, hand, undo) /\ made \in SUBSET Reservations
      /\ u \in [jobs : SUBSET Reservations, gaveUp : BOOLEAN]
  BY DEF Inv, WakerTypeOK
<1>1. /\ undo' = (undo \ {u}) \cup {v} /\ row' = row /\ hints' = hints /\ returned' = returned
      /\ UNCHANGED <<wk, handlerVars, worldVars>> /\ now' = now
      /\ made' = made /\ delivered' = delivered
  BY DEF UnreserveGivesUp, tableVars, history
<1>2. v \in [jobs : SUBSET Reservations, gaveUp : BOOLEAN] /\ v.jobs = u.jobs
  BY <1>0
<1> HIDE DEF v
<1>3. \A r : AtUndo(undo', r) <=> AtUndo(undo, r)
  BY <1>1, <1>2 DEF AtUndo
<1>4. Once(wk, hand, undo', delivered, returned', made)
  BY <1>0, <1>1, <1>3 DEF Once
<1>5. ASSUME NEW r, NEW x \in undo', NEW y \in undo', r \in x.jobs, r \in y.jobs PROVE x = y
  <2>1. x = v \/ (x \in undo /\ x # u)
    BY <1>1
  <2>2. y = v \/ (y \in undo /\ y # u)
    BY <1>1
  <2> QED
    BY <1>0, <1>2, <1>5, <2>1, <2>2 DEF Apart
<1>6. /\ hints' \subseteq Queues /\ returned' \subseteq Reservations /\ row' \in [Jobs -> Rows]
      /\ undo' \subseteq [jobs : SUBSET Reservations, gaveUp : BOOLEAN]
  BY <1>0, <1>1, <1>2 DEF WakerTypeOK
<1> QED
  BY <1>0, <1>1, <1>4, <1>5, <1>6, StepTable

(* A sweep goes on to its next stage.                                          *)
LEMMA StageFacts ==
  ASSUME NEW a, NEW k, LockInv(k, a), NEW s \in k.sweeps, NEW t \in SweepStates,
         t.queue = s.queue, t.batch = s.batch, IsInjective(t.jobs),
         t.is # "back" => t.jobs = <<>>, t.is = "failed" => "failure" \in Events
  PROVE  LET m == [k EXCEPT !.sweeps = (@ \ {s}) \cup {t}] IN
         /\ LockInv(m, a)
         /\ m.sweeps = (k.sweeps \ {s}) \cup {t} /\ m.slot = k.slot /\ m.pending = k.pending
         /\ \A q \in Queues : Idle(k, q) => Idle(m, q)
         /\ \A q \in Queues : Answered(k, q) => Answered(m, q)
<1> DEFINE sw == (k.sweeps \ {s}) \cup {t}
           m == [k EXCEPT !.sweeps = sw]
<1>0. k \in WakerStates /\ sw \subseteq SweepStates
  BY StateFields DEF LockInv
<1>1. sw = (k.sweeps \ {s}) \cup {t}
  OBVIOUS
<1> HIDE DEF sw
<1>2. /\ m \in WakerStates /\ m.list = k.list /\ m.slot = k.slot /\ m.bell = k.bell
      /\ m.fifo = k.fifo /\ m.inFlight = k.inFlight /\ m.pending = k.pending
      /\ m.sweeps = sw
  BY <1>0 DEF WakerStates
<1> HIDE DEF m
<1>3. Fifos(m, a)
  BY <1>2 DEF LockInv, Fifos
<1>4. SweepsOk(m, a)
  <2>1. \A x \in k.sweeps : SweepOk(m, a, x)
    BY <1>2 DEF LockInv, SweepsOk, SweepOk
  <2>2. SweepOk(m, a, t)
    BY <2>1 DEF SweepOk
  <2>3. \A x, y \in k.sweeps : x.queue = y.queue => x = y
    BY DEF LockInv, SweepsOk
  <2>4. \A x, y \in sw : x.queue = y.queue => x = y
    BY <1>1, <2>3
  <2> QED
    BY <1>1, <1>2, <2>1, <2>2, <2>4 DEF SweepsOk
<1>5. BusyOk(m)
  <2> SUFFICES ASSUME NEW w \in Waiters, k.slot[w].busy PROVE \E x \in sw : w \in ToSet(x.batch)
    BY <1>2 DEF BusyOk
  <2>1. PICK x \in k.sweeps : w \in ToSet(x.batch)
    BY DEF LockInv, BusyOk
  <2> QED
    BY <1>1, <2>1
<1>6. LockInv(m, a)
  BY <1>2, <1>3, <1>4, <1>5 DEF LockInv
<1>7. \A q \in Queues : Idle(k, q) => Idle(m, q)
  BY <1>2 DEF Idle, Eligible, Owed
<1>8. \A q \in Queues : Answered(k, q) => Answered(m, q)
  BY <1>2 DEF Answered, Sought, Owed, WasOwed
<1>9. m = [k EXCEPT !.sweeps = (@ \ {s}) \cup {t}]
  BY <1>1 DEF m
<1> QED
  BY <1>1, <1>2, <1>6, <1>7, <1>8, <1>9

(* A statement that fails brings nothing back.                                *)
LEMMA StepSweepFails ==
  ASSUME Inv, NEW s \in wk.sweeps, SweepFails(s)
  PROVE  Inv'
<1> DEFINE t == [s EXCEPT !.is = "failed"]
<1>0. /\ WakerTypeOK /\ LockInv(wk, at) /\ Fresh(wk, at) /\ Handlers(wk, at, hand)
      /\ RowsOk(row, made) /\ Once(wk, hand, undo, delivered, returned, made)
      /\ Apart(wk, hand, undo) /\ Looked(wk, at) /\ Swept(wk, hints, row)
      /\ wk \in WakerStates /\ \A q \in Queues : Idle(wk, q)
  BY DEF Inv, LockInv, AllIdle
<1>1. /\ "failure" \in Events /\ s.is = "sent"
      /\ wk' = [wk EXCEPT !.sweeps = (@ \ {s}) \cup {t}]
      /\ at' = at /\ saw' = saw /\ hand' = hand /\ clock' = clock /\ cancel' = cancel
      /\ live' = live /\ draining' = draining /\ row' = row /\ now' = now /\ hints' = hints
      /\ undo' = undo /\ made' = made /\ delivered' = delivered /\ returned' = returned
  BY DEF SweepFails, handlerVars, worldVars, tableVars, undoVars, history
<1>2. s \in SweepStates /\ s.jobs = <<>>
  BY <1>0, <1>1, StateFields DEF LockInv, SweepsOk, SweepOk
<1>3. /\ t \in SweepStates /\ t.queue = s.queue /\ t.batch = s.batch /\ t.jobs = <<>>
      /\ t.is = "failed"
  BY <1>2 DEF SweepStates
<1> HIDE DEF t
<1>4. IsInjective(t.jobs) /\ ToSet(t.jobs) = {} /\ ToSet(s.jobs) = {}
  BY <1>2, <1>3 DEF IsInjective, ToSet
<1>5. /\ LockInv(wk', at)
      /\ wk'.sweeps = (wk.sweeps \ {s}) \cup {t} /\ wk'.slot = wk.slot /\ wk'.pending = wk.pending
      /\ \A q \in Queues : Idle(wk', q)
      /\ \A q \in Queues : Answered(wk, q) => Answered(wk', q)
  BY <1>0, <1>1, <1>3, <1>4, StageFacts
<1>6. WakerTypeOK'
  BY <1>0, <1>1, <1>5 DEF WakerTypeOK, LockInv
<1>7. Fresh(wk', at') /\ Handlers(wk', at', hand') /\ Looked(wk', at')
  BY <1>0, <1>1, <1>5 DEF Fresh, Handlers, Looked
<1>8. Once(wk', hand', undo', delivered', returned', made')
  <2>1. \A r : AtSweep(wk', r) <=> AtSweep(wk, r)
    BY <1>4, <1>5 DEF AtSweep
  <2>2. \A r : AtSlot(wk', r) <=> AtSlot(wk, r)
    BY <1>5 DEF AtSlot
  <2> QED
    BY <1>0, <1>1, <2>1, <2>2 DEF Once
<1>9. Apart(wk', hand', undo')
  BY <1>0, <1>1, <1>4, <1>5 DEF Apart
<1>10. Swept(wk', hints', row')
  BY <1>0, <1>1, <1>3, <1>5 DEF Swept
<1>11. AllIdle'
  BY <1>1, <1>5, IdleNext
<1>12. ASSUME NoSweepFails, NEW q \in Queues, q \notin hints', NEW j \in Jobs, LiesIn(row', j, q)
       PROVE  Answered(wk', q)
  BY <1>1, <1>5, <1>12, AllAnsweredFacts
<1>13. AllAnswered'
  BY <1>1, <1>12, AnsweredNext
<1> QED
  BY <1>0, <1>1, <1>5, <1>6, <1>7, <1>8, <1>9, <1>10, <1>11, <1>13 DEF Inv

(* A reserve statement: what it brings back nobody had, and a sweep that is    *)
(* not full has taken all there was.                                           *)
LEMMA StepSweepRuns ==
  ASSUME Inv, NEW s \in wk.sweeps, SweepRuns(s)
  PROVE  Inv'
<1> DEFINE ready == {j \in Jobs : Ready(j, s.queue)}
           limit == Clamp * Len(s.batch)
           size == IF Cardinality(ready) < limit THEN Cardinality(ready) ELSE limit
           Found(T) == {Reservation(j) : j \in T}
           Stage(T) == [s EXCEPT !.is = "back", !.jobs = SetToSeq(Found(T))]
<1>0. /\ WakerTypeOK /\ LockInv(wk, at) /\ Fresh(wk, at) /\ Handlers(wk, at, hand)
      /\ RowsOk(row, made) /\ Once(wk, hand, undo, delivered, returned, made)
      /\ Apart(wk, hand, undo) /\ Looked(wk, at) /\ Swept(wk, hints, row)
      /\ wk \in WakerStates /\ \A q \in Queues : Idle(wk, q)
      /\ made \in SUBSET Reservations
  BY DEF Inv, LockInv, AllIdle, WakerTypeOK
<1>1. PICK taken \in {x \in SUBSET ready : Cardinality(x) = size} :
        /\ row' = Reserved(taken)
        /\ made' = made \cup Found(taken)
        /\ wk' = [wk EXCEPT !.sweeps = (@ \ {s}) \cup {Stage(taken)}]
  BY DEF SweepRuns
<1>2. /\ s.is = "sent" /\ at' = at /\ saw' = saw /\ hand' = hand /\ clock' = clock
      /\ cancel' = cancel /\ live' = live /\ draining' = draining /\ now' = now
      /\ hints' = hints /\ undo' = undo /\ delivered' = delivered /\ returned' = returned
  BY DEF SweepRuns, handlerVars, worldVars, undoVars
<1> DEFINE found == Found(taken)
           t == Stage(taken)
<1>3. taken \subseteq ready /\ Cardinality(taken) = size
  OBVIOUS
<1>4. /\ ready \subseteq Jobs
      /\ \A j \in ready : row[j].queue = s.queue /\ row[j].n < MaxReservations
      /\ \A j \in Jobs : LiesIn(row, j, s.queue) => j \in ready
  BY DEF Ready, LiesIn
<1>5. IsFiniteSet(ready) /\ IsFiniteSet(taken)
  BY <1>3, <1>4, FiniteAssumption, FS_Subset
<1>6. s \in SweepStates /\ s.jobs = <<>> /\ s.queue \in Queues /\ s.batch \in Seq(Waiters)
  BY <1>0, <1>2, StateFields, SweepFields DEF LockInv, SweepsOk, SweepOk
<1>7. limit \in Nat
  BY <1>6, BoundsAssumption
<1> HIDE DEF ready, limit
<1>8. \A j \in taken : /\ Reservation(j) \in Reservations /\ Reservation(j).job = j
                       /\ Reservation(j).n = row[j].n + 1
  <2> TAKE j \in taken
  <2>1. /\ j \in Jobs /\ row[j].attempts \in Nat /\ row[j].n \in Nat
        /\ row[j].attempts <= row[j].n /\ row[j].n < MaxReservations
    BY <1>0, <1>3, <1>4, RowFields DEF RowsOk
  <2>2. row[j].attempts + 1 \in 1 .. MaxReservations /\ row[j].n + 1 \in 1 .. MaxReservations
    BY <2>1, BoundsAssumption
  <2>3. now \in 1 .. MaxTime
    BY <1>0 DEF WakerTypeOK
  <2> QED
    BY <2>1, <2>2, <2>3 DEF Reservation, Reservations
<1>9. IsFiniteSet(found) /\ Cardinality(found) = Cardinality(taken)
  <2> DEFINE f == [j \in taken |-> Reservation(j)]
  <2>1. f \in [taken -> found] /\ \A j \in taken : f[j] = Reservation(j)
    OBVIOUS
  <2>2. \A x \in found : \E j \in taken : f[j] = x
    OBVIOUS
  <2> HIDE DEF f, found
  <2>3. \A i, j \in taken : f[i] = f[j] => i = j
    BY <1>8, <2>1
  <2>4. f \in Bijection(taken, found)
    BY <2>1, <2>2, <2>3 DEF Bijection, Injection, Surjection, IsInjective
  <2> QED
    BY <1>5, <2>4, FS_Bijection DEF ExistsBijection
<1>10. /\ \A r \in found : /\ r \in Reservations /\ r.job \in taken /\ r.n = row[r.job].n + 1
  BY <1>8
<1>11. t = [s EXCEPT !.is = "back", !.jobs = SetToSeq(found)]
  OBVIOUS
<1> HIDE DEF found, t
<1>12. /\ SetToSeq(found) \in Seq(found) /\ ToSet(SetToSeq(found)) = found
       /\ IsInjective(SetToSeq(found)) /\ Len(SetToSeq(found)) = Cardinality(found)
  BY <1>9, SetToSeqFacts
<1>13. SetToSeq(found) \in Seq(Reservations)
  <2>1. found \subseteq Reservations
    BY <1>10
  <2> QED
    BY <1>12, <2>1
<1>14. /\ t \in SweepStates /\ t.queue = s.queue /\ t.batch = s.batch
       /\ t.jobs = SetToSeq(found) /\ t.is = "back"
  BY <1>6, <1>11, <1>13 DEF SweepStates
<1>15. wk' = [wk EXCEPT !.sweeps = (@ \ {s}) \cup {t}] /\ made' = made \cup found
  BY <1>1 DEF t, found
<1>16. /\ LockInv(wk', at)
       /\ wk'.sweeps = (wk.sweeps \ {s}) \cup {t} /\ wk'.slot = wk.slot /\ wk'.pending = wk.pending
       /\ \A q \in Queues : Idle(wk', q)
       /\ \A q \in Queues : Answered(wk, q) => Answered(wk', q)
  <2>1. /\ IsInjective(t.jobs) /\ (t.is # "back" => t.jobs = <<>>)
        /\ (t.is = "failed" => "failure" \in Events)
    BY <1>12, <1>14
  <2>2. t \in SweepStates /\ t.queue = s.queue /\ t.batch = s.batch
    BY <1>14
  <2> QED
    BY <1>0, <1>15, <2>1, <2>2, StageFacts
<1>17. /\ row' \in [Jobs -> Rows] /\ RowsOk(row', made)
       /\ \A j \in Jobs, q \in Queues : LiesIn(row', j, q) => LiesIn(row, j, q) /\ j \notin taken
       /\ \A j \in taken : row'[j].n = row[j].n + 1 /\ row'[j].queue = row[j].queue
  <2>1. taken \subseteq Jobs /\ \A j \in taken : row[j].n < MaxReservations
    BY <1>3, <1>4
  <2> QED
    BY <1>0, <1>1, <2>1, ReservedFacts
<1>18. RowsOk(row', made')
  <2>1. \A r \in found : r.n <= row'[r.job].n /\ row'[r.job].queue \in Queues
    <3> TAKE r \in found
    <3>1. r.job \in taken /\ r.n = row[r.job].n + 1 /\ r.job \in Jobs
      BY <1>3, <1>4, <1>10
    <3>2. r.n \in Nat
      BY <1>0, <3>1, RowFields
    <3> QED
      BY <1>3, <1>4, <1>6, <1>17, <3>1, <3>2
  <2> QED
    BY <1>15, <1>17, <2>1 DEF RowsOk
<1>19. \A r \in found : r \notin made
  <2> SUFFICES ASSUME NEW r \in found, r \in made PROVE FALSE
    OBVIOUS
  <2>1. r.job \in Jobs /\ r.n = row[r.job].n + 1 /\ r.n <= row[r.job].n
    BY <1>0, <1>3, <1>4, <1>10 DEF RowsOk
  <2>2. row[r.job].n \in Nat
    BY <1>0, <2>1, RowFields
  <2> QED
    BY <2>1, <2>2
<1>20. WakerTypeOK'
  <2>1. made' \subseteq Reservations
    BY <1>0, <1>10, <1>15
  <2> QED
    BY <1>0, <1>2, <1>16, <1>17, <2>1 DEF WakerTypeOK, LockInv
<1>21. Fresh(wk', at') /\ Handlers(wk', at', hand') /\ Looked(wk', at')
  BY <1>0, <1>2, <1>16 DEF Fresh, Handlers, Looked
<1>22. ToSet(t.jobs) = found /\ ToSet(s.jobs) = {}
  BY <1>6, <1>12, <1>14 DEF ToSet
<1>23. Once(wk', hand', undo', delivered', returned', made')
  <2>1. \A r : AtSweep(wk', r) <=> AtSweep(wk, r) \/ r \in found
    BY <1>16, <1>22 DEF AtSweep
  <2>2. \A r : AtSlot(wk', r) <=> AtSlot(wk, r)
    BY <1>16 DEF AtSlot
  <2> QED
    BY <1>0, <1>2, <1>15, <1>19, <2>1, <2>2 DEF Once
<1>24. Apart(wk', hand', undo')
  <2>1. ASSUME NEW r, NEW x \in wk'.sweeps, NEW y \in wk'.sweeps,
               r \in ToSet(x.jobs), r \in ToSet(y.jobs)
        PROVE  x = y
    <3>1. \A z \in wk.sweeps : r \in ToSet(z.jobs) => r \in made
      BY <1>0 DEF Once, AtSweep
    <3>2. CASE r \in found
      BY <1>16, <1>19, <2>1, <3>1, <3>2
    <3>3. CASE r \notin found
      <4>1. x \in wk.sweeps /\ y \in wk.sweeps
        BY <1>16, <1>22, <2>1, <3>3
      <4> QED
        BY <1>0, <2>1, <4>1 DEF Apart
    <3> QED
      BY <3>2, <3>3
  <2> QED
    BY <1>0, <1>2, <1>16, <2>1 DEF Apart
<1>25. Swept(wk', hints', row')
  <2> SUFFICES ASSUME NEW x \in wk'.sweeps, x.is = "back", Len(x.jobs) < Clamp * Len(x.batch),
                      ~ wk'.pending[x.queue], x.queue \notin hints', NEW j \in Jobs,
                      LiesIn(row', j, x.queue)
               PROVE  FALSE
    BY DEF Swept
  <2>1. CASE x = t
    <3>1. Cardinality(taken) < limit
      BY <1>9, <1>12, <1>14, <2>1 DEF limit
    <3>2. Cardinality(ready) \in Nat
      BY <1>5, FS_CardinalityType
    <3>3. Cardinality(taken) = Cardinality(ready)
      BY <1>3, <1>7, <3>1, <3>2
    <3>4. taken = ready
      BY <1>3, <1>5, <3>3, FS_Subset
    <3> QED
      BY <1>4, <1>6, <1>14, <1>17, <2>1, <3>4
  <2>2. CASE x # t
    <3>1. x \in wk.sweeps /\ x.queue \in Queues
      BY <1>0, <1>16, <2>2, SweepFields
    <3>2. LiesIn(row, j, x.queue)
      BY <1>17, <3>1
    <3> QED
      BY <1>0, <1>2, <1>16, <3>1, <3>2 DEF Swept
  <2> QED
    BY <2>1, <2>2
<1>26. AllIdle'
  BY <1>2, <1>16, IdleNext
<1>27. ASSUME NoSweepFails, NEW q \in Queues, q \notin hints', NEW j \in Jobs, LiesIn(row', j, q)
       PROVE  Answered(wk', q)
  BY <1>2, <1>16, <1>17, <1>27, AllAnsweredFacts
<1>28. AllAnswered'
  BY <1>2, <1>27, AnsweredNext
<1> QED
  BY <1>2, <1>16, <1>18, <1>20, <1>21, <1>23, <1>24, <1>25, <1>26, <1>28 DEF Inv

(* The jobs of a sweep go to slots whose handlers will look, and to an         *)
(* unreserve.                                                                  *)
LEMMA StepDelivers ==
  ASSUME Inv, NEW s \in wk.sweeps, Complete(s), s.is = "back"
  PROVE  Inv'
<1> DEFINE g == Given(wk, s)
           rest == Leftovers(wk, s)
           fed == Fed(wk, s)
           X == ToSet(s.jobs)
           Y == ToSet(rest)
<1>0. /\ WakerTypeOK /\ LockInv(wk, at) /\ Fresh(wk, at) /\ Handlers(wk, at, hand)
      /\ RowsOk(row, made) /\ Once(wk, hand, undo, delivered, returned, made)
      /\ Apart(wk, hand, undo) /\ Looked(wk, at) /\ Swept(wk, hints, row)
      /\ wk \in WakerStates /\ \A q \in Queues : Idle(wk, q)
  BY DEF Inv, LockInv, AllIdle
<1>1. /\ wk' = Delivers(wk, s) /\ Unreserve(rest)
      /\ at' = at /\ saw' = saw /\ hand' = hand /\ clock' = clock
      /\ cancel' = cancel /\ live' = live /\ draining' = draining /\ row' = row /\ now' = now
      /\ hints' = hints /\ made' = made /\ delivered' = delivered /\ returned' = returned
  BY DEF Complete, handlerVars, worldVars, tableVars, history
<1>2. /\ \A w \in Waiters : w \notin fed =>
           g.slot[w].ended = wk.slot[w].ended /\ g.slot[w].offer = wk.slot[w].offer
      /\ \A w \in fed :
           /\ w \in Waiters /\ at[w] # "new"
           /\ wk.slot[w].ended = "no" /\ g.slot[w].ended = "Offered"
           /\ ToSet(g.slot[w].offer) \subseteq X
           /\ ToSet(g.slot[w].offer) \cap Y = {}
      /\ \A w, v \in fed : w # v => ToSet(g.slot[w].offer) \cap ToSet(g.slot[v].offer) = {}
      /\ rest \in Seq(Reservations) /\ Y \subseteq X
      /\ \A r \in X : r \in Y \/ \E w \in fed : r \in ToSet(g.slot[w].offer)
  <2>1. LockInv(wk, at)
    BY <1>0
  <2>2. \A w \in Waiters : w \notin fed =>
           g.slot[w].ended = wk.slot[w].ended /\ g.slot[w].offer = wk.slot[w].offer
    BY <2>1, GivenFacts
  <2>3. \A w \in fed :
           /\ w \in Waiters /\ at[w] # "new"
           /\ wk.slot[w].ended = "no" /\ g.slot[w].ended = "Offered"
           /\ ToSet(g.slot[w].offer) \subseteq X
           /\ ToSet(g.slot[w].offer) \cap Y = {}
    BY <2>1, GivenFacts
  <2>4. \A w, v \in fed : w # v => ToSet(g.slot[w].offer) \cap ToSet(g.slot[v].offer) = {}
    BY <2>1, GivenFacts
  <2>5. rest \in Seq(Reservations) /\ Y \subseteq X
    BY <2>1, GivenFacts
  <2>6. \A r \in X : r \in Y \/ \E w \in fed : r \in ToSet(g.slot[w].offer)
    BY <2>1, GivenFacts
  <2> QED
    BY <2>2, <2>3, <2>4, <2>5, <2>6
<1>3. /\ LockInv(wk', at)
      /\ wk'.list = wk.list /\ wk'.fifo = wk.fifo
      /\ \A w \in Waiters :
           /\ wk'.slot[w].ended = g.slot[w].ended /\ wk'.slot[w].offer = g.slot[w].offer
           /\ at[w] = "new" => wk'.slot[w].arrival = wk.slot[w].arrival
      /\ wk.sweeps \ {s} \subseteq wk'.sweeps
      /\ \A t \in wk'.sweeps : t \in wk.sweeps \ {s} \/ (t.jobs = <<>> /\ t.is = "sent")
      /\ \A q \in Queues : q # s.queue /\ wk.inFlight[q] /\ wk.pending[q] => wk'.pending[q]
      /\ \A q \in Queues : Idle(wk', q)
      /\ \A q \in Queues : q # s.queue /\ Answered(wk, q) => Answered(wk', q)
      /\ wk.pending[s.queue] \/ Len(s.jobs) >= Clamp * Len(s.batch) => Answered(wk', s.queue)
  BY <1>0, <1>1, DeliversFacts
<1>4. s.queue \in Queues /\ s.batch \in Seq(Waiters) /\ s.jobs \in Seq(Reservations)
  BY <1>0, SweepFields
<1> HIDE DEF g, rest, fed, X, Y
<1>5. ToSet(<<>>) = {}
  BY DEF ToSet
<1>6. \A w \in fed : /\ at[w] \in {"loop", "asleep"} /\ wk.slot[w].offer = <<>>
                     /\ wk'.slot[w].ended = "Offered" /\ wk'.slot[w].offer = g.slot[w].offer
  BY <1>0, <1>2, <1>3 DEF WakerTypeOK, Handlers
<1>7. \A w \in Waiters : w \notin fed =>
        wk'.slot[w].ended = wk.slot[w].ended /\ wk'.slot[w].offer = wk.slot[w].offer
  BY <1>2, <1>3
<1>8. Fresh(wk', at')
  BY <1>0, <1>1, <1>3 DEF Fresh
<1>9. Looked(wk', at')
  BY <1>0, <1>1, <1>6, <1>7 DEF Looked
<1>10. Handlers(wk', at', hand')
  <2> SUFFICES ASSUME NEW w \in Waiters
               PROVE  /\ wk'.slot[w].ended = "no" => wk'.slot[w].offer = <<>>
                      /\ at[w] \in {"new", "loop", "asleep"}
                           => wk'.slot[w].ended \in {"no", "Offered"}
                      /\ at[w] \in {"leave", "handoff", "over"}
                           => wk'.slot[w].ended # "no" /\ wk'.slot[w].offer = <<>>
                      /\ hand[w] # <<>> => at[w] \in {"leave", "handoff"}
    BY <1>1 DEF Handlers
  <2>1. CASE w \in fed
    BY <1>0, <1>6, <2>1 DEF Handlers
  <2>2. CASE w \notin fed
    BY <1>0, <1>7, <2>2 DEF Handlers
  <2> QED
    BY <2>1, <2>2
<1>11. \A r : /\ r \in X => AtSweep(wk, r)
              /\ AtSweep(wk', r) <=> AtSweep(wk, r) /\ r \notin X
  <2>1. \A r : r \in X => AtSweep(wk, r)
    BY DEF AtSweep, X
  <2>2. \A r, t : t \in wk.sweeps /\ r \in ToSet(t.jobs) /\ r \in X => t = s
    BY <1>0 DEF Apart, X
  <2>3. \A r : AtSweep(wk', r) => AtSweep(wk, r) /\ r \notin X
    <3> TAKE r
    <3> HAVE AtSweep(wk', r)
    <3>1. PICK t \in wk'.sweeps : r \in ToSet(t.jobs)
      BY DEF AtSweep
    <3>2. t \in wk.sweeps /\ t # s
      BY <1>3, <1>5, <3>1
    <3> QED
      BY <2>2, <3>1, <3>2 DEF AtSweep
  <2>4. \A r : AtSweep(wk, r) /\ r \notin X => AtSweep(wk', r)
    <3> TAKE r
    <3> HAVE AtSweep(wk, r) /\ r \notin X
    <3>1. PICK t \in wk.sweeps : r \in ToSet(t.jobs)
      BY DEF AtSweep
    <3>2. t # s
      BY <3>1 DEF X
    <3> QED
      BY <1>3, <3>1, <3>2 DEF AtSweep
  <2> QED
    BY <2>1, <2>3, <2>4
<1>12. \A r : AtSlot(wk', r) <=> AtSlot(wk, r) \/ (r \in X /\ r \notin Y)
  <2> TAKE r
  <2>1. ASSUME AtSlot(wk', r) PROVE AtSlot(wk, r) \/ (r \in X /\ r \notin Y)
    <3>1. PICK w \in Waiters : r \in ToSet(wk'.slot[w].offer)
      BY <2>1 DEF AtSlot
    <3>2. CASE w \in fed
      BY <1>2, <1>6, <3>1, <3>2
    <3>3. CASE w \notin fed
      BY <1>7, <3>1, <3>3 DEF AtSlot
    <3> QED
      BY <3>2, <3>3
  <2>2. ASSUME AtSlot(wk, r) PROVE AtSlot(wk', r)
    <3>1. PICK w \in Waiters : r \in ToSet(wk.slot[w].offer)
      BY <2>2 DEF AtSlot
    <3>2. w \notin fed
      BY <1>5, <1>6, <3>1
    <3> QED
      BY <1>7, <3>1, <3>2 DEF AtSlot
  <2>3. ASSUME r \in X, r \notin Y PROVE AtSlot(wk', r)
    <3>1. PICK w \in fed : r \in ToSet(g.slot[w].offer)
      BY <1>2, <2>3
    <3> QED
      BY <1>2, <1>6, <3>1 DEF AtSlot
  <2> QED
    BY <2>1, <2>2, <2>3
<1>13. \A r \in Y : ~ AtUndo(undo, r)
  BY <1>0, <1>2, <1>11 DEF Once
<1>14. /\ undo' \subseteq [jobs : SUBSET Reservations, gaveUp : BOOLEAN]
       /\ \A r : AtUndo(undo', r) <=> AtUndo(undo, r) \/ r \in Y
       /\ \A r, x, y : (x \in undo' /\ y \in undo' /\ r \in x.jobs /\ r \in y.jobs)
                         => (x \in undo /\ y \in undo) \/ x = y
  <2>1. undo \subseteq [jobs : SUBSET Reservations, gaveUp : BOOLEAN]
    BY <1>0 DEF WakerTypeOK
  <2>2. rest \in Seq(Reservations) /\ Unreserve(rest) /\ \A r \in ToSet(rest) : ~ AtUndo(undo, r)
    BY <1>1, <1>2, <1>13 DEF Y
  <2> QED
    BY <2>1, <2>2, UnreserveFacts DEF Y
<1>15. Once(wk', hand', undo', delivered', returned', made')
  BY <1>0, <1>1, <1>2, <1>11, <1>12, <1>14 DEF Once
<1>16. Apart(wk', hand', undo')
  <2>1. ASSUME NEW r, NEW x \in wk'.sweeps, NEW y \in wk'.sweeps,
               r \in ToSet(x.jobs), r \in ToSet(y.jobs)
        PROVE  x = y
    <3>1. x \in wk.sweeps /\ y \in wk.sweeps
      BY <1>3, <1>5, <2>1
    <3> QED
      BY <1>0, <2>1, <3>1 DEF Apart
  <2>2. ASSUME NEW r, NEW v \in Waiters, NEW w \in Waiters,
               r \in ToSet(wk'.slot[v].offer), r \in ToSet(wk'.slot[w].offer)
        PROVE  v = w
    <3>0. ~ (r \in X /\ AtSlot(wk, r))
      BY <1>0, <1>11 DEF Once
    <3>1. \A z \in Waiters : /\ z \in fed => ToSet(wk'.slot[z].offer) \subseteq X
                             /\ z \notin fed /\ r \in ToSet(wk'.slot[z].offer) => AtSlot(wk, r)
      BY <1>2, <1>6, <1>7 DEF AtSlot
    <3>2. CASE v \in fed /\ w \in fed
      BY <1>2, <1>6, <2>2, <3>2
    <3>3. CASE v \notin fed /\ w \notin fed
      BY <1>0, <1>7, <2>2, <3>3 DEF Apart
    <3>4. CASE v \in fed /\ w \notin fed
      BY <2>2, <3>0, <3>1, <3>4
    <3>5. CASE v \notin fed /\ w \in fed
      BY <2>2, <3>0, <3>1, <3>5
    <3> QED
      BY <3>2, <3>3, <3>4, <3>5
  <2>3. \A r : \A x, y \in undo' : r \in x.jobs /\ r \in y.jobs => x = y
    BY <1>0, <1>14 DEF Apart
  <2> QED
    BY <1>0, <1>1, <2>1, <2>2, <2>3 DEF Apart
<1>17. WakerTypeOK'
  BY <1>0, <1>1, <1>3, <1>14 DEF WakerTypeOK, LockInv
<1>18. Swept(wk', hints', row')
  <2> SUFFICES ASSUME NEW t \in wk'.sweeps, t.is = "back", Len(t.jobs) < Clamp * Len(t.batch),
                      ~ wk'.pending[t.queue], t.queue \notin hints, NEW j \in Jobs
               PROVE  ~ LiesIn(row, j, t.queue)
    BY <1>1 DEF Swept
  <2>1. t \in wk.sweeps /\ t # s
    BY <1>3
  <2>2. t.queue \in Queues /\ wk.inFlight[t.queue] /\ t.queue # s.queue
    BY <1>0, <2>1, SweepFields DEF LockInv, SweepsOk, SweepOk
  <2>3. ~ wk.pending[t.queue]
    BY <1>3, <2>2
  <2> QED
    BY <1>0, <2>1, <2>3 DEF Swept
<1>19. AllIdle'
  BY <1>1, <1>3, IdleNext
<1>20. ASSUME NoSweepFails, NEW q \in Queues, q \notin hints', NEW j \in Jobs, LiesIn(row', j, q)
       PROVE  Answered(wk', q)
  <2>1. CASE q # s.queue
    BY <1>1, <1>3, <1>20, <2>1, AllAnsweredFacts
  <2>2. CASE q = s.queue
    <3>1. wk.pending[q] \/ ~ (Len(s.jobs) < Clamp * Len(s.batch))
      BY <1>0, <1>1, <1>20, <2>2 DEF Swept
    <3>2. ~ (Len(s.jobs) < Clamp * Len(s.batch)) => Len(s.jobs) >= Clamp * Len(s.batch)
      BY <1>4, BoundsAssumption
    <3> QED
      BY <1>3, <2>2, <3>1, <3>2
  <2> QED
    BY <2>1, <2>2
<1>21. AllAnswered'
  BY <1>1, <1>20, AnsweredNext
<1> QED
  BY <1>0, <1>1, <1>3, <1>8, <1>9, <1>10, <1>15, <1>16, <1>17, <1>18, <1>19, <1>21 DEF Inv

(* A failed sweep's waiters are all told; those of its queue that are left    *)
(* are busy.                                                                  *)
LEMMA StepFails ==
  ASSUME Inv, NEW s \in wk.sweeps, Complete(s), s.is = "failed"
  PROVE  Inv'
<1>0. /\ WakerTypeOK /\ LockInv(wk, at) /\ Fresh(wk, at) /\ Handlers(wk, at, hand)
      /\ RowsOk(row, made) /\ Once(wk, hand, undo, delivered, returned, made)
      /\ Apart(wk, hand, undo) /\ Looked(wk, at) /\ Swept(wk, hints, row)
      /\ wk \in WakerStates /\ \A q \in Queues : Idle(wk, q)
  BY DEF Inv, LockInv, AllIdle
<1>1. /\ wk' = Fails(wk, s) /\ undo' = undo
      /\ at' = at /\ saw' = saw /\ hand' = hand /\ clock' = clock
      /\ cancel' = cancel /\ live' = live /\ draining' = draining /\ row' = row /\ now' = now
      /\ hints' = hints /\ made' = made /\ delivered' = delivered /\ returned' = returned
  BY DEF Complete, handlerVars, worldVars, tableVars, history
<1>2. /\ LockInv(wk', at)
      /\ wk'.list = wk.list /\ wk'.fifo = wk.fifo /\ wk'.sweeps = wk.sweeps \ {s}
      /\ \A w \in Waiters :
           /\ wk'.slot[w].arrival = wk.slot[w].arrival
           /\ \/ wk'.slot[w].ended = wk.slot[w].ended /\ wk'.slot[w].offer = wk.slot[w].offer
              \/ /\ wk.slot[w].ended = "no" /\ wk'.slot[w].ended = "Offered"
                 /\ wk'.slot[w].offer = <<>> /\ at[w] # "new"
      /\ \A q \in Queues : q # s.queue => wk'.pending[q] = wk.pending[q]
      /\ \A q \in Queues : Idle(wk', q)
      /\ \A q \in Queues : q # s.queue /\ Answered(wk, q) => Answered(wk', q)
      /\ ListLen = 1 => Answered(wk', s.queue)
  BY <1>0, <1>1, FailsFacts
<1>3. "failure" \in Events /\ s.jobs = <<>> /\ s.queue \in Queues
  BY <1>0, SweepFields DEF LockInv, SweepsOk, SweepOk
<1>4. \A w \in Waiters : wk'.slot[w].offer = wk.slot[w].offer
  BY <1>0, <1>2 DEF Handlers
<1>5. Fresh(wk', at') /\ Looked(wk', at')
  BY <1>0, <1>1, <1>2, <1>4 DEF Fresh, Looked
<1>6. Handlers(wk', at', hand')
  BY <1>0, <1>1, <1>2 DEF Handlers
<1>7. ToSet(s.jobs) = {}
  BY <1>3 DEF ToSet
<1>8. Once(wk', hand', undo', delivered', returned', made')
  <2>1. \A r : AtSweep(wk', r) <=> AtSweep(wk, r)
    BY <1>2, <1>7 DEF AtSweep
  <2>2. \A r : AtSlot(wk', r) <=> AtSlot(wk, r)
    BY <1>4 DEF AtSlot
  <2> QED
    BY <1>0, <1>1, <2>1, <2>2 DEF Once
<1>9. Apart(wk', hand', undo')
  BY <1>0, <1>1, <1>2, <1>4 DEF Apart
<1>10. WakerTypeOK'
  BY <1>0, <1>1, <1>2 DEF WakerTypeOK, LockInv
<1>11. Swept(wk', hints', row')
  <2>1. \A t \in wk'.sweeps : t \in wk.sweeps /\ t.queue \in Queues /\ t.queue # s.queue
    BY <1>0, <1>2, SweepFields DEF LockInv, SweepsOk
  <2> QED
    BY <1>0, <1>1, <1>2, <2>1 DEF Swept
<1>12. AllIdle'
  BY <1>1, <1>2, IdleNext
<1>13. ASSUME NoSweepFails, NEW q \in Queues, q \notin hints', NEW j \in Jobs, LiesIn(row', j, q)
       PROVE  Answered(wk', q)
  <2>1. CASE q # s.queue
    BY <1>1, <1>2, <1>13, <2>1, AllAnsweredFacts
  <2>2. CASE q = s.queue
    BY <1>2, <1>3, <1>13, <2>2 DEF NoSweepFails
  <2> QED
    BY <2>1, <2>2
<1>14. AllAnswered'
  BY <1>1, <1>13, AnsweredNext
<1> QED
  BY <1>0, <1>1, <1>2, <1>5, <1>6, <1>8, <1>9, <1>10, <1>11, <1>12, <1>14 DEF Inv

(* Every step keeps the invariant.                                            *)
LEMMA InvNext ==
  ASSUME Inv, [WakerNext]_wakerVars
  PROVE  Inv'
<1>1. CASE UNCHANGED wakerVars
  BY <1>1 DEF wakerVars, handlerVars, worldVars, tableVars, undoVars, history, Inv, WakerTypeOK,
              AllIdle, Idle, Eligible, Owed, AllAnswered, NoSweepFails, Answered, Sought, WasOwed
<1>2. ASSUME NEW w \in Waiters, NEW list \in Lists, Register(w, list) PROVE Inv'
  BY <1>2, StepRegister
<1>3. ASSUME NEW w \in Waiters, HandlerStep(w) PROVE Inv'
  BY <1>3, StepTake, StepVerdict, StepWake, StepDeregister, StepHandOff DEF HandlerStep
<1>4. ASSUME NEW w \in Waiters, Passes(w) \/ SessionEnds(w) \/ Cancel(w) PROVE Inv'
  BY <1>4, StepPasses
<1>5. CASE PollAll
  BY <1>5, StepPollAll
<1>6. ASSUME SweepStep PROVE Inv'
  <2>1. PICK s \in wk.sweeps : SweepRuns(s) \/ SweepFails(s) \/ Complete(s)
    BY <1>6 DEF SweepStep
  <2>2. CASE Complete(s)
    <3>1. s.is = "back" \/ s.is = "failed"
      BY <2>2 DEF Complete
    <3> QED
      BY <2>2, <3>1, StepDelivers, StepFails
  <2> QED
    BY <2>1, <2>2, StepSweepRuns, StepSweepFails
<1>7. ASSUME NEW q \in Queues, Hint(q) PROVE Inv'
  BY <1>7, StepHint
<1>8. ASSUME NEW u \in undo, UnreserveRuns(u) \/ UnreserveGivesUp(u) PROVE Inv'
  BY <1>8, StepUnreserveRuns, StepUnreserveGivesUp
<1>9. ASSUME NEW j \in Jobs, OtherReserves(j) PROVE Inv'
  BY <1>9, StepOtherReserves
<1>10. ASSUME NEW j \in Jobs, NEW q \in Queues, NEW hinted \in BOOLEAN, Arrive(j, q, hinted)
       PROVE  Inv'
  BY <1>10, StepArrive
<1>11. CASE Tick \/ BeginDrain
  BY <1>11, StepTick
<1>12. CASE Quiet
  BY <1>1, <1>12 DEF Quiet
<1> QED
  BY <1>1, <1>2, <1>3, <1>4, <1>5, <1>6, <1>7, <1>8, <1>9, <1>10, <1>11, <1>12 DEF WakerNext

(* The invariant holds in every behaviour.                                    *)
LEMMA WakerInvariant == WakerSpec => []Inv
<1>1. WakerInit => Inv
  BY InvInit
<1>2. Inv /\ [WakerNext]_wakerVars => Inv'
  BY InvNext
<1> QED
  BY <1>1, <1>2, PTL DEF WakerSpec

(* Type correctness of the waker, for any waiters, queues, jobs, limits and   *)
(* bounds.                                                                    *)
THEOREM WakerTypeCorrect == WakerSpec => []WakerTypeOK
<1>1. Inv => WakerTypeOK
  BY DEF Inv
<1> QED
  BY <1>1, WakerInvariant, PTL

(* Whatever ends a waiting RESERVE, the jobs a sweep reserved are in exactly  *)
(* one place: with the sweep, in the slot of a handler that will look, in a   *)
(* handler's hand, in an unreserve, delivered or returned (Waker::complete,   *)
(* Waiter::wait, hand_off_jobs).                                              *)
THEOREM DeliveredXorUnreserved == WakerSpec => []DeliverXorUnreserve
<1>1. Inv => DeliverXorUnreserve
  BY InvDeliver
<1> QED
  BY <1>1, WakerInvariant, PTL

(* A job that was announced never lies beside a waiter of its queue that was  *)
(* owed it and could take it, unless a sweep of the queue runs (Waker::hint,  *)
(* trigger_locked and the follow-ups of complete). Sweeps do not fail, or     *)
(* each waiter names one queue: a failed sweep drops its queue's trigger      *)
(* while waiters busy elsewhere keep waiting.                                 *)
THEOREM HintsNotLost ==
  ASSUME "failure" \notin Events \/ ListLen = 1
  PROVE  WakerSpec => []HintNotLost
<1>1. Inv => HintNotLost
  BY InvHint DEF NoSweepFails
<1> QED
  BY <1>1, WakerInvariant, PTL

=============================================================================
