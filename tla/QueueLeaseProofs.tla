--------------------------- MODULE QueueLeaseProofs ---------------------------
(* Theorems about QueueLease, for any jobs, workers, lease and attempts        *)
(* ceiling: no job is lost or doubled, business writes committed with an ACK   *)
(* are committed once, and a token is good until the deadline its holder was   *)
(* told.                                                                       *)
EXTENDS QueueLease, TLAPS, FiniteSetTheorems

-----------------------------------------------------------------------------
(* The inductive invariant.                                                    *)

Row == [job : Jobs \cup {None}, attempts : 0 .. Ceiling,
        reserved : Times \cup {None}, available : Nat, created : Times]
Verbs == {"ack", "release", "extend"}

TxState == [verb : Verbs \cup {"idle", "rollback"}, id : Ids \cup {0}, new : Row]
Fates == {"no", "queued", "acked", "cleared"}

(* The types a step relies on, what a transaction carries included.            *)
Types ==
  /\ now \in Times /\ nextId \in 1 .. MaxIds + 1
  /\ rows \in [Ids -> Row] /\ locks \in [Ids -> Workers \cup {None}]
  /\ undelivered \subseteq Reservations /\ unreserves \subseteq Reservations
  /\ held \in [Workers -> Reservations \cup {None}]
  /\ unsure \subseteq Workers
  /\ tx \in [Workers -> TxState]
  /\ settled \in [Jobs -> Fates] /\ commits \in [Jobs -> Nat]

(* The table holds a job once while it is queued, and no row ahead of the id   *)
(* sequence.  An ACK inside a transaction has counted once.                    *)
TableInv ==
  /\ \A i \in Ids : Present(i) => i < nextId /\ settled[rows[i].job] = "queued"
  /\ \A i, k \in Ids : Present(i) /\ rows[i].job = rows[k].job => i = k
  /\ \A j \in Jobs : settled[j] = "queued" => \E i \in Ids : rows[i].job = j
  /\ \A j \in Jobs : commits[j] <= 1 /\ (settled[j] # "acked" => commits[j] = 0)

(* Reservations that somebody still has: the engine, an unreserve on its way,  *)
(* a worker.                                                                   *)
Loose == undelivered \cup unreserves
Holds(w) == held[w] # None
Apart(r, s) == r.id # s.id \/ r.attempts # s.attempts

(* A reservation's row is its job's or gone, and has not fewer attempts.  It   *)
(* is not one that a transaction is about to insert.                           *)
TokenFits(r) ==
  /\ r.id < nextId /\ r.at <= now
  /\ Present(r.id) => rows[r.id].job = r.job /\ r.attempts <= rows[r.id].attempts
  /\ Present(r.id) \/ Free(r.id)

(* No two of them fence alike.                                                 *)
TokenInv ==
  /\ undelivered \cap unreserves = {}
  /\ \A r \in Loose : TokenFits(r)
  /\ \A w \in Workers : Holds(w) => TokenFits(held[w])
  /\ \A r, s \in Loose : r # s => Apart(r, s)
  /\ \A r \in Loose, w \in Workers : Holds(w) => Apart(r, held[w])
  /\ \A v, w \in Workers : v # w /\ Holds(v) /\ Holds(w) => Apart(held[v], held[w])

(* A row locked by a transaction is the one its verb names, whose fence still  *)
(* holds, or the one its RELEASE will insert.                                  *)
LockInv ==
  /\ \A i \in Ids : ~ Free(i) =>
       /\ i < nextId /\ tx[locks[i]].verb \in Verbs
       /\ tx[locks[i]].id = i \/ (tx[locks[i]].verb = "release" /\ ~ Present(i))
  /\ \A w \in Workers : tx[w].verb \in Verbs =>
       /\ Holds(w) /\ tx[w].id = held[w].id /\ locks[tx[w].id] = w /\ Fence(held[w])
  /\ \A w \in Workers : tx[w].verb = "release" =>
       /\ tx[w].new.job = held[w].job
       /\ \E n \in Ids : locks[n] = w /\ n # tx[w].id
                         /\ \A i \in Ids : locks[i] = w => i \in {n, tx[w].id}
  /\ \A w \in Workers : tx[w].verb = "extend" =>
       /\ tx[w].new.job = held[w].job
       /\ tx[w].new.attempts = held[w].attempts /\ tx[w].new.created = held[w].created
       /\ tx[w].new.reserved # None
       /\ held[w].at <= tx[w].new.reserved /\ tx[w].new.reserved <= now

(* Until its deadline a reservation is the row's, or its job was cleared.      *)
Leased(r) ==
  now < LeaseDeadline(r) =>
     \/ settled[r.job] = "cleared"
     \/ Fence(r) /\ rows[r.id].reserved # None /\ r.at <= rows[r.id].reserved
LeaseInv ==
  /\ \A r \in undelivered : Leased(r)
  /\ \A w \in Workers : Holds(w) /\ w \notin unsure => Leased(held[w])

IInv == Types /\ TableInv /\ TokenInv /\ LockInv /\ LeaseInv
-----------------------------------------------------------------------------
(* Rows, reservations and what a step may put in a row.                        *)

LEMMA TypesOK == Types => TypeOK
  BY DEF Types, TypeOK, Row, TxState, Verbs, Fates

LEMMA Scalars ==
  ASSUME Types
  PROVE  /\ now \in Nat /\ nextId \in Nat
         /\ \A i \in Ids : i \in Nat
         /\ \A t \in Times : t \in Nat
  BY QueueLeaseAssumption DEF Types, Ids, Times

LEMMA RowFacts ==
  /\ NoRow \in Row /\ NoRow.job = None /\ None \notin Jobs \cup Workers \cup Nat
  /\ \A x \in Row : /\ x.job \in Jobs \cup {None} /\ x.attempts \in Nat /\ x.attempts <= Ceiling
                     /\ x.reserved \in Times \cup {None} /\ x.created \in Times
  BY QueueLeaseAssumption DEF Row, NoRow, Times

LEMMA ReservationFacts ==
  \A r \in Reservations : /\ r.job \in Jobs /\ r.id \in Ids /\ r.attempts \in Nat \ {0}
                          /\ r.created \in Times /\ r.at \in Times
  BY QueueLeaseAssumption DEF Reservations

LEMMA FreshRow ==
  ASSUME Types, NEW job \in Jobs, NEW x \in Row, NEW d \in Delays
  PROVE  /\ Fresh(job, x.attempts, d) \in Row /\ Fresh(job, x.attempts, d).job = job
         /\ Fresh(job, 0, d) \in Row /\ Fresh(job, 0, d).job = job
<1>1. AvailableAt(d) \in Nat
  BY Scalars, QueueLeaseAssumption DEF AvailableAt
<1>2. x.attempts \in 0 .. Ceiling /\ 0 \in 0 .. Ceiling
  BY QueueLeaseAssumption DEF Row
<1>. QED
  BY <1>1, <1>2 DEF Fresh, Row, Types

-----------------------------------------------------------------------------
(* What the operations do, field by field.                                     *)

Only(i) == \A k \in Ids : k # i => rows'[k] = rows[k]

LEMMA ReserveDoes ==
  ASSUME Types, Reserve
  PROVE  \E i \in Ids :
           /\ Reservable(i)
           /\ Only(i) /\ rows' \in [Ids -> Row]
           /\ rows'[i].job = rows[i].job /\ rows'[i].created = rows[i].created
           /\ rows'[i].attempts = rows[i].attempts + 1 /\ rows'[i].reserved = now
           /\ \E r \in Reservations :
                /\ undelivered' = undelivered \cup {r}
                /\ r.job = rows[i].job /\ r.id = i /\ r.attempts = rows[i].attempts + 1
                /\ r.created = rows[i].created /\ r.at = now
<1>1. PICK i \in Ids :
         /\ Reservable(i)
         /\ Put(i, [rows[i] EXCEPT !.reserved = now, !.attempts = @ + 1])
         /\ undelivered' = undelivered \cup
              {[job |-> rows[i].job, id |-> i, attempts |-> rows[i].attempts + 1,
                created |-> rows[i].created, at |-> now]}
  BY DEF Reserve
<1>2. /\ rows[i] \in Row /\ rows[i].attempts + 1 \in 0 .. Ceiling /\ now \in Times \cup {None}
      /\ rows[i].job \in Jobs /\ rows[i].attempts + 1 \in 1 .. Ceiling /\ rows[i].created \in Times
  BY <1>1, RowFacts, QueueLeaseAssumption DEF Reservable, Present, Types
<1>a. PICK y : y = [rows[i] EXCEPT !.reserved = now, !.attempts = rows[i].attempts + 1]
  OBVIOUS
<1>. DEFINE r == [job |-> rows[i].job, id |-> i, attempts |-> rows[i].attempts + 1,
                 created |-> rows[i].created, at |-> now]
<1>3. /\ y \in Row /\ y.job = rows[i].job /\ y.created = rows[i].created
      /\ y.attempts = rows[i].attempts + 1 /\ y.reserved = now
  BY <1>2, <1>a DEF Row
<1>4. r \in Reservations
  BY <1>2 DEF Reservations, Types
<1>5. rows' = [rows EXCEPT ![i] = y]
  BY <1>1, <1>a DEF Put
<1>6. Only(i) /\ rows' \in [Ids -> Row] /\ rows'[i] = y
  BY <1>3, <1>5 DEF Only, Types
<1>7. undelivered' = undelivered \cup {r}
  BY <1>1
<1>. QED
  BY <1>1, <1>3, <1>4, <1>6, <1>7

LEMMA UnreserveDoes ==
  ASSUME Types, NEW r \in unreserves, Unreserve(r), rows' # rows
  PROVE  /\ Fence(r) /\ rows[r.id].reserved = r.at /\ Free(r.id)
         /\ Only(r.id) /\ rows' \in [Ids -> Row]
         /\ rows'[r.id].job = rows[r.id].job /\ rows'[r.id].attempts = r.attempts - 1
<1>1. /\ Fence(r) /\ rows[r.id].reserved = r.at /\ Free(r.id)
      /\ rows' = [rows EXCEPT ![r.id] = [rows[r.id] EXCEPT !.reserved = None, !.attempts = @ - 1]]
  BY DEF Unreserve, Put
<1>2. r.id \in Ids /\ rows[r.id] \in Row /\ rows[r.id].attempts = r.attempts
      /\ rows[r.id].attempts - 1 \in 0 .. Ceiling
  BY <1>1, ReservationFacts, RowFacts, QueueLeaseAssumption DEF Types, Fence
<1>a. PICK y : y = [rows[r.id] EXCEPT !.reserved = None, !.attempts = rows[r.id].attempts - 1]
  OBVIOUS
<1>3. y \in Row /\ y.job = rows[r.id].job /\ y.attempts = rows[r.id].attempts - 1
  BY <1>2, <1>a DEF Row
<1>4. rows' = [rows EXCEPT ![r.id] = y]
  BY <1>1, <1>a
<1>5. Only(r.id) /\ rows' \in [Ids -> Row] /\ rows'[r.id] = y
  BY <1>2, <1>3, <1>4 DEF Only, Types
<1>. QED
  BY <1>1, <1>2, <1>3, <1>5

-----------------------------------------------------------------------------
(* What is enough to keep each part.                                           *)

(* No row changes its job.                                                     *)
LEMMA TableKeep ==
  ASSUME Types, Types', TableInv, \A k \in Ids : rows'[k].job = rows[k].job,
         nextId <= nextId', UNCHANGED <<settled, commits>>
  PROVE  TableInv'
<1>1. \A i \in Ids : Present(i)' => i < nextId' /\ settled'[rows'[i].job] = "queued"
  <2>1. nextId \in Nat /\ nextId' \in Nat /\ \A i \in Ids : i \in Nat
    BY Scalars DEF Types
  <2>. QED
    BY <2>1 DEF TableInv, Present
<1>. QED
  BY <1>1 DEF TableInv, Present

(* A present row goes, and its job is acknowledged.                            *)
LEMMA TableRemove ==
  ASSUME Types, Types', TableInv, NEW i \in Ids, Present(i), Only(i), rows'[i] = NoRow,
         nextId' = nextId, settled' = [settled EXCEPT ![rows[i].job] = "acked"],
         \/ commits' = commits
         \/ commits' = [commits EXCEPT ![rows[i].job] = @ + 1]
  PROVE  TableInv'
<1>1. rows[i].job \in Jobs /\ rows'[i].job = None /\ None \notin Jobs
  BY RowFacts DEF Types, Present
<1>2. \A k \in Ids : k # i => rows'[k].job = rows[k].job /\ rows[k].job # rows[i].job
  BY DEF Only, TableInv, Present
<1>3. \A k \in Ids : Present(k)' => k # i /\ k < nextId' /\ settled'[rows'[k].job] = "queued"
  BY <1>1, <1>2, RowFacts DEF Present, TableInv, Types
<1>4. \A k, l \in Ids : Present(k)' /\ rows'[k].job = rows'[l].job => k = l
  BY <1>1, <1>2, <1>3 DEF Present, TableInv
<1>5. \A j \in Jobs : settled'[j] = "queued" => \E k \in Ids : rows'[k].job = j
  <2>1. SUFFICES ASSUME NEW j \in Jobs, settled'[j] = "queued" PROVE \E k \in Ids : rows'[k].job = j
    OBVIOUS
  <2>2. j # rows[i].job /\ settled[j] = "queued"
    BY <1>1, <2>1 DEF Types
  <2>3. PICK k \in Ids : rows[k].job = j
    BY <2>2 DEF TableInv
  <2>. QED
    BY <1>2, <2>2, <2>3
<1>6. \A j \in Jobs : commits'[j] <= 1 /\ (settled'[j] # "acked" => commits'[j] = 0)
  <2>1. commits[rows[i].job] = 0
    BY <1>1 DEF TableInv, Present
  <2>. QED
    BY <1>1, <2>1 DEF TableInv, Types
<1>. QED
  BY <1>3, <1>4, <1>5, <1>6 DEF TableInv

(* A present row goes and its job comes back under another id.                 *)
LEMMA TableMove ==
  ASSUME Types, Types', TableInv, NEW i \in Ids, Present(i), NEW n \in Ids, n # i, ~ Present(n),
         \A k \in Ids : k \notin {i, n} => rows'[k] = rows[k],
         rows'[i] = NoRow, rows'[n].job = rows[i].job,
         n < nextId', nextId <= nextId', UNCHANGED <<settled, commits>>
  PROVE  TableInv'
<1>1. rows[i].job \in Jobs /\ rows'[i].job = None /\ None \notin Jobs /\ settled[rows[i].job] = "queued"
  BY RowFacts DEF Types, Present, TableInv
<1>2. \A k \in Ids : k \notin {i, n} => rows'[k].job = rows[k].job /\ rows[k].job # rows[i].job
  BY DEF TableInv, Present
<1>3. \A k \in Ids : Present(k)' => k # i /\ k < nextId' /\ settled'[rows'[k].job] = "queued"
  BY <1>1, <1>2, Scalars DEF Present, TableInv, Types
<1>4. \A k, l \in Ids : Present(k)' /\ rows'[k].job = rows'[l].job => k = l
  BY <1>1, <1>2, <1>3 DEF Present, TableInv
<1>5. \A j \in Jobs : settled'[j] = "queued" => \E k \in Ids : rows'[k].job = j
  <2>1. SUFFICES ASSUME NEW j \in Jobs, settled'[j] = "queued" PROVE \E k \in Ids : rows'[k].job = j
    OBVIOUS
  <2>2. CASE j = rows[i].job
    BY <2>2
  <2>3. CASE j # rows[i].job
    <3>1. PICK k \in Ids : rows[k].job = j
      BY <2>1 DEF TableInv
    <3>2. k \notin {i, n}
      BY <1>1, <2>3, <3>1 DEF Present
    <3>. QED
      BY <1>2, <3>1, <3>2
  <2>. QED
    BY <2>2, <2>3
<1>. QED
  BY <1>3, <1>4, <1>5 DEF TableInv

(* Every token of the new state was one before, and its row still fits it.     *)
SameToken(r, s) == r.id = s.id /\ r.attempts = s.attempts /\ r.job = s.job
RowStays(i) ==
  i < nextId /\ (Present(i) \/ Free(i)) =>
    /\ Present(i)' => Present(i) /\ rows'[i].job = rows[i].job
                      /\ rows[i].attempts <= rows'[i].attempts
    /\ Present(i)' \/ Free(i)'

LEMMA TokenKeep ==
  ASSUME Types, Types', TokenInv, Loose' \subseteq Loose, undelivered' \cap unreserves' = {},
         \A w \in Workers : Holds(w)' => /\ Holds(w) /\ SameToken(held'[w], held[w])
                                         /\ held'[w].at <= now',
         now <= now', nextId <= nextId', \A i \in Ids : RowStays(i)
  PROVE  TokenInv'
<1>1. ASSUME NEW r \in Reservations, TokenFits(r), NEW s \in Reservations, SameToken(s, r), s.at <= now'
      PROVE  TokenFits(s)'
  <2>1. /\ r.id \in Ids /\ r.id \in Nat /\ r.attempts \in Nat /\ rows[r.id].attempts \in Nat
        /\ rows'[r.id].attempts \in Nat /\ nextId \in Nat /\ nextId' \in Nat
    BY ReservationFacts, RowFacts, Scalars DEF Types
  <2>2. RowStays(r.id)
    BY <2>1
  <2>. QED
    BY <1>1, <2>1, <2>2 DEF TokenFits, SameToken, RowStays
<1>2. \A r \in Loose' : TokenFits(r)'
  <2>1. SUFFICES ASSUME NEW r \in Loose' PROVE TokenFits(r)'
    OBVIOUS
  <2>2. r \in Loose /\ r \in Reservations /\ TokenFits(r) /\ SameToken(r, r)
    BY DEF TokenInv, Loose, Types, SameToken
  <2>3. r.at <= now'
    BY <2>2, Scalars, ReservationFacts DEF TokenFits, Types
  <2>. QED
    BY <1>1, <2>2, <2>3
<1>3. \A w \in Workers : Holds(w)' => TokenFits(held[w])'
  <2>1. SUFFICES ASSUME NEW w \in Workers, Holds(w)' PROVE TokenFits(held[w])'
    OBVIOUS
  <2>2. held[w] \in Reservations /\ held'[w] \in Reservations /\ TokenFits(held[w])
    BY <2>1 DEF TokenInv, Types, Holds
  <2>3. PICK s \in Reservations : s = held'[w]
    BY <2>2
  <2>4. TokenFits(s)'
    BY <1>1, <2>1, <2>2, <2>3
  <2>. QED
    BY <2>3, <2>4 DEF TokenFits, Present, Free
<1>4. /\ \A r, s \in Loose' : r # s => Apart(r, s)
      /\ \A r \in Loose', w \in Workers : Holds(w)' => Apart(r, held'[w])
      /\ \A v, w \in Workers : v # w /\ Holds(v)' /\ Holds(w)' => Apart(held'[v], held'[w])
  BY DEF TokenInv, Apart, SameToken
<1>. QED
  BY <1>2, <1>3, <1>4 DEF TokenInv, Apart

(* No lock and no transaction changes, nor a locked row nor its holder.        *)
LEMMA LockKeep ==
  ASSUME Types, Types', LockInv, UNCHANGED <<tx, locks>>, now <= now', nextId <= nextId',
         \A w \in Workers : tx[w].verb \in Verbs => held'[w] = held[w],
         \A i \in Ids : ~ Free(i) => rows'[i] = rows[i]
  PROVE  LockInv'
<1>1. /\ now \in Nat /\ now' \in Nat /\ nextId \in Nat /\ nextId' \in Nat
      /\ (\A i \in Ids : i \in Nat) /\ (\A t \in Times : t \in Nat)
  BY Scalars DEF Types
<1>2. \A i \in Ids : ~ Free(i)' =>
         /\ i < nextId' /\ tx'[locks'[i]].verb \in Verbs
         /\ tx'[locks'[i]].id = i \/ (tx'[locks'[i]].verb = "release" /\ ~ Present(i)')
  BY <1>1 DEF LockInv, Free, Present
<1>3. \A w \in Workers : tx'[w].verb \in Verbs =>
         /\ Holds(w)' /\ tx'[w].id = held'[w].id /\ locks'[tx'[w].id] = w /\ Fence(held[w])'
  <2>1. SUFFICES ASSUME NEW w \in Workers, tx[w].verb \in Verbs
                 PROVE  Holds(w) /\ tx[w].id = held[w].id /\ locks[tx[w].id] = w /\ Fence(held[w])'
    BY DEF Holds
  <2>2. Holds(w) /\ tx[w].id = held[w].id /\ locks[tx[w].id] = w /\ Fence(held[w])
    BY <2>1 DEF LockInv
  <2>3. held[w].id \in Ids /\ ~ Free(held[w].id)
    BY <2>2, ReservationFacts, QueueLeaseAssumption DEF Holds, Types, Free
  <2>. QED
    BY <2>1, <2>2, <2>3 DEF Fence, Present
<1>4. \A w \in Workers : tx'[w].verb = "release" =>
         /\ tx'[w].new.job = held'[w].job
         /\ \E n \in Ids : locks'[n] = w /\ n # tx'[w].id
                           /\ \A i \in Ids : locks'[i] = w => i \in {n, tx'[w].id}
  BY DEF LockInv, Verbs
<1>5. \A w \in Workers : tx'[w].verb = "extend" =>
         /\ tx'[w].new.job = held'[w].job
         /\ tx'[w].new.attempts = held'[w].attempts /\ tx'[w].new.created = held'[w].created
         /\ tx'[w].new.reserved # None
         /\ held'[w].at <= tx'[w].new.reserved /\ tx'[w].new.reserved <= now'
  <2>1. \A w \in Workers : tx[w].new.reserved \in Times \cup {None}
    BY RowFacts DEF Types, TxState
  <2>. QED
    <3>1. SUFFICES ASSUME NEW w \in Workers, tx[w].verb = "extend"
                   PROVE  /\ tx[w].new.job = held[w].job
                          /\ tx[w].new.attempts = held[w].attempts
                          /\ tx[w].new.created = held[w].created
                          /\ tx[w].new.reserved # None
                          /\ held[w].at <= tx[w].new.reserved /\ tx[w].new.reserved <= now'
      BY DEF Verbs
    <3>. QED
      <4>1. held[w].at <= tx[w].new.reserved /\ tx[w].new.reserved \in Nat /\ tx[w].new.reserved <= now
        BY <1>1, <2>1, <3>1 DEF LockInv
      <4>2. tx[w].new.reserved <= now'
        BY <1>1, <4>1
      <4>. QED
        BY <3>1, <4>1, <4>2 DEF LockInv
<1>. QED
  BY <1>2, <1>3, <1>4, <1>5 DEF LockInv

(* A row that is leased is left alone, or its job is cleared.                  *)
LEMMA LeaseKeep ==
  ASSUME Types, Types', LeaseInv, now <= now',
         \A j \in Jobs : settled[j] = "cleared" => settled'[j] = "cleared",
         undelivered' \subseteq undelivered,
         \A w \in Workers : Holds(w)' /\ w \notin unsure' =>
            Holds(w) /\ w \notin unsure /\ held'[w] = held[w],
         \A r \in Reservations :
            /\ r \in undelivered' \/ \E w \in Workers : Holds(w)' /\ w \notin unsure' /\ held[w] = r
            /\ Fence(r) /\ rows[r.id].reserved # None /\ r.at <= rows[r.id].reserved
            /\ now < LeaseDeadline(r)
            => rows'[r.id] = rows[r.id] \/ settled'[r.job] = "cleared"
  PROVE  LeaseInv'
<1>1. ASSUME NEW r \in Reservations, Leased(r),
             r \in undelivered' \/ \E w \in Workers : Holds(w)' /\ w \notin unsure' /\ held[w] = r
      PROVE  Leased(r)'
  <2>1. SUFFICES ASSUME now' < LeaseDeadline(r), settled[r.job] # "cleared"
                 PROVE  \/ settled'[r.job] = "cleared"
                        \/ Fence(r)' /\ rows'[r.id].reserved # None /\ r.at <= rows'[r.id].reserved
    BY ReservationFacts DEF Leased, LeaseDeadline
  <2>2. now < LeaseDeadline(r)
    BY <2>1, Scalars, ReservationFacts, QueueLeaseAssumption DEF LeaseDeadline, Types
  <2>. QED
    BY <1>1, <2>1, <2>2 DEF Leased, Fence, Present
<1>2. \A r \in undelivered' : Leased(r)'
  BY <1>1 DEF LeaseInv, Types
<1>3. \A w \in Workers : Holds(w)' /\ w \notin unsure' => Leased(held[w])'
  <2>1. SUFFICES ASSUME NEW w \in Workers, Holds(w)', w \notin unsure' PROVE Leased(held[w])'
    OBVIOUS
  <2>2. PICK r \in Reservations : r = held[w] /\ r = held'[w]
    BY <2>1 DEF Holds, Types
  <2>3. Leased(r)'
    BY <1>1, <2>1, <2>2 DEF LeaseInv
  <2>. QED
    BY <2>2, <2>3 DEF Leased, Fence, Present, LeaseDeadline
<1>. QED
  BY <1>2, <1>3 DEF LeaseInv

-----------------------------------------------------------------------------
(* The steps that leave the table alone.                                       *)

LEMMA RowsStay ==
  ASSUME Types, UNCHANGED <<rows, locks>>, NEW i \in Ids
  PROVE  RowStays(i)
  BY RowFacts DEF RowStays, Present, Free, Types

LEMMA Quiet ==
  ASSUME IInv, Types', UNCHANGED <<rows, nextId, locks, tx, settled, commits>>, now <= now',
         Loose' \subseteq Loose, undelivered' \cap unreserves' = {}, undelivered' \subseteq undelivered,
         \A w \in Workers : held'[w] = held[w] \/ (held'[w] = None /\ tx[w].verb \notin Verbs),
         \A w \in Workers : Holds(w)' /\ w \notin unsure' => w \notin unsure
  PROVE  IInv'
<1>. USE DEF IInv
<1>1. nextId <= nextId' /\ nextId' \in Nat
  BY Scalars
<1>2. TableInv'
  BY <1>1, TableKeep
<1>3. TokenInv'
  <2>1. \A w \in Workers : Holds(w)' => Holds(w) /\ SameToken(held'[w], held[w])
                                        /\ held'[w].at <= now'
    <3>1. SUFFICES ASSUME NEW w \in Workers, Holds(w)' PROVE Holds(w) /\ held'[w] = held[w] /\ held[w].at <= now'
      BY DEF SameToken
    <3>2. held'[w] = held[w] /\ Holds(w) /\ held[w] \in Reservations /\ TokenFits(held[w])
      BY <3>1 DEF Holds, Types, TokenInv
    <3>3. held[w].at <= now /\ held[w].at \in Nat /\ now \in Nat /\ now' \in Nat
      BY <3>2, ReservationFacts, Scalars DEF TokenFits, Types
    <3>. QED
      BY <3>2, <3>3
  <2>. QED
    BY <1>1, <2>1, RowsStay, TokenKeep
<1>4. LockInv'
  BY <1>1, LockKeep
<1>5. LeaseInv'
  BY LeaseKeep DEF Holds
<1>. QED
  BY <1>2, <1>3, <1>4, <1>5

LEMMA TickStep ==
  ASSUME IInv, Tick
  PROVE  IInv'
<1>1. Types' /\ now <= now'
  BY QueueLeaseAssumption DEF IInv, Types, Tick, table, history, Times
<1>2. UNCHANGED <<rows, nextId, locks, tx, settled, commits, held, unsure, undelivered, unreserves>>
  BY DEF Tick, table, history
<1>. QED
  BY <1>1, <1>2, Quiet DEF Loose, Holds, IInv, TokenInv

LEMMA SendUnreserveStep ==
  ASSUME IInv, NEW r \in undelivered, SendUnreserve(r)
  PROVE  IInv'
<1>1. Types' /\ now <= now'
  BY Scalars DEF IInv, Types, SendUnreserve, table, history
<1>. QED
  BY <1>1, Quiet DEF IInv, TokenInv, SendUnreserve, Loose, Holds, table, history

LEMMA ForgetStep ==
  ASSUME IInv, NEW r \in undelivered \cup unreserves, Forget(r)
  PROVE  IInv'
<1>1. Types' /\ now <= now'
  BY Scalars DEF IInv, Types, Forget, table, history
<1>. QED
  BY <1>1, Quiet DEF IInv, TokenInv, Forget, Loose, Holds, table, history

LEMMA AbandonStep ==
  ASSUME IInv, NEW w \in Workers, Abandon(w)
  PROVE  IInv'
<1>1. Types' /\ now <= now'
  BY Scalars DEF IInv, Types, Abandon, table, history
<1>2. tx[w].verb \notin Verbs
  BY DEF Abandon, Idle, Verbs
<1>3. \A v \in Workers : held'[v] = held[v] \/ (held'[v] = None /\ tx[v].verb \notin Verbs)
  BY <1>2 DEF Abandon, IInv, Types
<1>4. \A v \in Workers : Holds(v)' /\ v \notin unsure' => v \notin unsure
  BY DEF Abandon, Holds, IInv, Types
<1>. QED
  BY <1>1, <1>3, <1>4, Quiet DEF IInv, TokenInv, Abandon, Loose, table, history

(* A reservation passes from the engine to a worker.                           *)
LEMMA DeliverStep ==
  ASSUME IInv, NEW r \in undelivered, NEW w \in Workers, Deliver(w, r)
  PROVE  IInv'
<1>. USE DEF IInv
<1>1. Types' /\ now <= now' /\ nextId <= nextId'
  BY Scalars DEF Types, Deliver, table, history
<1>2. /\ UNCHANGED <<rows, nextId, locks, tx, settled, commits, unsure, unreserves, now>>
      /\ undelivered' = undelivered \ {r} /\ r \in Reservations /\ r \in Loose /\ r \notin unreserves
      /\ held' = [held EXCEPT ![w] = r] /\ held[w] = None /\ tx[w].verb \notin Verbs
  BY DEF Deliver, table, history, Types, Loose, TokenInv, Idle, Verbs
<1>3. TableInv'
  BY <1>1, <1>2, TableKeep
<1>4. held'[w] = r /\ \A v \in Workers : v # w => held'[v] = held[v]
  BY <1>2 DEF Types
<1>5. TokenInv'
  <2>1. \A s \in Reservations : TokenFits(s) => TokenFits(s)'
    BY <1>2 DEF TokenFits, Present, Free
  <2>2. Loose' \subseteq Loose /\ r \notin Loose' /\ undelivered' \cap unreserves' = {}
    BY <1>2 DEF Loose, TokenInv
  <2>3. \A s \in Loose' : TokenFits(s)'
    BY <2>1, <2>2 DEF TokenInv, Loose, Types
  <2>4. ASSUME NEW v \in Workers, Holds(v)' PROVE TokenFits(held[v])'
    <3>1. PICK s \in Reservations : s = held'[v] /\ TokenFits(s)
      BY <1>2, <1>4, <2>4 DEF Holds, TokenInv, Types
    <3>2. TokenFits(s)'
      BY <2>1, <3>1
    <3>. QED
      BY <3>1, <3>2 DEF TokenFits, Present, Free
  <2>5. \A s \in Loose', v \in Workers : Holds(v)' => Apart(s, held'[v])
    BY <1>2, <1>4, <2>2 DEF TokenInv, Holds
  <2>6. \A u, v \in Workers : u # v /\ Holds(u)' /\ Holds(v)' => Apart(held'[u], held'[v])
    BY <1>2, <1>4 DEF TokenInv, Holds, Apart
  <2>7. \A s, t \in Loose' : s # t => Apart(s, t)
    BY <2>2 DEF TokenInv
  <2>. QED
    BY <2>2, <2>3, <2>4, <2>5, <2>6, <2>7 DEF TokenInv, Apart
<1>6. LockInv'
  BY <1>1, <1>2, <1>4, LockKeep
<1>7. LeaseInv'
  <2>1. \A s \in Reservations : Leased(s) => Leased(s)'
    BY <1>2 DEF Leased, LeaseDeadline, Fence, Present
  <2>2. \A s \in undelivered' : Leased(s)'
    BY <1>2, <2>1 DEF LeaseInv, Types
  <2>3. ASSUME NEW v \in Workers, Holds(v)', v \notin unsure' PROVE Leased(held[v])'
    <3>1. PICK s \in Reservations : s = held'[v] /\ Leased(s)
      BY <1>2, <1>4, <2>3 DEF Holds, LeaseInv, Types
    <3>2. Leased(s)'
      BY <2>1, <3>1
    <3>. QED
      BY <3>1, <3>2 DEF Leased, LeaseDeadline, Fence, Present
  <2>. QED
    BY <2>2, <2>3 DEF LeaseInv
<1>. QED
  BY <1>1, <1>3, <1>5, <1>6, <1>7

-----------------------------------------------------------------------------
(* ENQUEUE, RESERVE, the unreserve and CLEAR.                                  *)

LEMMA EnqueueStep ==
  ASSUME IInv, NEW j \in Jobs, NEW d \in Delays, Enqueue(j, d)
  PROVE  IInv'
<1>. USE DEF IInv
<1>1. /\ UNCHANGED <<now, locks, undelivered, unreserves, held, unsure, tx, commits>>
      /\ settled[j] = "no" /\ settled' = [settled EXCEPT ![j] = "queued"] /\ nextId' = nextId + 1
      /\ nextId \in Ids /\ nextId \in Nat
  BY Scalars, QueueLeaseAssumption DEF Enqueue, Types, Ids
<1>2. PICK y \in Row : y.job = j /\ rows' = [rows EXCEPT ![nextId] = y]
  BY FreshRow, RowFacts DEF Enqueue, Put
<1>3. Only(nextId) /\ rows'[nextId] = y
  BY <1>1, <1>2 DEF Only, Types
<1>4. Types' /\ now <= now' /\ nextId <= nextId'
  BY <1>1, <1>2, Scalars, QueueLeaseAssumption DEF Types, Ids, Fates
<1>5. ~ Present(nextId) /\ Free(nextId)
  BY <1>1 DEF TableInv, LockInv
<1>6. TableInv'
  <2>1. \A k \in Ids : k # nextId => rows'[k].job = rows[k].job /\ rows[k].job # j
    BY <1>1, <1>3, RowFacts DEF Only, TableInv, Present
  <2>2. \A k \in Ids : Present(k)' => k < nextId' /\ settled'[rows'[k].job] = "queued"
    <3>1. SUFFICES ASSUME NEW k \in Ids, Present(k)' PROVE k < nextId' /\ settled'[rows'[k].job] = "queued"
      OBVIOUS
    <3>2. CASE k = nextId
      BY <1>1, <1>2, <1>3, <3>2 DEF Types
    <3>3. CASE k # nextId
      <4>1. Present(k) /\ rows[k].job \in Jobs /\ rows'[k].job = rows[k].job /\ rows[k].job # j
        BY <2>1, <3>1, <3>3, RowFacts DEF Present, Types
      <4>2. k < nextId /\ settled[rows[k].job] = "queued" /\ k \in Nat
        BY <4>1, Scalars DEF TableInv
      <4>. QED
        BY <1>1, <4>1, <4>2 DEF Types
    <3>. QED
      BY <3>2, <3>3
  <2>3. \A k, l \in Ids : Present(k)' /\ rows'[k].job = rows'[l].job => k = l
    BY <1>2, <1>3, <2>1, RowFacts DEF TableInv, Present
  <2>4. \A i \in Jobs : settled'[i] = "queued" => \E k \in Ids : rows'[k].job = i
    <3>1. SUFFICES ASSUME NEW i \in Jobs, settled'[i] = "queued" PROVE \E k \in Ids : rows'[k].job = i
      OBVIOUS
    <3>2. CASE i = j
      BY <1>1, <1>2, <1>3, <3>2
    <3>3. CASE i # j
      <4>1. PICK k \in Ids : rows[k].job = i
        BY <1>1, <3>1, <3>3 DEF TableInv, Types
      <4>2. k # nextId
        BY <1>5, <4>1, RowFacts DEF Present
      <4>. QED
        BY <2>1, <4>1, <4>2
    <3>. QED
      BY <3>2, <3>3
  <2>5. \A i \in Jobs : commits'[i] <= 1 /\ (settled'[i] # "acked" => commits'[i] = 0)
    BY <1>1 DEF TableInv, Types
  <2>. QED
    BY <2>2, <2>3, <2>4, <2>5 DEF TableInv
<1>7. TokenInv'
  <2>1. \A i \in Ids : RowStays(i)
    BY <1>1, <1>3, RowFacts DEF RowStays, Only, Present, Free, Types
  <2>2. \A w \in Workers : Holds(w)' => Holds(w) /\ SameToken(held'[w], held[w]) /\ held'[w].at <= now'
    BY <1>1 DEF Holds, SameToken, TokenInv, TokenFits
  <2>. QED
    BY <1>1, <1>4, <2>1, <2>2, TokenKeep DEF Loose, TokenInv
<1>8. LockInv'
  BY <1>1, <1>3, <1>4, <1>5, LockKeep DEF Only
<1>9. LeaseInv'
  BY <1>1, <1>3, <1>4, <1>5, LeaseKeep, ReservationFacts DEF Only, Fence, Holds, Types
<1>. QED
  BY <1>4, <1>6, <1>7, <1>8, <1>9

(* A new reservation has more attempts than any that is still about.           *)
LEMMA ReserveStep ==
  ASSUME IInv, Reserve
  PROVE  IInv'
<1>. USE DEF IInv
<1>1. UNCHANGED <<now, nextId, locks, unreserves, held, unsure, tx, settled, commits>>
  BY DEF Reserve, history
<1>2. PICK i \in Ids :
           /\ Reservable(i)
           /\ Only(i) /\ rows' \in [Ids -> Row]
           /\ rows'[i].job = rows[i].job /\ rows'[i].created = rows[i].created
           /\ rows'[i].attempts = rows[i].attempts + 1 /\ rows'[i].reserved = now
           /\ \E r \in Reservations :
                /\ undelivered' = undelivered \cup {r}
                /\ r.job = rows[i].job /\ r.id = i /\ r.attempts = rows[i].attempts + 1
                /\ r.created = rows[i].created /\ r.at = now
  BY ReserveDoes
<1>3. PICK r \in Reservations :
         /\ undelivered' = undelivered \cup {r}
         /\ r.job = rows[i].job /\ r.id = i /\ r.attempts = rows[i].attempts + 1
         /\ r.created = rows[i].created /\ r.at = now
  BY <1>2
<1>4. Types' /\ now <= now' /\ nextId <= nextId'
  BY <1>1, <1>2, <1>3, Scalars DEF Types
<1>5. Present(i) /\ Free(i) /\ i < nextId /\ rows[i].attempts \in Nat /\ now \in Nat /\ i \in Nat
  BY <1>2, RowFacts, Scalars DEF Reservable, TableInv, Types
<1>6. TableInv'
  BY <1>1, <1>2, <1>4, TableKeep DEF Only
<1>7. TokenInv'
  <2>1. \A s \in Reservations : TokenFits(s) => TokenFits(s)'
    <3>1. SUFFICES ASSUME NEW s \in Reservations, TokenFits(s) PROVE TokenFits(s)'
      OBVIOUS
    <3>2. s.id \in Ids /\ s.attempts \in Nat
      BY ReservationFacts
    <3>3. CASE s.id = i
      BY <1>1, <1>2, <1>5, <3>1, <3>2, <3>3 DEF TokenFits, Present, Free
    <3>4. CASE s.id # i
      BY <1>1, <1>2, <3>1, <3>2, <3>4 DEF TokenFits, Present, Free, Only
    <3>. QED
      BY <3>3, <3>4
  <2>2. TokenFits(r)'
    BY <1>1, <1>2, <1>3, <1>5 DEF TokenFits, Present
  <2>3. \A s \in Reservations : TokenFits(s) => Apart(s, r)
    <3>1. SUFFICES ASSUME NEW s \in Reservations, TokenFits(s), s.id = i PROVE s.attempts # r.attempts
      BY <1>3 DEF Apart
    <3>. QED
      BY <1>3, <1>5, <3>1, ReservationFacts DEF TokenFits
  <2>4. \A s \in Loose : s \in Reservations /\ TokenFits(s)
    BY DEF Loose, Types, TokenInv
  <2>5. r \notin Loose /\ Loose' = Loose \cup {r} /\ undelivered' \cap unreserves' = {}
    <3>1. ~ Apart(r, r)
      BY DEF Apart
    <3>2. r \notin Loose
      BY <2>3, <2>4, <3>1
    <3>. QED
      BY <1>1, <1>3, <3>2 DEF Loose, TokenInv
  <2>6. \A w \in Workers : Holds(w)' => Holds(w) /\ held'[w] = held[w] /\ held[w] \in Reservations
                                        /\ TokenFits(held[w])
    BY <1>1 DEF Holds, Types, TokenInv
  <2>7. \A s \in Loose' : TokenFits(s)'
    BY <2>1, <2>2, <2>4, <2>5
  <2>8. ASSUME NEW w \in Workers, Holds(w)' PROVE TokenFits(held[w])'
    <3>1. PICK s \in Reservations : s = held'[w] /\ TokenFits(s)
      BY <2>6, <2>8
    <3>2. TokenFits(s)'
      BY <2>1, <3>1
    <3>. QED
      BY <3>1, <3>2 DEF TokenFits, Present, Free
  <2>9. \A s, t \in Loose' : s # t => Apart(s, t)
    BY <2>3, <2>4, <2>5 DEF TokenInv, Apart
  <2>10. \A s \in Loose', w \in Workers : Holds(w)' => Apart(s, held'[w])
    BY <2>3, <2>5, <2>6 DEF TokenInv, Apart
  <2>11. \A v, w \in Workers : v # w /\ Holds(v)' /\ Holds(w)' => Apart(held'[v], held'[w])
    BY <2>6 DEF TokenInv
  <2>. QED
    BY <2>5, <2>7, <2>8, <2>9, <2>10, <2>11 DEF TokenInv, Apart
<1>8. LockInv'
  BY <1>1, <1>2, <1>4, <1>5, LockKeep DEF Only
<1>9. LeaseInv'
  <2>1. ASSUME NEW s \in Reservations, Leased(s) PROVE Leased(s)'
    <3>1. SUFFICES ASSUME now < LeaseDeadline(s), settled[s.job] # "cleared"
                   PROVE  Fence(s)' /\ rows'[s.id].reserved # None /\ s.at <= rows'[s.id].reserved
      BY <1>1 DEF Leased, LeaseDeadline
    <3>2. Fence(s) /\ rows[s.id].reserved # None /\ s.at <= rows[s.id].reserved
      BY <2>1, <3>1 DEF Leased
    <3>3. s.id # i
      <4>1. CASE s.id = i
        <5>1. rows[i].reserved \in Nat /\ s.at \in Nat /\ rows[i].reserved < now - LeaseS
          BY <1>2, <3>2, <4>1, RowFacts, ReservationFacts, Scalars DEF Reservable, Types
        <5>. QED
          BY <1>5, <3>1, <3>2, <4>1, <5>1, QueueLeaseAssumption DEF LeaseDeadline
      <4>. QED
        BY <4>1
    <3>4. rows'[s.id] = rows[s.id]
      BY <1>2, <3>3, ReservationFacts DEF Only
    <3>. QED
      BY <3>2, <3>4 DEF Fence, Present
  <2>2. Leased(r)'
    BY <1>1, <1>2, <1>3, <1>5, RowFacts DEF Leased, Fence, Present, LeaseDeadline
  <2>3. \A s \in undelivered' : Leased(s)'
    BY <1>3, <2>1, <2>2 DEF LeaseInv, Types
  <2>4. ASSUME NEW w \in Workers, Holds(w)', w \notin unsure' PROVE Leased(held[w])'
    <3>1. PICK s \in Reservations : s = held[w] /\ s = held'[w] /\ Leased(s)
      BY <1>1, <2>4 DEF LeaseInv, Holds, Types
    <3>2. Leased(s)'
      BY <2>1, <3>1
    <3>. QED
      BY <3>1, <3>2 DEF Leased, LeaseDeadline, Fence, Present
  <2>. QED
    BY <2>3, <2>4 DEF LeaseInv
<1>. QED
  BY <1>4, <1>6, <1>7, <1>8, <1>9

(* An unreserve gives an attempt back only where its own token was the last.   *)
LEMMA UnreserveStep ==
  ASSUME IInv, NEW r \in unreserves, Unreserve(r)
  PROVE  IInv'
<1>. USE DEF IInv
<1>1. /\ UNCHANGED <<now, nextId, locks, undelivered, held, unsure, tx, settled, commits>>
      /\ unreserves' = unreserves \ {r} /\ r \in Reservations /\ r \in Loose /\ r \notin undelivered
  BY DEF Unreserve, history, Types, Loose, TokenInv
<1>2. CASE rows' = rows
  <2>1. Types' /\ now <= now'
    BY <1>1, <1>2, Scalars DEF Types
  <2>. QED
    BY <1>1, <1>2, <2>1, Quiet DEF TokenInv, Loose, Holds
<1>3. CASE rows' # rows
  <2>1. /\ Fence(r) /\ rows[r.id].reserved = r.at /\ Free(r.id)
        /\ Only(r.id) /\ rows' \in [Ids -> Row]
        /\ rows'[r.id].job = rows[r.id].job /\ rows'[r.id].attempts = r.attempts - 1
    BY <1>3, UnreserveDoes
  <2>2. r.id \in Ids /\ r.attempts \in Nat \ {0} /\ Present(r.id) /\ rows[r.id].attempts = r.attempts
    BY <2>1, ReservationFacts, <1>1 DEF Fence
  <2>3. Types' /\ now <= now' /\ nextId <= nextId'
    BY <1>1, <2>1, Scalars DEF Types
  <2>4. TableInv'
    BY <1>1, <2>1, <2>3, TableKeep DEF Only
  <2>5. ASSUME NEW s \in Reservations, TokenFits(s), Apart(s, r) PROVE TokenFits(s)'
    <3>1. s.id \in Ids /\ s.attempts \in Nat
      BY ReservationFacts
    <3>2. CASE s.id = r.id
      BY <1>1, <2>1, <2>2, <2>5, <3>1, <3>2 DEF TokenFits, Present, Free, Apart
    <3>3. CASE s.id # r.id
      BY <1>1, <2>1, <2>5, <3>1, <3>3 DEF TokenFits, Present, Free, Only
    <3>. QED
      BY <3>2, <3>3
  <2>6. TokenInv'
    <3>1. Loose' = Loose \ {r} /\ undelivered' \cap unreserves' = {}
      BY <1>1 DEF Loose, TokenInv
    <3>2. \A s \in Loose' : TokenFits(s)'
      BY <1>1, <2>5, <3>1 DEF TokenInv, Loose, Types
    <3>3. ASSUME NEW w \in Workers, Holds(w)' PROVE TokenFits(held[w])'
      <4>1. PICK s \in Reservations : s = held'[w] /\ TokenFits(s) /\ Apart(s, r)
        BY <1>1, <3>3 DEF Holds, TokenInv, Types, Apart
      <4>2. TokenFits(s)'
        BY <2>5, <4>1
      <4>. QED
        BY <4>1, <4>2 DEF TokenFits, Present, Free
    <3>. QED
      BY <1>1, <3>1, <3>2, <3>3 DEF TokenInv, Apart, Holds
  <2>7. LockInv'
    BY <1>1, <2>1, <2>2, <2>3, LockKeep DEF Only
  <2>8. LeaseInv'
    <3>1. ASSUME NEW s \in Reservations, Fence(s), Apart(s, r) PROVE rows'[s.id] = rows[s.id]
      BY <2>1, <2>2, <3>1, ReservationFacts DEF Only, Fence, Apart
    <3>2. \A s \in undelivered' : Apart(s, r)
      BY <1>1 DEF TokenInv, Loose
    <3>3. \A w \in Workers : Holds(w) => Apart(held[w], r)
      BY <1>1 DEF TokenInv, Apart
    <3>. QED
      BY <1>1, <2>3, <3>1, <3>2, <3>3, LeaseKeep DEF Holds
  <2>. QED
    BY <2>3, <2>4, <2>6, <2>7, <2>8
<1>. QED
  BY <1>2, <1>3

LEMMA ClearStep ==
  ASSUME IInv, Clear
  PROVE  IInv'
<1>. USE DEF IInv
<1>1. /\ UNCHANGED <<now, nextId, locks, undelivered, unreserves, held, unsure, tx, commits>>
      /\ rows' = [i \in Ids |-> NoRow] /\ \A i \in Ids : Free(i)
      /\ settled' = [j \in Jobs |-> IF settled[j] = "queued" THEN "cleared" ELSE settled[j]]
  BY DEF Clear
<1>2. Types' /\ now <= now' /\ nextId <= nextId'
  BY <1>1, RowFacts, Scalars DEF Types, Fates
<1>3. \A i \in Ids : ~ Present(i)'
  BY <1>1, RowFacts DEF Present
<1>4. TableInv'
  BY <1>1, <1>3 DEF TableInv, Present
<1>5. TokenInv'
  <2>1. \A i \in Ids : RowStays(i)
    BY <1>1, <1>3 DEF RowStays, Free
  <2>2. \A w \in Workers : Holds(w)' => Holds(w) /\ SameToken(held'[w], held[w]) /\ held'[w].at <= now'
    BY <1>1 DEF Holds, SameToken, TokenInv, TokenFits
  <2>. QED
    BY <1>1, <1>2, <2>1, <2>2, TokenKeep DEF Loose, TokenInv
<1>6. LockInv'
  BY <1>1, <1>2, LockKeep
<1>7. LeaseInv'
  <2>1. ASSUME NEW r \in Reservations, TokenFits(r), Fence(r) PROVE settled'[r.job] = "cleared"
    BY <1>1, <2>1, ReservationFacts DEF Fence, TokenFits, TableInv
  <2>2. \A r \in Reservations : r \in undelivered' \/ (\E w \in Workers : Holds(w)' /\ held[w] = r)
           => TokenFits(r)
    BY <1>1 DEF TokenInv, Loose, Holds
  <2>3. \A j \in Jobs : settled[j] = "cleared" => settled'[j] = "cleared"
    BY <1>1
  <2>. QED
    BY <1>1, <1>2, <2>1, <2>2, <2>3, LeaseKeep DEF Holds
<1>. QED
  BY <1>2, <1>4, <1>5, <1>6, <1>7

-----------------------------------------------------------------------------
(* The fenced verbs in autocommit.                                             *)

LEMMA HoldingFacts ==
  ASSUME Types, NEW w \in Workers, Holding(w)
  PROVE  /\ Holds(w) /\ held[w] \in Reservations /\ held[w].id \in Ids /\ Free(held[w].id)
         /\ tx[w].verb \notin Verbs
  BY ReservationFacts DEF Holding, Holds, Types, Idle, Verbs

(* Nobody else's token fences the row that a worker's does.                    *)
LEMMA FenceMine ==
  ASSUME TokenInv, NEW w \in Workers, Holds(w), Fence(held[w]), NEW r, Fence(r),
         r \in Loose \/ \E v \in Workers : v # w /\ Holds(v) /\ held[v] = r
  PROVE  r.id # held[w].id
<1>1. Apart(r, held[w])
  BY DEF TokenInv
<1>. QED
  BY <1>1 DEF Fence, Apart

(* The worker is done with its job, or does not know whether it is.            *)
LetGo(w) ==
  /\ \A v \in Workers : v # w => held'[v] = held[v] /\ (v \in unsure' <=> v \in unsure)
  /\ held'[w] = None \/ (held'[w] = held[w] /\ w \in unsure')

LEMMA SettlesLetsGo ==
  ASSUME Types, NEW w \in Workers, Settles(w)
  PROVE  LetGo(w) /\ held' \in [Workers -> Reservations \cup {None}] /\ unsure' \subseteq Workers
  BY DEF Types, Settles, LetGo

LEMMA LetGoTokens ==
  ASSUME Types, Types', TokenInv, NEW w \in Workers, LetGo(w),
         UNCHANGED <<now, undelivered, unreserves>>,
         nextId <= nextId', \A i \in Ids : RowStays(i)
  PROVE  TokenInv'
<1>1. \A v \in Workers : Holds(v)' => Holds(v) /\ held'[v] = held[v]
  BY DEF LetGo, Holds
<1>2. \A v \in Workers : Holds(v)' => Holds(v) /\ SameToken(held'[v], held[v]) /\ held'[v].at <= now'
  BY <1>1 DEF SameToken, TokenInv, TokenFits
<1>3. now <= now'
  BY Scalars
<1>. QED
  BY <1>2, <1>3, TokenKeep DEF TokenInv, Loose

LEMMA LetGoLease ==
  ASSUME Types, Types', TokenInv, LeaseInv, NEW w \in Workers, LetGo(w), Holds(w), Fence(held[w]),
         UNCHANGED <<now, undelivered, unreserves>>,
         \A j \in Jobs : settled[j] = "cleared" => settled'[j] = "cleared",
         \A k \in Ids : k # held[w].id /\ Present(k) => rows'[k] = rows[k]
  PROVE  LeaseInv'
<1>1. \A v \in Workers : Holds(v)' /\ v \notin unsure' =>
         v # w /\ Holds(v) /\ v \notin unsure /\ held'[v] = held[v]
  BY DEF LetGo, Holds
<1>2. ASSUME NEW r \in Reservations, Fence(r),
             r \in undelivered' \/ \E v \in Workers : Holds(v)' /\ v \notin unsure' /\ held[v] = r
      PROVE  rows'[r.id] = rows[r.id]
  <2>1. r.id # held[w].id
    BY <1>1, <1>2, FenceMine DEF Loose
  <2>. QED
    BY <1>2, <2>1, ReservationFacts DEF Fence
<1>3. now <= now'
  BY Scalars
<1>. QED
  BY <1>1, <1>2, <1>3, LeaseKeep

(* The worker's row goes, and its job with it.                                 *)
LEMMA AckStep ==
  ASSUME IInv, NEW w \in Workers, Ack(w)
  PROVE  IInv'
<1>. USE DEF IInv
<1>1. /\ UNCHANGED <<now, nextId, locks, undelivered, unreserves, tx, commits>>
      /\ LetGo(w) /\ held' \in [Workers -> Reservations \cup {None}] /\ unsure' \subseteq Workers
  BY SettlesLetsGo DEF Ack
<1>2. /\ Holds(w) /\ held[w] \in Reservations /\ held[w].id \in Ids /\ Free(held[w].id)
      /\ tx[w].verb \notin Verbs /\ now <= now' /\ nextId <= nextId'
  BY <1>1, HoldingFacts, Scalars DEF Ack
<1>3. CASE ~ Fence(held[w])
  <2>1. UNCHANGED <<rows, settled>>
    BY <1>3 DEF Ack
  <2>2. Types'
    BY <1>1, <2>1 DEF Types
  <2>3. \A v \in Workers : held'[v] = held[v] \/ (held'[v] = None /\ tx[v].verb \notin Verbs)
    BY <1>1, <1>2 DEF LetGo
  <2>4. \A v \in Workers : Holds(v)' /\ v \notin unsure' => v \notin unsure
    BY <1>1 DEF LetGo, Holds
  <2>. QED
    BY <1>1, <1>2, <2>1, <2>2, <2>3, <2>4, Quiet DEF Loose, TokenInv
<1>4. CASE Fence(held[w])
  <2>0. PICK i \in Ids : i = held[w].id /\ Free(i)
    BY <1>2
  <2>1. /\ rows' = [rows EXCEPT ![i] = NoRow] /\ settled' = [settled EXCEPT ![rows[i].job] = "acked"]
        /\ Present(i) /\ rows[i].job \in Jobs
    BY <1>4, <2>0, RowFacts DEF Ack, Put, Fence, Present, Types
  <2>2. Only(i) /\ rows'[i] = NoRow /\ ~ Present(i)'
    BY <2>1, RowFacts DEF Only, Types, Present
  <2>3. Types'
    BY <1>1, <1>2, <2>1, RowFacts DEF Types, Fates
  <2>4. TableInv'
    BY <1>1, <2>1, <2>2, <2>3, TableRemove
  <2>5. TokenInv'
    <3>1. \A k \in Ids : RowStays(k)
      BY <1>1, <2>0, <2>2, RowFacts DEF RowStays, Only, Present, Free, Types
    <3>. QED
      BY <1>1, <1>2, <2>3, <3>1, LetGoTokens
  <2>6. LockInv'
    BY <1>1, <1>2, <2>0, <2>2, <2>3, LockKeep DEF Only, LetGo
  <2>7. LeaseInv'
    <3>1. \A j \in Jobs : settled[j] = "cleared" => settled'[j] = "cleared"
      <4>1. settled[rows[i].job] = "queued"
        BY <2>1 DEF TableInv
      <4>. QED
        BY <2>1, <4>1 DEF Types
    <3>. QED
      BY <1>1, <1>2, <1>4, <2>0, <2>2, <2>3, <3>1, LetGoLease DEF Only
  <2>. QED
    BY <2>3, <2>4, <2>5, <2>6, <2>7
<1>. QED
  BY <1>3, <1>4

(* The worker's row goes, and its job comes back as a row of a new id.         *)
LEMMA ReleaseStep ==
  ASSUME IInv, NEW w \in Workers, NEW d \in Delays, Release(w, d)
  PROVE  IInv'
<1>. USE DEF IInv
<1>1. /\ UNCHANGED <<now, locks, undelivered, unreserves, tx, settled, commits>>
      /\ LetGo(w) /\ held' \in [Workers -> Reservations \cup {None}] /\ unsure' \subseteq Workers
  BY SettlesLetsGo DEF Release, history
<1>2. /\ Holds(w) /\ held[w] \in Reservations /\ held[w].id \in Ids /\ Free(held[w].id)
      /\ tx[w].verb \notin Verbs /\ now <= now'
  BY <1>1, HoldingFacts, Scalars DEF Release
<1>3. CASE ~ Fence(held[w])
  <2>1. UNCHANGED <<rows, nextId>>
    BY <1>3 DEF Release
  <2>2. Types'
    BY <1>1, <2>1 DEF Types
  <2>3. \A v \in Workers : held'[v] = held[v] \/ (held'[v] = None /\ tx[v].verb \notin Verbs)
    BY <1>1, <1>2 DEF LetGo
  <2>4. \A v \in Workers : Holds(v)' /\ v \notin unsure' => v \notin unsure
    BY <1>1 DEF LetGo, Holds
  <2>. QED
    BY <1>1, <1>2, <2>1, <2>2, <2>3, <2>4, Quiet DEF Loose, TokenInv
<1>4. CASE Fence(held[w])
  <2>0. PICK i \in Ids : i = held[w].id /\ Free(i)
    BY <1>2
  <2>1. /\ nextId' = nextId + 1 /\ nextId \in Ids /\ nextId \in Nat /\ Present(i)
        /\ rows[i] \in Row /\ rows[i].job \in Jobs
    BY <1>4, <2>0, RowFacts, Scalars, QueueLeaseAssumption DEF Release, Fence, Present, Types, Ids
  <2>2. PICK y \in Row : y.job = rows[i].job /\ rows' = [rows EXCEPT ![i] = NoRow, ![nextId] = y]
    BY <1>4, <2>0, <2>1, FreshRow DEF Release
  <2>3. i # nextId /\ ~ Present(nextId) /\ Free(nextId)
    BY <2>1 DEF TableInv, LockInv
  <2>4. /\ rows'[i] = NoRow /\ rows'[nextId] = y /\ ~ Present(i)'
        /\ \A k \in Ids : k \notin {i, nextId} => rows'[k] = rows[k]
    BY <2>1, <2>2, <2>3, RowFacts DEF Types, Present
  <2>5. Types' /\ nextId <= nextId'
    BY <1>1, <2>1, <2>2, RowFacts, QueueLeaseAssumption DEF Types, Ids
  <2>6. TableInv'
    <3>1. PICK n \in Ids : n = nextId /\ n < nextId'
      BY <2>1
    <3>. QED
      BY <1>1, <2>1, <2>2, <2>3, <2>4, <2>5, <3>1, TableMove
  <2>7. TokenInv'
    <3>1. \A k \in Ids : RowStays(k)
      BY <1>1, <2>0, <2>1, <2>4, RowFacts DEF RowStays, Present, Free, Types
    <3>. QED
      BY <1>1, <2>5, <3>1, LetGoTokens
  <2>8. LockInv'
    BY <1>1, <1>2, <2>0, <2>3, <2>4, <2>5, LockKeep DEF LetGo
  <2>9. LeaseInv'
    BY <1>1, <1>2, <1>4, <2>0, <2>3, <2>4, <2>5, LetGoLease
  <2>. QED
    BY <2>5, <2>6, <2>7, <2>8, <2>9
<1>. QED
  BY <1>3, <1>4

(* The worker's lease starts again at t; it may not hear of it.                *)
LEMMA LeaseRenewed ==
  ASSUME IInv, Types', NEW w \in Workers, Holds(w), Fence(held[w]), Only(held[w].id),
         NEW t \in Times, held[w].at <= t, t <= now,
         rows'[held[w].id].job = rows[held[w].id].job,
         rows'[held[w].id].attempts = held[w].attempts,
         rows'[held[w].id].created = held[w].created, rows'[held[w].id].reserved = t,
         held' \in {held, [held EXCEPT ![w].at = t]},
         \A k \in Ids : Free(k) => Free(k)',
         UNCHANGED <<now, nextId, undelivered, unreserves, unsure, settled, commits>>
  PROVE  TableInv' /\ TokenInv' /\ LeaseInv'
<1>. USE DEF IInv
<1>1. now <= now' /\ nextId <= nextId' /\ held[w] \in Reservations
  BY Scalars DEF Holds, Types
<1>2. PICK i \in Ids : /\ i = held[w].id /\ Only(i) /\ Present(i) /\ rows[i].attempts = held[w].attempts
                       /\ rows[i].job # None
  BY <1>1, ReservationFacts DEF Fence, Present
<1>3. \A v \in Workers : v # w => held'[v] = held[v]
  BY DEF Types
<1>4. SameToken(held'[w], held[w]) /\ held'[w].created = held[w].created /\ held'[w].at \in {held[w].at, t}
  BY <1>1 DEF Types, SameToken, Reservations
<1>5. TableInv'
  BY <1>1, <1>2, TableKeep DEF Only
<1>6. TokenInv'
  <2>1. \A k \in Ids : RowStays(k)
    BY <1>2, RowFacts DEF RowStays, Only, Present, Types
  <2>2. \A v \in Workers : Holds(v)' => Holds(v) /\ SameToken(held'[v], held[v]) /\ held'[v].at <= now'
    <3>1. SUFFICES ASSUME NEW v \in Workers, Holds(v)'
                   PROVE  Holds(v) /\ SameToken(held'[v], held[v]) /\ held'[v].at <= now'
      OBVIOUS
    <3>2. CASE v = w
      <4>1. held[w].at <= now
        BY DEF TokenInv, TokenFits
      <4>. QED
        BY <1>4, <3>2, <4>1
    <3>3. CASE v # w
      BY <1>3, <3>1, <3>3 DEF Holds, SameToken, TokenInv, TokenFits
    <3>. QED
      BY <3>2, <3>3
  <2>. QED
    BY <1>1, <2>1, <2>2, TokenKeep DEF Loose, TokenInv
<1>7. LeaseInv'
  <2>1. ASSUME NEW r \in Reservations, Leased(r), Fence(r) => r.id # i PROVE Leased(r)'
    BY <1>2, <2>1, ReservationFacts DEF Leased, LeaseDeadline, Fence, Present, Only
  <2>2. \A r \in undelivered' : Leased(r)'
    BY <1>2, <2>1, FenceMine DEF LeaseInv, Types, Loose
  <2>3. ASSUME NEW v \in Workers, Holds(v)', v \notin unsure' PROVE Leased(held[v])'
    <3>1. CASE v = w
      <4>1. Present(i)'
        BY <1>2 DEF Present
      <4>2. Fence(held[w])'
        BY <1>2, <1>4, <4>1 DEF Fence, SameToken, Present
      <4>3. rows'[held'[w].id].reserved = t /\ t # None /\ held'[w].at <= t
        BY <1>2, <1>4, RowFacts, Scalars DEF SameToken
      <4>. QED
        BY <3>1, <4>2, <4>3 DEF Leased
    <3>2. CASE v # w
      <4>1. PICK r \in Reservations : r = held[v] /\ r = held'[v] /\ Holds(v) /\ Leased(r)
        BY <1>3, <2>3, <3>2 DEF Holds, Types, LeaseInv
      <4>2. Leased(r)'
        BY <1>2, <2>1, <3>2, <4>1, FenceMine
      <4>. QED
        BY <4>1, <4>2 DEF Leased, LeaseDeadline, Fence, Present
    <3>. QED
      BY <3>1, <3>2
  <2>. QED
    BY <2>2, <2>3 DEF LeaseInv
<1>. QED
  BY <1>5, <1>6, <1>7

LEMMA ExtendStep ==
  ASSUME IInv, NEW w \in Workers, Extend(w)
  PROVE  IInv'
<1>. USE DEF IInv
<1>1. UNCHANGED <<now, nextId, locks, undelivered, unreserves, tx, settled, commits>>
  BY DEF Extend, history
<1>2. /\ Holds(w) /\ held[w] \in Reservations /\ held[w].id \in Ids /\ Free(held[w].id)
      /\ tx[w].verb \notin Verbs /\ now <= now' /\ nextId <= nextId'
  BY <1>1, HoldingFacts, Scalars DEF Extend
<1>3. CASE ~ Extendable(held[w])
  <2>1. /\ rows' = rows /\ held' = [held EXCEPT ![w] = None] /\ unsure' = unsure \ {w}
    BY <1>3 DEF Extend
  <2>2. Types'
    BY <1>1, <2>1 DEF Types
  <2>3. \A v \in Workers : held'[v] = held[v] \/ (held'[v] = None /\ tx[v].verb \notin Verbs)
    BY <1>2, <2>1 DEF Types
  <2>4. \A v \in Workers : Holds(v)' /\ v \notin unsure' => v \notin unsure
    BY <2>1 DEF Types, Holds
  <2>. QED
    BY <1>1, <1>2, <2>1, <2>2, <2>3, <2>4, Quiet DEF Loose, TokenInv
<1>4. CASE Extendable(held[w])
  <2>0. PICK i \in Ids : i = held[w].id /\ Free(i)
    BY <1>2
  <2>1. /\ rows' = [rows EXCEPT ![i] = [rows[i] EXCEPT !.reserved = now]] /\ Fence(held[w])
        /\ held' \in {held, [held EXCEPT ![w].at = now]} /\ unsure' = unsure
    BY <1>4, <2>0 DEF Extend, Put, Extendable
  <2>a. PICK y : y = [rows[i] EXCEPT !.reserved = now]
    OBVIOUS
  <2>b. y \in Row /\ y.job = rows[i].job /\ y.created = rows[i].created
        /\ y.attempts = rows[i].attempts /\ y.reserved = now
    BY <2>a DEF Row, Types
  <2>2. rows' = [rows EXCEPT ![i] = y]
    BY <2>1, <2>a
  <2>3. Only(i) /\ rows'[i] = y /\ rows' \in [Ids -> Row]
    BY <2>b, <2>2 DEF Only, Types
  <2>4. held' \in [Workers -> Reservations \cup {None}]
    <3>1. [held[w] EXCEPT !.at = now] \in Reservations
      BY <1>2 DEF Reservations, Types
    <3>. QED
      BY <2>1, <3>1 DEF Types
  <2>5. Types'
    BY <1>1, <2>1, <2>3, <2>4 DEF Types
  <2>6. held[w].at <= now /\ now <= now /\ now \in Times
    BY <1>2, Scalars DEF TokenInv, TokenFits, Types
  <2>7. rows[i].attempts = held[w].attempts /\ rows[i].created = held[w].created
    BY <2>0, <2>1 DEF Fence
  <2>8. PICK t \in Times : t = now
    BY <2>6
  <2>9. TableInv' /\ TokenInv' /\ LeaseInv'
    BY <1>1, <1>2, <2>0, <2>1, <2>b, <2>3, <2>5, <2>6, <2>7, <2>8, LeaseRenewed DEF Free
  <2>10. LockInv'
    <3>1. \A v \in Workers : tx[v].verb \in Verbs => held'[v] = held[v]
      BY <1>2, <2>1 DEF Types
    <3>. QED
      BY <1>1, <1>2, <2>0, <2>3, <2>5, <3>1, LockKeep DEF Only
  <2>. QED
    BY <2>5, <2>9, <2>10
<1>. QED
  BY <1>3, <1>4

-----------------------------------------------------------------------------
(* The same verbs in a transaction.                                            *)

(* A verb writes, and so locks, its own row and at most one of a new id.       *)
LEMMA BegunStep ==
  ASSUME IInv, Types', NEW w \in Workers, Holding(w),
         NEW verb \in Verbs \cup {"rollback"}, NEW new, NEW written \in SUBSET Ids,
         Begun(w, verb, new, written),
         UNCHANGED <<now, rows, undelivered, unreserves, held, unsure, settled, commits>>,
         nextId <= nextId',
         verb = "rollback" => written = {},
         verb \in Verbs => Fence(held[w]) /\ held[w].id \in written,
         \A k \in written : /\ k < nextId' /\ Free(k)
                            /\ k = held[w].id \/ (verb = "release" /\ k >= nextId),
         verb = "release" => /\ new.job = held[w].job
                             /\ \E n \in Ids : n # held[w].id /\ written = {n, held[w].id},
         verb = "extend" => /\ new.job = held[w].job /\ new.attempts = held[w].attempts
                            /\ new.created = held[w].created /\ new.reserved # None
                            /\ held[w].at <= new.reserved /\ new.reserved <= now
  PROVE  IInv'
<1>. USE DEF IInv
<1>1. /\ Holds(w) /\ held[w] \in Reservations /\ held[w].id \in Ids /\ Free(held[w].id)
      /\ tx[w].verb \notin Verbs /\ now <= now'
  BY HoldingFacts, Scalars
<1>2. /\ tx' = [tx EXCEPT ![w] = [verb |-> verb, id |-> held[w].id, new |-> new]]
      /\ locks' = [i \in Ids |-> IF i \in written THEN w ELSE locks[i]]
  BY DEF Begun
<1>3. /\ tx'[w].verb = verb /\ tx'[w].id = held[w].id /\ tx'[w].new = new
      /\ \A v \in Workers : v # w => tx'[v] = tx[v]
  BY <1>2 DEF Types
<1>4. \A k \in Ids : locks[k] # w
  BY <1>1, RowFacts DEF LockInv, Free
<1>5. \A k \in written : Present(k) => k = held[w].id
  <2>1. \A k \in written : k \in Nat /\ nextId \in Nat
    BY Scalars
  <2>. QED
    BY <2>1 DEF TableInv
<1>6. TableInv'
  BY TableKeep
<1>7. TokenInv'
  <2>1. \A k \in Ids : RowStays(k)
    <3>1. SUFFICES ASSUME NEW k \in Ids, k < nextId, Present(k) \/ Free(k) PROVE Present(k) \/ Free(k)'
      BY RowFacts DEF RowStays, Present, Types
    <3>2. k \in written => k = held[w].id /\ Fence(held[w])
      <4>1. k \in Nat /\ nextId \in Nat
        BY Scalars
      <4>. QED
        BY <3>1, <4>1
    <3>. QED
      BY <1>2, <3>1, <3>2 DEF Fence, Free
  <2>2. \A v \in Workers : Holds(v)' => Holds(v) /\ SameToken(held'[v], held[v]) /\ held'[v].at <= now'
    BY DEF Holds, SameToken, TokenInv, TokenFits
  <2>. QED
    BY <1>1, <2>1, <2>2, TokenKeep DEF Loose, TokenInv
<1>8. LockInv'
  <2>1. ASSUME NEW i \in Ids, ~ Free(i)'
        PROVE  /\ i < nextId' /\ tx'[locks'[i]].verb \in Verbs
               /\ tx'[locks'[i]].id = i \/ (tx'[locks'[i]].verb = "release" /\ ~ Present(i)')
    <3>1. CASE i \in written
      <4>1. locks'[i] = w /\ verb \in Verbs /\ i < nextId'
        BY <1>2, <3>1
      <4>2. i = held[w].id \/ (verb = "release" /\ ~ Present(i))
        <5>1. i \in Nat /\ nextId \in Nat
          BY Scalars
        <5>. QED
          BY <3>1, <5>1 DEF TableInv
      <4>. QED
        BY <1>3, <4>1, <4>2 DEF Present
    <3>2. CASE i \notin written
      <4>1. locks'[i] = locks[i] /\ locks[i] # w /\ ~ Free(i) /\ locks[i] \in Workers
        BY <1>2, <1>4, <2>1, <3>2, RowFacts DEF Free, Types
      <4>2. i < nextId /\ i \in Nat /\ nextId \in Nat /\ nextId' \in Nat
        BY <4>1, Scalars DEF LockInv, Types
      <4>. QED
        BY <1>3, <4>1, <4>2 DEF LockInv, Present
    <3>. QED
      BY <3>1, <3>2
  <2>2. ASSUME NEW v \in Workers, tx'[v].verb \in Verbs
        PROVE  Holds(v)' /\ tx'[v].id = held'[v].id /\ locks'[tx'[v].id] = v /\ Fence(held[v])'
    <3>1. CASE v = w
      BY <1>1, <1>2, <1>3, <2>2, <3>1 DEF Holds, Fence, Present
    <3>2. CASE v # w
      <4>1. Holds(v) /\ tx[v].id = held[v].id /\ locks[tx[v].id] = v /\ Fence(held[v])
        BY <1>3, <2>2, <3>2 DEF LockInv
      <4>2. held[v].id \in Ids /\ ~ Free(held[v].id)
        BY <4>1, ReservationFacts, RowFacts DEF Holds, Types, Free
      <4>3. locks'[held[v].id] = v
        BY <1>2, <4>1, <4>2
      <4>. QED
        BY <1>3, <3>2, <4>1, <4>3 DEF Holds, Fence, Present
    <3>. QED
      BY <3>1, <3>2
  <2>3. ASSUME NEW v \in Workers, tx'[v].verb = "release"
        PROVE  /\ tx'[v].new.job = held'[v].job
               /\ \E n \in Ids : locks'[n] = v /\ n # tx'[v].id
                                 /\ \A i \in Ids : locks'[i] = v => i \in {n, tx'[v].id}
    <3>1. CASE v = w
      <4>1. PICK n \in Ids : n # held[w].id /\ written = {n, held[w].id}
        BY <1>3, <2>3, <3>1
      <4>. QED
        BY <1>2, <1>3, <1>4, <2>3, <3>1, <4>1
    <3>2. CASE v # w
      <4>1. tx[v].new.job = held[v].job /\ tx'[v] = tx[v]
        BY <1>3, <2>3, <3>2 DEF LockInv
      <4>2. PICK n \in Ids : locks[n] = v /\ n # tx[v].id /\ \A i \in Ids : locks[i] = v => i \in {n, tx[v].id}
        BY <2>3, <4>1 DEF LockInv
      <4>3. locks'[n] = v /\ \A i \in Ids : locks'[i] = v => locks[i] = v
        BY <1>2, <3>2, <4>2, RowFacts DEF Free
      <4>. QED
        BY <4>1, <4>2, <4>3
    <3>. QED
      BY <3>1, <3>2
  <2>4. \A v \in Workers : tx'[v].verb = "extend" =>
           /\ tx'[v].new.job = held'[v].job
           /\ tx'[v].new.attempts = held'[v].attempts /\ tx'[v].new.created = held'[v].created
           /\ tx'[v].new.reserved # None
           /\ held'[v].at <= tx'[v].new.reserved /\ tx'[v].new.reserved <= now'
    BY <1>3 DEF LockInv
  <2>. QED
    BY <2>1, <2>2, <2>3, <2>4 DEF LockInv
<1>9. LeaseInv'
  BY <1>1, LeaseKeep DEF Holds
<1>. QED
  BY <1>6, <1>7, <1>8, <1>9

LEMMA BegunType ==
  ASSUME Types, NEW w \in Workers, Holding(w),
         NEW verb \in Verbs \cup {"rollback"}, NEW new \in Row, NEW written \in SUBSET Ids,
         Begun(w, verb, new, written)
  PROVE  tx' \in [Workers -> TxState] /\ locks' \in [Ids -> Workers \cup {None}]
<1>1. [verb |-> verb, id |-> held[w].id, new |-> new] \in TxState
  BY HoldingFacts DEF TxState
<1>. QED
  BY <1>1 DEF Begun, Types

(* A fence that does not match: nothing is locked and the client rolls back.   *)
LEMMA LostStep ==
  ASSUME IInv, NEW w \in Workers, Holding(w), LostInTx(w),
         UNCHANGED <<now, rows, nextId, undelivered, unreserves, held, unsure, settled, commits>>
  PROVE  IInv'
<1>1. Types' /\ nextId <= nextId'
  <2>1. Begun(w, "rollback", NoRow, {}) /\ {} \in SUBSET Ids /\ NoRow \in Row
    BY RowFacts DEF LostInTx
  <2>2. tx' \in [Workers -> TxState] /\ locks' \in [Ids -> Workers \cup {None}]
    BY <2>1, BegunType DEF IInv
  <2>. QED
    BY <2>2, Scalars DEF IInv, Types
<1>. QED
  BY <1>1, BegunStep DEF LostInTx, Verbs

LEMMA AckInTxStep ==
  ASSUME IInv, NEW w \in Workers, AckInTx(w)
  PROVE  IInv'
<1>1. Holding(w) /\ UNCHANGED <<now, rows, nextId, undelivered, unreserves, held, unsure, settled, commits>>
  BY DEF AckInTx, table, history
<1>2. CASE ~ Fence(held[w])
  BY <1>1, <1>2, LostStep DEF AckInTx
<1>3. CASE Fence(held[w])
  <2>1. Begun(w, "ack", NoRow, {held[w].id}) /\ held[w].id \in Ids /\ Free(held[w].id)
    BY <1>1, <1>3, HoldingFacts DEF AckInTx, IInv
  <2>2. Types' /\ nextId <= nextId'
    BY <1>1, <2>1, BegunType, RowFacts, Scalars DEF IInv, Types, Verbs
  <2>3. held[w].id < nextId'
    BY <1>1, <1>3, <2>1 DEF IInv, Fence, TableInv
  <2>. QED
    BY <1>1, <1>3, <2>1, <2>2, <2>3, BegunStep DEF Verbs
<1>. QED
  BY <1>2, <1>3

LEMMA ExtendInTxStep ==
  ASSUME IInv, NEW w \in Workers, ExtendInTx(w)
  PROVE  IInv'
<1>1. Holding(w) /\ UNCHANGED <<now, rows, nextId, undelivered, unreserves, held, unsure, settled, commits>>
  BY DEF ExtendInTx, table, history
<1>2. CASE ~ Extendable(held[w])
  BY <1>1, <1>2, LostStep DEF ExtendInTx
<1>3. CASE Extendable(held[w])
  <2>0. PICK i \in Ids : i = held[w].id /\ Free(i) /\ Fence(held[w]) /\ Holds(w) /\ held[w] \in Reservations
    BY <1>1, <1>3, HoldingFacts DEF Extendable, IInv
  <2>1. PICK y : y = [rows[i] EXCEPT !.reserved = now]
    OBVIOUS
  <2>2. y \in Row /\ y.job = rows[i].job /\ y.created = rows[i].created
        /\ y.attempts = rows[i].attempts /\ y.reserved = now
    BY <2>1 DEF Row, IInv, Types
  <2>3. Begun(w, "extend", y, {i})
    BY <1>3, <2>0, <2>1 DEF ExtendInTx
  <2>4. Types' /\ nextId <= nextId'
    BY <1>1, <2>2, <2>3, BegunType, Scalars DEF IInv, Types, Verbs
  <2>5. /\ y.job = held[w].job /\ y.attempts = held[w].attempts /\ y.created = held[w].created
        /\ held[w].at <= y.reserved /\ y.reserved <= now /\ y.reserved # None /\ i < nextId'
    BY <1>1, <2>0, <2>2, Scalars, RowFacts DEF IInv, TokenInv, TokenFits, Fence, TableInv
  <2>. QED
    BY <1>1, <2>0, <2>3, <2>4, <2>5, BegunStep DEF Verbs
<1>. QED
  BY <1>2, <1>3

LEMMA ReleaseInTxStep ==
  ASSUME IInv, NEW w \in Workers, NEW d \in Delays, ReleaseInTx(w, d)
  PROVE  IInv'
<1>1. Holding(w) /\ UNCHANGED <<now, rows, undelivered, unreserves, held, unsure, settled, commits>>
  BY DEF ReleaseInTx, history
<1>2. CASE ~ Fence(held[w])
  BY <1>1, <1>2, LostStep DEF ReleaseInTx
<1>3. CASE Fence(held[w])
  <2>0. PICK i \in Ids : i = held[w].id /\ Free(i) /\ Holds(w) /\ Present(i)
    BY <1>1, <1>3, HoldingFacts DEF Fence, IInv
  <2>1. PICK n \in Ids : n = nextId /\ nextId' = nextId + 1 /\ n \in Nat
    BY <1>3, Scalars, QueueLeaseAssumption DEF ReleaseInTx, IInv, Types, Ids
  <2>2. rows[i].job \in Jobs /\ rows[i].job = held[w].job /\ rows[i] \in Row
    BY <2>0, RowFacts DEF IInv, TokenInv, TokenFits, Present, Types
  <2>3. PICK y \in Row : y.job = rows[i].job /\ Begun(w, "release", y, {i, n})
    BY <1>3, <2>0, <2>1, <2>2, FreshRow DEF ReleaseInTx, IInv
  <2>4. Types' /\ nextId <= nextId'
    <3>1. tx' \in [Workers -> TxState] /\ locks' \in [Ids -> Workers \cup {None}]
      BY <1>1, <2>3, BegunType DEF IInv, Verbs
    <3>2. nextId' \in 1 .. MaxIds + 1
      BY <2>1, QueueLeaseAssumption DEF Ids
    <3>. QED
      BY <1>1, <2>1, <3>1, <3>2 DEF IInv, Types
  <2>5. i < nextId /\ n # i /\ Free(n)
    <3>1. i < nextId /\ i \in Nat /\ (~ Free(n) => n < nextId)
      BY <2>0, Scalars DEF IInv, TableInv, LockInv
    <3>. QED
      BY <2>1, <3>1
  <2>6. i < nextId' /\ n < nextId' /\ n >= nextId
    BY <2>1, <2>5, Scalars DEF IInv
  <2>. QED
    BY <1>1, <1>3, <2>0, <2>1, <2>2, <2>3, <2>4, <2>5, <2>6, BegunStep DEF Verbs
<1>. QED
  BY <1>2, <1>3

(* The end of a transaction: its locks go, nobody else's do.                   *)
LEMMA UnlockStep ==
  ASSUME Types, Types', LockInv, NEW w \in Workers,
         tx' = [tx EXCEPT ![w] = Idle], locks' = Unlocked(w), UNCHANGED <<now, nextId>>,
         \A v \in Workers : v # w => held'[v] = held[v],
         \A k \in Ids : locks[k] \notin {None, w} => rows'[k] = rows[k]
  PROVE  LockInv'
<1>1. tx'[w].verb \notin Verbs /\ \A v \in Workers : v # w => tx'[v] = tx[v]
  BY DEF Types, Idle, Verbs
<1>2. \A k \in Ids : /\ locks[k] = w => locks'[k] = None
                     /\ locks[k] # w => locks'[k] = locks[k]
  BY DEF Unlocked
<1>3. ASSUME NEW i \in Ids, ~ Free(i)'
      PROVE  /\ i < nextId' /\ tx'[locks'[i]].verb \in Verbs
             /\ tx'[locks'[i]].id = i \/ (tx'[locks'[i]].verb = "release" /\ ~ Present(i)')
  <2>1. locks'[i] = locks[i] /\ locks[i] # w /\ ~ Free(i) /\ locks[i] \in Workers /\ rows'[i] = rows[i]
    BY <1>2, <1>3 DEF Free, Types
  <2>. QED
    BY <1>1, <2>1 DEF LockInv, Present
<1>4. ASSUME NEW v \in Workers, tx'[v].verb \in Verbs
      PROVE  Holds(v)' /\ tx'[v].id = held'[v].id /\ locks'[tx'[v].id] = v /\ Fence(held[v])'
  <2>1. v # w /\ Holds(v) /\ tx[v].id = held[v].id /\ locks[tx[v].id] = v /\ Fence(held[v])
    BY <1>1, <1>4 DEF LockInv
  <2>2. held[v].id \in Ids /\ rows'[held[v].id] = rows[held[v].id] /\ held'[v] = held[v]
    BY <2>1, ReservationFacts, RowFacts DEF Holds, Types
  <2>. QED
    BY <1>1, <1>2, <2>1, <2>2 DEF Holds, Fence, Present
<1>5. ASSUME NEW v \in Workers, tx'[v].verb = "release"
      PROVE  /\ tx'[v].new.job = held'[v].job
             /\ \E n \in Ids : locks'[n] = v /\ n # tx'[v].id
                               /\ \A i \in Ids : locks'[i] = v => i \in {n, tx'[v].id}
  <2>1. v # w /\ tx'[v] = tx[v] /\ held'[v] = held[v] /\ tx[v].new.job = held[v].job
    BY <1>1, <1>5 DEF LockInv, Verbs
  <2>2. PICK n \in Ids : locks[n] = v /\ n # tx[v].id /\ \A i \in Ids : locks[i] = v => i \in {n, tx[v].id}
    BY <1>5, <2>1 DEF LockInv
  <2>3. locks'[n] = v /\ \A i \in Ids : locks'[i] = v => locks[i] = v
    BY <1>2, <2>1, <2>2, RowFacts
  <2>. QED
    BY <2>1, <2>2, <2>3
<1>6. \A v \in Workers : tx'[v].verb = "extend" =>
         /\ tx'[v].new.job = held'[v].job
         /\ tx'[v].new.attempts = held'[v].attempts /\ tx'[v].new.created = held'[v].created
         /\ tx'[v].new.reserved # None
         /\ held'[v].at <= tx'[v].new.reserved /\ tx'[v].new.reserved <= now'
  <2>1. \A v \in Workers : tx'[v].verb = "extend" => v # w /\ tx'[v] = tx[v] /\ held'[v] = held[v]
    BY <1>1 DEF Verbs
  <2>. QED
    BY <2>1 DEF LockInv
<1>. QED
  BY <1>3, <1>4, <1>5, <1>6 DEF LockInv

(* COMMIT of an ACK, of a RELEASE and of an EXTEND, and ROLLBACK.              *)
LEMMA CommitFacts ==
  ASSUME IInv, NEW w \in Workers, tx[w].verb \in Verbs
  PROVE  /\ Holds(w) /\ held[w] \in Reservations /\ held[w].id \in Ids /\ tx[w].id = held[w].id
         /\ locks[held[w].id] = w /\ Fence(held[w]) /\ Present(held[w].id)
         /\ rows[held[w].id].job = held[w].job /\ held[w].job \in Jobs
         /\ tx[w].new \in Row
<1>1. Holds(w) /\ tx[w].id = held[w].id /\ locks[tx[w].id] = w /\ Fence(held[w]) /\ TokenFits(held[w])
  BY DEF IInv, LockInv, TokenInv
<1>2. held[w] \in Reservations
  BY <1>1 DEF Holds, IInv, Types
<1>3. tx[w].new \in Row
  BY DEF IInv, Types, TxState
<1>. QED
  BY <1>1, <1>2, <1>3, ReservationFacts DEF Fence, TokenFits

LEMMA CommitAck ==
  ASSUME IInv, NEW w \in Workers, Commit(w), tx[w].verb = "ack"
  PROVE  IInv'
<1>. USE DEF IInv
<1>0. PICK i \in Ids : /\ i = held[w].id /\ tx[w].id = i /\ locks[i] = w /\ Present(i)
                       /\ Fence(held[w]) /\ Holds(w) /\ rows[i].job = held[w].job /\ rows[i].job \in Jobs
  BY CommitFacts DEF Verbs
<1>1. /\ UNCHANGED <<now, nextId, undelivered, unreserves>> /\ Settles(w)
      /\ tx' = [tx EXCEPT ![w] = Idle] /\ locks' = Unlocked(w)
      /\ rows' = [rows EXCEPT ![i] = NoRow]
      /\ settled' = [settled EXCEPT ![rows[i].job] = "acked"]
      /\ commits' = [commits EXCEPT ![rows[i].job] = @ + 1]
  BY <1>0 DEF Commit
<1>2. LetGo(w) /\ held' \in [Workers -> Reservations \cup {None}] /\ unsure' \subseteq Workers
  BY <1>1, SettlesLetsGo
<1>3. Only(i) /\ rows'[i] = NoRow /\ ~ Present(i)' /\ rows' \in [Ids -> Row]
  BY <1>1, RowFacts DEF Only, Types, Present
<1>4. /\ locks' \in [Ids -> Workers \cup {None}] /\ Free(i)' /\ \A k \in Ids : Free(k) => Free(k)'
  BY <1>0, <1>1 DEF Unlocked, Types, Free
<1>5. Types' /\ now <= now' /\ nextId <= nextId'
  <2>1. Idle \in TxState
    BY RowFacts DEF Idle, TxState
  <2>2. commits' \in [Jobs -> Nat] /\ settled' \in [Jobs -> Fates]
    BY <1>0, <1>1 DEF Types, Fates
  <2>3. tx' \in [Workers -> TxState]
    BY <1>1, <2>1 DEF Types
  <2>. QED
    BY <1>1, <1>2, <1>3, <1>4, <2>2, <2>3, Scalars DEF Types
<1>6. TableInv'
  BY <1>0, <1>1, <1>3, <1>5, TableRemove
<1>7. TokenInv'
  <2>1. \A k \in Ids : RowStays(k)
    BY <1>3, <1>4, RowFacts DEF RowStays, Only, Present, Types
  <2>. QED
    BY <1>1, <1>2, <1>5, <2>1, LetGoTokens
<1>8. LockInv'
  <2>1. \A v \in Workers : v # w => held'[v] = held[v]
    BY <1>2 DEF LetGo
  <2>2. \A k \in Ids : locks[k] \notin {None, w} => rows'[k] = rows[k]
    BY <1>0, <1>3 DEF Only
  <2>. QED
    BY <1>1, <1>5, <2>1, <2>2, UnlockStep
<1>9. LeaseInv'
  <2>1. settled[rows[i].job] = "queued"
    BY <1>0 DEF TableInv
  <2>2. \A j \in Jobs : settled[j] = "cleared" => settled'[j] = "cleared"
    BY <1>1, <2>1 DEF Types
  <2>. QED
    BY <1>0, <1>1, <1>2, <1>3, <1>5, <2>2, LetGoLease DEF Only
<1>. QED
  BY <1>5, <1>6, <1>7, <1>8, <1>9

LEMMA CommitRelease ==
  ASSUME IInv, NEW w \in Workers, Commit(w), tx[w].verb = "release"
  PROVE  IInv'
<1>. USE DEF IInv
<1>0. PICK i \in Ids : /\ i = held[w].id /\ tx[w].id = i /\ locks[i] = w /\ Present(i)
                       /\ Fence(held[w]) /\ Holds(w) /\ rows[i].job = held[w].job /\ rows[i].job \in Jobs
                       /\ tx[w].new \in Row
  BY CommitFacts DEF Verbs
<1>1. /\ UNCHANGED <<now, nextId, undelivered, unreserves, settled, commits>> /\ Settles(w)
      /\ tx' = [tx EXCEPT ![w] = Idle] /\ locks' = Unlocked(w)
      /\ rows' = [k \in Ids |-> IF k = i THEN NoRow ELSE IF locks[k] = w THEN tx[w].new ELSE rows[k]]
  BY <1>0 DEF Commit
<1>2. LetGo(w) /\ held' \in [Workers -> Reservations \cup {None}] /\ unsure' \subseteq Workers
  BY <1>1, SettlesLetsGo
<1>3. PICK n \in Ids : locks[n] = w /\ n # i /\ \A k \in Ids : locks[k] = w => k \in {n, i}
  BY <1>0 DEF LockInv
<1>4. ~ Present(n) /\ ~ Free(n) /\ n < nextId /\ tx[w].new.job = rows[i].job
  BY <1>0, <1>3, RowFacts DEF LockInv, Free
<1>5. /\ rows'[i] = NoRow /\ rows'[n] = tx[w].new /\ ~ Present(i)' /\ rows' \in [Ids -> Row]
      /\ \A k \in Ids : k \notin {i, n} => rows'[k] = rows[k]
  BY <1>0, <1>1, <1>3, RowFacts DEF Types, Present
<1>6. /\ locks' \in [Ids -> Workers \cup {None}] /\ Free(i)' /\ \A k \in Ids : Free(k) => Free(k)'
  BY <1>0, <1>1 DEF Unlocked, Types, Free
<1>7. Types' /\ now <= now' /\ nextId <= nextId'
  <2>1. Idle \in TxState
    BY RowFacts DEF Idle, TxState
  <2>2. tx' \in [Workers -> TxState]
    BY <1>1, <2>1 DEF Types
  <2>. QED
    BY <1>1, <1>2, <1>5, <1>6, <2>2, Scalars DEF Types
<1>8. TableInv'
  BY <1>0, <1>1, <1>3, <1>4, <1>5, <1>7, TableMove
<1>9. TokenInv'
  <2>1. \A k \in Ids : RowStays(k)
    BY <1>4, <1>5, <1>6, RowFacts DEF RowStays, Present, Types
  <2>. QED
    BY <1>1, <1>2, <1>7, <2>1, LetGoTokens
<1>10. LockInv'
  BY <1>0, <1>1, <1>2, <1>3, <1>5, <1>7, UnlockStep DEF LetGo
<1>11. LeaseInv'
  BY <1>0, <1>1, <1>2, <1>4, <1>5, <1>7, LetGoLease
<1>. QED
  BY <1>7, <1>8, <1>9, <1>10, <1>11

LEMMA CommitExtend ==
  ASSUME IInv, NEW w \in Workers, Commit(w), tx[w].verb = "extend"
  PROVE  IInv'
<1>. USE DEF IInv
<1>0. PICK i \in Ids : /\ i = held[w].id /\ tx[w].id = i /\ locks[i] = w /\ Present(i)
                       /\ Fence(held[w]) /\ Holds(w) /\ rows[i].job = held[w].job
                       /\ held[w] \in Reservations
  BY CommitFacts DEF Verbs
<1>a. PICK y \in Row : y = tx[w].new
  BY CommitFacts DEF Verbs
<1>b. PICK t \in Times : t = y.reserved /\ held[w].at <= t /\ t <= now
  BY <1>a, RowFacts DEF LockInv
<1>1. /\ UNCHANGED <<now, nextId, undelivered, unreserves, settled, commits, unsure>>
      /\ tx' = [tx EXCEPT ![w] = Idle] /\ locks' = Unlocked(w)
      /\ rows' = [rows EXCEPT ![i] = y]
      /\ held' \in {held, [held EXCEPT ![w].at = t]}
  BY <1>0, <1>a, <1>b DEF Commit
<1>2. Only(i) /\ rows'[i] = y /\ rows' \in [Ids -> Row]
  BY <1>1 DEF Only, Types
<1>3. y.job = held[w].job /\ y.attempts = held[w].attempts /\ y.created = held[w].created
  BY <1>a DEF LockInv
<1>4. locks' \in [Ids -> Workers \cup {None}] /\ \A k \in Ids : Free(k) => Free(k)'
  BY <1>1 DEF Unlocked, Types, Free
<1>5. Types'
  <2>1. Idle \in TxState
    BY RowFacts DEF Idle, TxState
  <2>2. tx' \in [Workers -> TxState]
    BY <1>1, <2>1 DEF Types
  <2>3. [held[w] EXCEPT !.at = t] \in Reservations
    BY <1>0 DEF Reservations
  <2>4. held' \in [Workers -> Reservations \cup {None}]
    BY <1>1, <2>3 DEF Types
  <2>. QED
    BY <1>1, <1>2, <1>4, <2>2, <2>4 DEF Types
<1>6. TableInv' /\ TokenInv' /\ LeaseInv'
  BY <1>0, <1>b, <1>1, <1>2, <1>3, <1>4, <1>5, LeaseRenewed
<1>7. LockInv'
  <2>1. \A v \in Workers : v # w => held'[v] = held[v]
    BY <1>1 DEF Types
  <2>. QED
    BY <1>0, <1>1, <1>2, <1>5, <2>1, UnlockStep DEF Only
<1>. QED
  BY <1>5, <1>6, <1>7

LEMMA RollbackStep ==
  ASSUME IInv, NEW w \in Workers, Rollback(w)
  PROVE  IInv'
<1>. USE DEF IInv
<1>1. /\ UNCHANGED <<now, rows, nextId, undelivered, unreserves, settled, commits>>
      /\ tx' = [tx EXCEPT ![w] = Idle] /\ locks' = Unlocked(w)
  BY DEF Rollback, table, history
<1>2. /\ held' \in [Workers -> Reservations \cup {None}] /\ unsure' \subseteq Workers
      /\ \A v \in Workers : v # w => held'[v] = held[v]
      /\ \A v \in Workers : Holds(v)' => Holds(v) /\ held'[v] = held[v] /\ (v \notin unsure' => v \notin unsure)
  BY DEF Rollback, Types, Holds
<1>3. locks' \in [Ids -> Workers \cup {None}] /\ \A k \in Ids : Free(k) => Free(k)'
  BY <1>1 DEF Unlocked, Types, Free
<1>4. Types' /\ now <= now' /\ nextId <= nextId'
  <2>1. Idle \in TxState
    BY RowFacts DEF Idle, TxState
  <2>2. tx' \in [Workers -> TxState]
    BY <1>1, <2>1 DEF Types
  <2>. QED
    BY <1>1, <1>2, <1>3, <2>2, Scalars DEF Types
<1>5. TableInv'
  BY <1>1, <1>4, TableKeep
<1>6. TokenInv'
  <2>1. \A k \in Ids : RowStays(k)
    BY <1>1, <1>3, RowFacts DEF RowStays, Present, Types
  <2>2. \A v \in Workers : Holds(v)' => Holds(v) /\ SameToken(held'[v], held[v]) /\ held'[v].at <= now'
    BY <1>1, <1>2 DEF SameToken, TokenInv, TokenFits
  <2>. QED
    BY <1>1, <1>4, <2>1, <2>2, TokenKeep DEF Loose, TokenInv
<1>7. LockInv'
  BY <1>1, <1>2, <1>4, UnlockStep
<1>8. LeaseInv'
  BY <1>1, <1>2, <1>4, LeaseKeep
<1>. QED
  BY <1>4, <1>5, <1>6, <1>7, <1>8

-----------------------------------------------------------------------------
(* The theorems.                                                               *)

LEMMA InvInit == Init => IInv
<1>. SUFFICES ASSUME Init PROVE IInv
  OBVIOUS
<1>1. Types
  <2>1. Idle \in TxState
    BY RowFacts DEF Idle, TxState
  <2>. QED
    BY <2>1, RowFacts, QueueLeaseAssumption DEF Init, Types, Times, Ids, Fates
<1>2. TableInv
  BY RowFacts DEF Init, TableInv, Present
<1>3. TokenInv /\ LeaseInv
  BY DEF Init, TokenInv, LeaseInv, Loose, Holds
<1>4. LockInv
  BY DEF Init, LockInv, Idle, Verbs, Free
<1>. QED
  BY <1>1, <1>2, <1>3, <1>4 DEF IInv

LEMMA InvStep == IInv /\ [Next]_vars => IInv'
<1>. SUFFICES ASSUME IInv, [Next]_vars PROVE IInv'
  OBVIOUS
<1>1. CASE UNCHANGED vars
  <2>1. Types' /\ now <= now'
    BY <1>1, Scalars DEF vars, IInv, Types
  <2>. QED
    BY <1>1, <2>1, Quiet DEF vars, IInv, TokenInv, Loose, Holds
<1>2. ASSUME NEW w \in Workers, Commit(w) PROVE IInv'
  BY <1>2, CommitAck, CommitRelease, CommitExtend DEF Commit
<1>3. CASE Next
  BY <1>2, <1>3, TickStep, ReserveStep, ClearStep, EnqueueStep, SendUnreserveStep, DeliverStep,
     ForgetStep, UnreserveStep, AckStep, ExtendStep, AbandonStep, AckInTxStep, ExtendInTxStep,
     RollbackStep, ReleaseStep, ReleaseInTxStep DEF Next
<1>. QED
  BY <1>1, <1>3

(* The queue keeps its types.                                                  *)
THEOREM QueueTypeCorrect == Spec => []TypeOK
<1>1. IInv => TypeOK
  BY TypesOK DEF IInv
<1>. QED
  BY <1>1, InvInit, InvStep, PTL DEF Spec

(* A queued job has exactly one row whatever workers, leases, unreserves and    *)
(* transactions do; a job that is acknowledged or cleared has none.            *)
THEOREM JobsConserved == Spec => []NoJobLostOrDoubled
<1>1. IInv => NoJobLostOrDoubled
  <2>. SUFFICES ASSUME IInv, NEW j \in Jobs
                PROVE  Cardinality({i \in Ids : rows[i].job = j}) = IF settled[j] = "queued" THEN 1 ELSE 0
    BY DEF NoJobLostOrDoubled
  <2>. DEFINE S == {i \in Ids : rows[i].job = j}
  <2>1. j # None
    BY RowFacts
  <2>2. CASE settled[j] = "queued"
    <3>1. PICK i \in Ids : rows[i].job = j
      BY <2>2 DEF IInv, TableInv
    <3>2. S = {i}
      BY <2>1, <3>1 DEF IInv, TableInv, Present
    <3>. QED
      BY <2>2, <3>2, FS_Singleton
  <2>3. CASE settled[j] # "queued"
    <3>1. S = {}
      BY <2>1, <2>3 DEF IInv, TableInv, Present
    <3>. QED
      BY <2>3, <3>1, FS_EmptySet
  <2>. QED
    BY <2>2, <2>3
<1>. QED
  BY <1>1, InvInit, InvStep, PTL DEF Spec

(* Business writes committed with an ACK of a job are committed at most once.  *)
THEOREM EffectsOnce == Spec => []EffectOnce
<1>1. IInv => EffectOnce
  BY DEF IInv, TableInv, EffectOnce
<1>. QED
  BY <1>1, InvInit, InvStep, PTL DEF Spec

(* A worker's token fences its job until the deadline it was told.             *)
THEOREM HoldersKeepTheirJobs == Spec => []HolderKeepsItsJob
<1>1. IInv => HolderKeepsItsJob
  BY DEF IInv, LeaseInv, Leased, HolderKeepsItsJob, Holds
<1>. QED
  BY <1>1, InvInit, InvStep, PTL DEF Spec

=============================================================================
