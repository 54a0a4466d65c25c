-------------------------- MODULE StreamFlowProofs --------------------------
(* Flow control conserves its windows and loses no wake-up, for any number of  *)
(* streams, frame sizes, windows, cap and channel capacity.                    *)
EXTENDS StreamFlow, TLAPS, FiniteSetTheorems, SequenceTheorems, WellFoundedInduction

-----------------------------------------------------------------------------
(* Sums.  upto is the only sequence of partial sums: it exists and is unique,  *)
(* and from the partial sums of one sequence those of the next are made.       *)

Sums(w, seq, n, g) == g[0] = 0 /\ \A i \in 1 .. n : g[i] = g[i - 1] + w[seq[i]]
Partial(w, seq, n, g) == g \in [0 .. n -> Nat] /\ Sums(w, seq, n, g)

(* A set of naturals that is not empty has a least element.                     *)
LEMMA LeastNat ==
  ASSUME NEW T, T \subseteq Nat, T # {}
  PROVE  \E m \in T : \A y \in T : m <= y
<1>1. PICK m \in T : \A y \in T : ~ (<<y, m>> \in OpToRel(<, Nat))
  BY NatLessThanWellFounded, WFMin
<1>2. ASSUME NEW y \in T, y < m PROVE FALSE
  <2>1. y \in Nat /\ m \in Nat
    OBVIOUS
  <2>2. <<y, m>> \in OpToRel(<, Nat)
    BY <1>2, <2>1 DEF OpToRel
  <2> QED
    BY <1>1, <2>2
<1> QED
  BY <1>2

LEMMA PartialExists ==
  ASSUME NEW S, NEW w \in [S -> Nat], NEW seq \in Seq(S)
  PROVE  \E g : Partial(w, seq, Len(seq), g)
<1> DEFINE Bad == {n \in 0 .. Len(seq) : ~ \E g : Partial(w, seq, n, g)}
<1>0. Len(seq) \in Nat /\ \A i \in 1 .. Len(seq) : seq[i] \in S
  OBVIOUS
<1>1. SUFFICES ASSUME Len(seq) \in Bad PROVE FALSE
  BY <1>0
<1>2. PICK n \in Bad : \A y \in Bad : n <= y
  <2>1. Bad \subseteq Nat /\ Bad # {}
    BY <1>0, <1>1
  <2> HIDE DEF Bad
  <2> QED
    BY <2>1, LeastNat
<1>3. n \in 0 .. Len(seq) /\ ~ \E g : Partial(w, seq, n, g)
  BY <1>2
<1>4. CASE n = 0
  <2>1. Partial(w, seq, 0, [i \in 0 .. 0 |-> 0])
    BY DEF Partial, Sums
  <2> QED
    BY <1>3, <1>4, <2>1
<1>5. CASE n > 0
  <2>1. n - 1 \in 0 .. Len(seq) /\ n - 1 \notin Bad
    BY <1>0, <1>2, <1>3, <1>5
  <2>2. PICK g : Partial(w, seq, n - 1, g)
    BY <2>1
  <2> DEFINE h == [i \in 0 .. n |-> IF i = n THEN g[n - 1] + w[seq[n]] ELSE g[i]]
  <2>3. g[n - 1] \in Nat /\ w[seq[n]] \in Nat
    BY <1>0, <1>3, <1>5, <2>2 DEF Partial, Sums
  <2>4. h \in [0 .. n -> Nat] /\ h[0] = 0
    BY <1>3, <1>5, <2>2, <2>3 DEF Partial, Sums
  <2>5. \A i \in 1 .. n : h[i] = h[i - 1] + w[seq[i]]
    <3> TAKE i \in 1 .. n
    <3>1. CASE i = n
      BY <1>3, <1>5, <3>1
    <3>2. CASE i # n
      <4>1. i \in 1 .. n - 1 /\ i - 1 \in 0 .. n - 1 /\ i - 1 # n /\ i \in 0 .. n /\ i - 1 \in 0 .. n
        BY <1>3, <3>2
      <4> QED
        BY <2>2, <3>2, <4>1 DEF Partial, Sums
    <3> QED
      BY <3>1, <3>2
  <2>6. Partial(w, seq, n, h)
    BY <2>4, <2>5 DEF Partial, Sums
  <2> QED
    BY <1>3, <2>6
<1> QED
  BY <1>3, <1>4, <1>5

LEMMA PartialUnique ==
  ASSUME NEW w, NEW seq, NEW n \in Nat, NEW g, NEW h,
         Partial(w, seq, n, g), Sums(w, seq, n, h)
  PROVE  g[n] = h[n]
<1> DEFINE Bad == {i \in 0 .. n : g[i] # h[i]}
<1>1. SUFFICES ASSUME Bad # {} PROVE FALSE
  <2>1. n \in 0 .. n
    OBVIOUS
  <2> QED
    BY <2>1
<1>2. PICK m \in Bad : \A y \in Bad : m <= y
  <2>1. Bad \subseteq Nat
    OBVIOUS
  <2> HIDE DEF Bad
  <2> QED
    BY <1>1, <2>1, LeastNat
<1>3. m \in 0 .. n /\ g[m] # h[m]
  BY <1>2
<1>4. m # 0
  BY <1>3 DEF Partial, Sums
<1>5. m - 1 \in 0 .. n /\ m - 1 \notin Bad /\ m \in 1 .. n
  BY <1>2, <1>3, <1>4
<1>6. g[m - 1] = h[m - 1]
  BY <1>5
<1> QED
  BY <1>3, <1>5, <1>6 DEF Partial, Sums

LEMMA TotalIs ==
  ASSUME NEW S, NEW w \in [S -> Nat], NEW seq \in Seq(S), NEW g, Partial(w, seq, Len(seq), g)
  PROVE  Total(w, seq) = g[Len(seq)]
<1> DEFINE Is(f) == f = [i \in 0 .. Len(seq) |-> IF i = 0 THEN 0 ELSE f[i - 1] + w[seq[i]]]
           u == CHOOSE f : Is(f)
<1>0. Len(seq) \in Nat
  OBVIOUS
<1>1. Is(g)
  <2>1. g = [i \in 0 .. Len(seq) |-> g[i]]
    BY DEF Partial, Sums
  <2>2. \A i \in 0 .. Len(seq) : g[i] = IF i = 0 THEN 0 ELSE g[i - 1] + w[seq[i]]
    BY <1>0 DEF Partial, Sums
  <2> QED
    BY <2>1, <2>2
<1>2. Is(u)
  BY <1>1
<1>3. Sums(w, seq, Len(seq), u)
  <2> HIDE DEF u
  <2>1. \A i \in 0 .. Len(seq) : u[i] = IF i = 0 THEN 0 ELSE u[i - 1] + w[seq[i]]
    BY <1>2
  <2> QED
    BY <1>0, <2>1 DEF Sums
<1>4. Total(w, seq) = u[Len(seq)]
  BY DEF Total
<1> HIDE DEF u
<1>5. g[Len(seq)] = u[Len(seq)]
  BY <1>0, <1>3, PartialUnique
<1> QED
  BY <1>4, <1>5

LEMMA TotalNat ==
  ASSUME NEW S, NEW w \in [S -> Nat], NEW seq \in Seq(S)
  PROVE  Total(w, seq) \in Nat
<1>1. PICK g : Partial(w, seq, Len(seq), g)
  BY PartialExists
<1>2. g[Len(seq)] \in Nat
  <2>1. Len(seq) \in 0 .. Len(seq)
    OBVIOUS
  <2> QED
    BY <1>1, <2>1 DEF Partial, Sums
<1>3. Total(w, seq) = g[Len(seq)]
  BY <1>1, TotalIs
<1> QED
  BY <1>2, <1>3

LEMMA TotalEmpty ==
  ASSUME NEW S, NEW w \in [S -> Nat]
  PROVE  Total(w, <<>>) = 0
<1>1. <<>> \in Seq(S) /\ Len(<<>>) = 0
  OBVIOUS
<1>2. PICK g : Partial(w, <<>>, 0, g)
  BY <1>1, PartialExists
<1> QED
  BY <1>1, <1>2, TotalIs DEF Partial, Sums

LEMMA TotalZero ==
  ASSUME NEW S, NEW w \in [S -> Nat], NEW seq \in Seq(S), \A x \in S : w[x] = 0
  PROVE  Total(w, seq) = 0
<1>1. PICK g : g = [i \in 0 .. Len(seq) |-> 0]
  OBVIOUS
<1>2. Len(seq) \in Nat /\ \A i \in 1 .. Len(seq) : seq[i] \in S
  OBVIOUS
<1>3. ASSUME NEW i \in 1 .. Len(seq) PROVE g[i] = g[i - 1] + w[seq[i]]
  <2>1. i \in 0 .. Len(seq) /\ i - 1 \in 0 .. Len(seq) /\ w[seq[i]] = 0
    BY <1>2
  <2> QED
    BY <1>1, <2>1
<1>4. Partial(w, seq, Len(seq), g)
  BY <1>1, <1>2, <1>3 DEF Partial, Sums
<1>5. Total(w, seq) = g[Len(seq)]
  BY <1>4, TotalIs
<1> QED
  BY <1>1, <1>2, <1>5

LEMMA TotalAppend ==
  ASSUME NEW S, NEW w \in [S -> Nat], NEW seq \in Seq(S), NEW x \in S
  PROVE  Total(w, Append(seq, x)) = Total(w, seq) + w[x]
<1> DEFINE n == Len(seq)
<1>1. PICK q : q = Append(seq, x)
  OBVIOUS
<1>2. q \in Seq(S) /\ Len(q) = n + 1 /\ q[n + 1] = x /\ n \in Nat /\ \A i \in 1 .. n : q[i] = seq[i]
  BY <1>1
<1>3. PICK g : Partial(w, q, n + 1, g)
  BY <1>2, PartialExists
<1> DEFINE h == [i \in 0 .. n |-> g[i]]
<1>4. Partial(w, seq, n, h)
  <2>1. h \in [0 .. n -> Nat] /\ h[0] = 0
    BY <1>2, <1>3 DEF Partial, Sums
  <2>2. ASSUME NEW i \in 1 .. n PROVE h[i] = h[i - 1] + w[seq[i]]
    <3>1. i \in 1 .. n + 1 /\ i - 1 \in 0 .. n /\ i \in 0 .. n /\ q[i] = seq[i]
      BY <1>2
    <3> QED
      BY <1>3, <3>1 DEF Partial, Sums
  <2> QED
    BY <2>1, <2>2 DEF Partial, Sums
<1>5. g[n + 1] = g[n] + w[x]
  <2>1. n + 1 \in 1 .. n + 1 /\ (n + 1) - 1 = n
    BY <1>2
  <2>2. g[n + 1] = g[(n + 1) - 1] + w[q[n + 1]]
    BY <1>3, <2>1 DEF Partial, Sums
  <2> QED
    BY <1>2, <2>1, <2>2
<1>6. Total(w, q) = g[n + 1] /\ Total(w, seq) = h[n]
  BY <1>2, <1>3, <1>4, TotalIs
<1> QED
  BY <1>1, <1>2, <1>5, <1>6

LEMMA TotalTail ==
  ASSUME NEW S, NEW w \in [S -> Nat], NEW seq \in Seq(S), seq # <<>>
  PROVE  Total(w, seq) = w[Head(seq)] + Total(w, Tail(seq))
<1> DEFINE n == Len(seq)
<1>1. PICK q : q = Tail(seq)
  OBVIOUS
<1>2. /\ q \in Seq(S) /\ Len(q) = n - 1 /\ n \in Nat /\ n > 0 /\ Head(seq) = seq[1]
      /\ \A i \in 1 .. n - 1 : q[i] = seq[i + 1]
  BY <1>1
<1>3. PICK g : Partial(w, seq, n, g)
  BY PartialExists
<1>4. PICK k : Partial(w, q, n - 1, k)
  BY <1>2, PartialExists
<1>5. g[1] = w[seq[1]] /\ g[1] \in Nat
  BY <1>2, <1>3 DEF Partial, Sums
<1>11. PICK h : h = [i \in 0 .. n - 1 |-> g[i + 1] - g[1]]
  OBVIOUS
<1>6. h[0] = 0
  BY <1>2, <1>5, <1>11
<1>7. ASSUME NEW i \in 1 .. n - 1 PROVE h[i] = h[i - 1] + w[q[i]]
  <2>1. i + 1 \in 1 .. n /\ i \in 0 .. n - 1 /\ i - 1 \in 0 .. n - 1 /\ q[i] = seq[i + 1]
        /\ (i + 1) - 1 = i /\ (i - 1) + 1 = i
    BY <1>2
  <2>2. g[i + 1] = g[i] + w[q[i]] /\ g[i] \in Nat /\ g[i + 1] \in Nat
    <3>1. g[i + 1] = g[(i + 1) - 1] + w[seq[i + 1]]
      BY <1>3, <2>1 DEF Partial, Sums
    <3>2. i \in 0 .. n /\ i + 1 \in 0 .. n
      BY <1>2
    <3> QED
      BY <1>3, <2>1, <3>1, <3>2 DEF Partial, Sums
  <2>3. w[q[i]] \in Nat
    BY <1>2
  <2> QED
    BY <1>5, <1>11, <2>1, <2>2, <2>3
<1>8. k[n - 1] = h[n - 1]
  <2>1. n - 1 \in Nat /\ n - 1 \in 0 .. n - 1
    BY <1>2
  <2>2. PICK m \in Nat : m = n - 1
    BY <2>1
  <2>3. Partial(w, q, m, k) /\ Sums(w, q, m, h)
    BY <1>4, <1>6, <1>7, <2>2 DEF Sums
  <2>4. k[m] = h[m]
    BY <2>3, PartialUnique
  <2> QED
    BY <2>2, <2>4
<1>9. h[n - 1] = g[n] - g[1] /\ g[n] \in Nat
  BY <1>2, <1>3, <1>11 DEF Partial, Sums
<1>10. Total(w, seq) = g[n] /\ Total(w, q) = k[n - 1]
  BY <1>2, <1>3, <1>4, TotalIs
<1> QED
  BY <1>1, <1>2, <1>5, <1>8, <1>9, <1>10

Elsewhere(v, w, seq, k) == \A i \in 1 .. Len(seq) : i # k => v[seq[i]] = w[seq[i]]

LEMMA TotalUpdateAt ==
  ASSUME NEW S, NEW w \in [S -> Nat], NEW seq \in Seq(S), NEW v \in [S -> Nat],
         NEW k \in 1 .. Len(seq), Elsewhere(v, w, seq, k)
  PROVE  Total(v, seq) = Total(w, seq) - w[seq[k]] + v[seq[k]]
<1> DEFINE n == Len(seq)
<1>1. n \in Nat /\ \A i \in 1 .. n : w[seq[i]] \in Nat /\ v[seq[i]] \in Nat
  OBVIOUS
<1>2. PICK g : Partial(w, seq, n, g)
  BY PartialExists
<1>3. PICK j : Partial(v, seq, n, j)
  BY PartialExists
<1>4. PICK d \in Int : d = v[seq[k]] - w[seq[k]]
  BY <1>1
<1>10. PICK h : h = [i \in 0 .. n |-> IF i < k THEN g[i] ELSE g[i] + d]
  OBVIOUS
<1>5. h[0] = 0
  BY <1>1, <1>2, <1>10 DEF Partial, Sums
<1>6. ASSUME NEW i \in 1 .. n PROVE h[i] = h[i - 1] + v[seq[i]]
  <2>0. i \in 0 .. n /\ i - 1 \in 0 .. n
    BY <1>1
  <2>1. g[i] = g[i - 1] + w[seq[i]] /\ g[i - 1] \in Nat /\ g[i] \in Nat
    BY <1>2, <2>0 DEF Partial, Sums
  <2>6. h[i] = (IF i < k THEN g[i] ELSE g[i] + d)
        /\ h[i - 1] = (IF i - 1 < k THEN g[i - 1] ELSE g[i - 1] + d)
    BY <1>10, <2>0
  <2>2. w[seq[i]] \in Nat /\ v[seq[i]] \in Nat
    BY <1>1
  <2>7. k \in Nat /\ i \in Nat
    OBVIOUS
  <2>3. CASE i < k
    <3>1. v[seq[i]] = w[seq[i]] /\ i - 1 < k
      BY <2>3, <2>7 DEF Elsewhere
    <3> QED
      BY <2>1, <2>3, <2>6, <3>1
  <2>4. CASE i = k
    <3>1. i - 1 < k /\ ~ (i < k)
      BY <2>4, <2>7
    <3>2. d = v[seq[i]] - w[seq[i]]
      BY <1>4, <2>4
    <3>3. h[i] = g[i] + d /\ h[i - 1] = g[i - 1]
      BY <2>6, <3>1
    <3>4. PICK a \in Nat, b \in Nat : a = w[seq[i]] /\ b = v[seq[i]]
      BY <2>2
    <3>5. PICK x \in Nat, y \in Nat : x = g[i - 1] /\ y = g[i]
      BY <2>1
    <3>6. y = x + a /\ d = b - a /\ h[i] = y + d /\ h[i - 1] = x
      BY <2>1, <3>2, <3>3, <3>4, <3>5
    <3>7. y + d = x + b
      BY <3>6
    <3> QED
      BY <3>4, <3>6, <3>7
  <2>5. CASE i > k
    <3>1. v[seq[i]] = w[seq[i]] /\ ~ (i - 1 < k) /\ ~ (i < k)
      BY <2>5, <2>7 DEF Elsewhere
    <3>2. h[i] = g[i] + d /\ h[i - 1] = g[i - 1] + d
      BY <2>6, <3>1
    <3>3. PICK x \in Nat, y \in Nat, a \in Nat : x = g[i - 1] /\ y = g[i] /\ a = w[seq[i]]
      BY <2>1, <2>2
    <3>4. y = x + a /\ h[i] = y + d /\ h[i - 1] = x + d /\ v[seq[i]] = a
      BY <2>1, <3>1, <3>2, <3>3
    <3>5. y + d = (x + d) + a
      BY <3>4
    <3> QED
      BY <3>3, <3>4, <3>5
  <2> QED
    BY <2>3, <2>4, <2>5, <2>7
<1>7. j[n] = h[n]
  <2>1. Sums(v, seq, n, h)
    BY <1>5, <1>6 DEF Sums
  <2> QED
    BY <1>1, <1>3, <2>1, PartialUnique
<1>8. h[n] = g[n] + d /\ g[n] \in Nat
  <2>1. n \in 0 .. n /\ ~ (n < k)
    BY <1>1
  <2> QED
    BY <1>2, <1>10, <2>1 DEF Partial
<1>9. Total(w, seq) = g[n] /\ Total(v, seq) = j[n]
  BY <1>2, <1>3, TotalIs
<1> QED
  BY <1>1, <1>4, <1>7, <1>8, <1>9

OccursOnce(x, seq) ==
  \E k \in 1 .. Len(seq) : seq[k] = x /\ \A i \in 1 .. Len(seq) : i # k => seq[i] # x

(* One weight changes, of an element that occurs once.                          *)
LEMMA TotalUpdate ==
  ASSUME NEW S, NEW w \in [S -> Nat], NEW v \in [S -> Nat], NEW seq \in Seq(S), NEW x \in S,
         OccursOnce(x, seq), v = [w EXCEPT ![x] = v[x]]
  PROVE  Total(v, seq) = Total(w, seq) - w[x] + v[x]
<1>1. PICK k \in 1 .. Len(seq) : seq[k] = x /\ \A i \in 1 .. Len(seq) : i # k => seq[i] # x
  BY DEF OccursOnce
<1>2. \A y \in S : y # x => v[y] = w[y]
  OBVIOUS
<1>3. Elsewhere(v, w, seq, k)
  BY <1>1, <1>2 DEF Elsewhere
<1>4. Total(v, seq) = Total(w, seq) - w[seq[k]] + v[seq[k]]
  BY <1>3, TotalUpdateAt
<1> QED
  BY <1>1, <1>4

-----------------------------------------------------------------------------
(* The invariant.                                                              *)

Balance == [frames : Nat, bytes : Nat]

Types ==
  /\ pc \in [Streams -> {"idle", "debit", "debitAgain", "debitPoll", "debitPark",
                         "reserve", "reserveAgain", "reservePoll", "reservePark",
                         "send", "ended"}]
  /\ size \in [Streams -> Sizes \cup {0}]
  /\ left \in 0 .. MaxFrames
  /\ stopped \subseteq Streams
  /\ credit \in [Streams -> Balance] /\ unread \in [Streams -> Balance]
  /\ permit \in [Streams -> BOOLEAN]
  /\ used \in Nat
  /\ heard \subseteq Streams
  /\ releasing \subseteq Streams \cup {Writer}
  /\ chan \in Seq(Frame) /\ Len(chan) <= ChannelCapacity
  /\ writing \in Seq(Frame) /\ Len(writing) <= 1
  /\ writer \in {"up", "gone"}
  /\ updating \subseteq Streams

(* A frame being sent is one Produce let through.                              *)
Sending == \A p \in Streams : pc[p] \notin {"idle", "ended"} => size[p] \in Sizes

Reserved == used = Total(Size, Queued) + Total(Held, SetToSeq(Streams)) /\ used <= Cap

FramesAt(p) == credit[p].frames + Taken(p).frames + Total(CountOf(p), Queued) + unread[p].frames
BytesAt(p) == credit[p].bytes + Taken(p).bytes + Total(BytesOf(p), Queued) + unread[p].bytes

Granted(p) ==
  pc[p] # "ended" =>
    /\ FramesAt(p) <= WindowFrames /\ BytesAt(p) <= WindowBytes
    /\ writer = "up" => FramesAt(p) = WindowFrames /\ BytesAt(p) = WindowBytes

Within(p) ==
  /\ credit[p].frames <= WindowFrames /\ credit[p].bytes <= WindowBytes
  /\ unread[p].frames <= WindowFrames /\ unread[p].bytes <= WindowBytes

(* The wake-up of a producer about to park is on its way as well: its permit    *)
(* is stored, or its registration has been heard.                               *)
CreditComes(p) ==
  /\ pc[p] = "debitPark" \/ (pc[p] = "debitPoll" /\ ~ permit[p])
  /\ Fits(p)
  => p \in updating

RoomComes(p) ==
  /\ pc[p] = "reservePark" \/ (pc[p] = "reservePoll" /\ p \notin heard)
  /\ used + size[p] <= Cap
  => releasing # {}

Inv ==
  /\ Types /\ Sending /\ Reserved
  /\ \A p \in Streams : Granted(p) /\ Within(p) /\ CreditComes(p) /\ RoomComes(p)

-----------------------------------------------------------------------------
(* The queue and the reservations.                                             *)

LEMMA Weights ==
  /\ Size \in [Frame -> Nat]
  /\ \A p \in Streams : CountOf(p) \in [Frame -> Nat] /\ BytesOf(p) \in [Frame -> Nat]
<1>1. \A f \in Frame : f.size \in Nat
  BY FlowAssumption DEF Frame
<1> QED
  BY <1>1 DEF Size, CountOf, BytesOf

LEMMA OrderOnce ==
  /\ SetToSeq(Streams) \in Seq(Streams)
  /\ \A p \in Streams : OccursOnce(p, SetToSeq(Streams))
<1> DEFINE n == Cardinality(Streams)
           One(f) == IsInjective(f)
<1>1. n \in Nat /\ ExistsBijection(1 .. n, Streams)
  BY FlowAssumption, FS_CardinalityType
<1> HIDE DEF n
<1>2. \E f \in [1 .. n -> Streams] : One(f)
  BY <1>1 DEF ExistsBijection, Bijection, Injection
<1>3. PICK f : f = CHOOSE x \in [1 .. n -> Streams] : One(x)
  OBVIOUS
<1>4. f \in [1 .. n -> Streams] /\ One(f)
  BY <1>2, <1>3
<1>5. SetToSeq(Streams) = f
  BY <1>3 DEF SetToSeq, n
<1>6. f \in Injection(1 .. n, Streams)
  BY <1>4 DEF Injection
<1>7. IsFiniteSet(1 .. n) /\ Cardinality(1 .. n) = Cardinality(Streams)
  BY <1>1, FS_Interval DEF n
<1>8. f \in Surjection(1 .. n, Streams)
  BY <1>6, <1>7, FlowAssumption, FS_Injection
<1>9. f \in Seq(Streams) /\ Len(f) = n
  BY <1>1, <1>4, SeqDef
<1>10. ASSUME NEW p \in Streams
       PROVE  \E k \in 1 .. n : f[k] = p /\ \A i \in 1 .. n : i # k => f[i] # p
  <2>1. PICK k \in 1 .. n : f[k] = p
    BY <1>8 DEF Surjection
  <2>2. \A i \in 1 .. n : i # k => f[i] # p
    BY <1>4, <2>1 DEF IsInjective
  <2> QED
    BY <2>1, <2>2
<1> QED
  BY <1>5, <1>9, <1>10 DEF OccursOnce

LEMMA NatSizes ==
  ASSUME NEW x \in Sizes \cup {0}
  PROVE  x \in Nat
BY FlowAssumption

LEMMA SizeNat ==
  ASSUME NEW z \in [Streams -> Sizes \cup {0}], NEW p \in Streams
  PROVE  z[p] \in Nat
<1>1. PICK x \in Sizes \cup {0} : x = z[p]
  OBVIOUS
<1>2. x \in Nat
  BY <1>1, NatSizes
<1> QED
  BY <1>1, <1>2

LEMMA HeldType ==
  ASSUME Types
  PROVE  Held \in [Streams -> Nat]
<1>1. \A p \in Streams : size[p] \in Nat
  BY SizeNat DEF Types
<1>2. \A p \in Streams : (IF pc[p] = "send" THEN size[p] ELSE 0) \in Nat
  BY <1>1
<1> QED
  BY <1>2 DEF Held

LEMMA StreamsTotal ==
  ASSUME NEW w \in [Streams -> Nat], NEW v \in [Streams -> Nat], NEW p \in Streams,
         v = [w EXCEPT ![p] = v[p]]
  PROVE  Total(v, SetToSeq(Streams)) = Total(w, SetToSeq(Streams)) - w[p] + v[p]
<1>1. PICK o \in Seq(Streams) : o = SetToSeq(Streams) /\ OccursOnce(p, o)
  BY OrderOnce
<1>2. Total(v, o) = Total(w, o) - w[p] + v[p]
  BY <1>1, TotalUpdate
<1> QED
  BY <1>1, <1>2

LEMMA HeldMoves ==
  ASSUME Types, size' \in [Streams -> Sizes \cup {0}],
         NEW p \in Streams, \A q \in Streams : q # p => Held'[q] = Held[q]
  PROVE  /\ Total(Held, SetToSeq(Streams))' = Total(Held, SetToSeq(Streams)) - Held[p] + Held'[p]
         /\ Total(Held, SetToSeq(Streams))' \in Nat
<1>3. PICK w \in [Streams -> Nat] : w = Held
  BY HeldType
<1>4. Held' \in [Streams -> Nat]
  <2>1. \A q \in Streams : size'[q] \in Nat
    BY SizeNat
  <2>2. \A q \in Streams : (IF pc'[q] = "send" THEN size'[q] ELSE 0) \in Nat
    BY <2>1
  <2> QED
    BY <2>2 DEF Held
<1>5. PICK v \in [Streams -> Nat] : v = Held'
  BY <1>4
<1>6. v = [w EXCEPT ![p] = v[p]]
  BY <1>3, <1>5
<1>7. Total(v, SetToSeq(Streams)) = Total(w, SetToSeq(Streams)) - w[p] + v[p]
  BY <1>6, StreamsTotal
<1>8. Total(v, SetToSeq(Streams)) \in Nat
  BY OrderOnce, TotalNat
<1> QED
  BY <1>3, <1>5, <1>7, <1>8

LEMMA HeldStays ==
  ASSUME \A q \in Streams : Held'[q] = Held[q]
  PROVE  Total(Held, SetToSeq(Streams))' = Total(Held, SetToSeq(Streams))
<1>1. Held' = Held
  BY DEF Held
<1> QED
  BY <1>1

LEMMA HeldTotal ==
  ASSUME Types
  PROVE  Total(Held, SetToSeq(Streams)) \in Nat
BY HeldType, OrderOnce, TotalNat

LEMMA QueuedType ==
  ASSUME Types
  PROVE  Queued \in Seq(Frame)
BY ConcatProperties DEF Types, Queued

LEMMA QueuedTotals ==
  ASSUME Types
  PROVE  /\ Total(Size, Queued) \in Nat
         /\ \A p \in Streams : Total(CountOf(p), Queued) \in Nat /\ Total(BytesOf(p), Queued) \in Nat
BY QueuedType, Weights, TotalNat

LEMMA QueuedGrows ==
  ASSUME Types, NEW f \in Frame, chan' = Append(chan, f), writing' = writing
  PROVE  /\ Total(Size, Queued)' = Total(Size, Queued) + f.size
         /\ \A p \in Streams :
              /\ Total(CountOf(p), Queued)' = Total(CountOf(p), Queued) + IF f.of = p THEN 1 ELSE 0
              /\ Total(BytesOf(p), Queued)' = Total(BytesOf(p), Queued) + IF f.of = p THEN f.size ELSE 0
<1>1. writing \in Seq(Frame) /\ chan \in Seq(Frame)
  BY DEF Types
<1>2. Queued' = Append(Queued, f)
  <2>1. Queued' = writing \o Append(chan, f)
    BY DEF Queued
  <2>2. writing \o Append(chan, f) = Append(writing \o chan, f)
    BY <1>1
  <2> QED
    BY <2>1, <2>2 DEF Queued
<1>3. Queued \in Seq(Frame)
  BY QueuedType
<1>4. PICK q : q = Queued
  OBVIOUS
<1>5. Total(Size, Append(q, f)) = Total(Size, q) + Size[f]
  BY <1>3, <1>4, Weights, TotalAppend
<1>6. ASSUME NEW p \in Streams
      PROVE  /\ Total(CountOf(p), Append(q, f)) = Total(CountOf(p), q) + CountOf(p)[f]
             /\ Total(BytesOf(p), Append(q, f)) = Total(BytesOf(p), q) + BytesOf(p)[f]
  BY <1>3, <1>4, Weights, TotalAppend
<1>7. Size[f] = f.size /\ \A p \in Streams : /\ CountOf(p)[f] = IF f.of = p THEN 1 ELSE 0
                                             /\ BytesOf(p)[f] = IF f.of = p THEN f.size ELSE 0
  BY DEF Size, CountOf, BytesOf
<1>8. Total(Size, Queued)' = Total(Size, Append(q, f))
      /\ \A p \in Streams : /\ Total(CountOf(p), Queued)' = Total(CountOf(p), Append(q, f))
                            /\ Total(BytesOf(p), Queued)' = Total(BytesOf(p), Append(q, f))
  BY <1>2, <1>4 DEF Size, CountOf, BytesOf
<1> QED
  BY <1>4, <1>5, <1>6, <1>7, <1>8

LEMMA QueuedShrinks ==
  ASSUME Types, NEW f, writing # <<>>, f = Head(writing), writing' = <<>>, chan' = chan
  PROVE  /\ f \in Frame
         /\ Total(Size, Queued) = Total(Size, Queued)' + f.size
         /\ \A p \in Streams :
              /\ Total(CountOf(p), Queued) = Total(CountOf(p), Queued)' + IF f.of = p THEN 1 ELSE 0
              /\ Total(BytesOf(p), Queued) = Total(BytesOf(p), Queued)' + IF f.of = p THEN f.size ELSE 0
<1>1. writing \in Seq(Frame) /\ chan \in Seq(Frame) /\ Len(writing) <= 1
  BY DEF Types
<1>0. PICK r \in Seq(Frame), c \in Seq(Frame) : r = writing /\ c = chan /\ r # <<>> /\ Len(r) <= 1
  BY <1>1
<1>2. Len(r) = 1 /\ f = r[1] /\ f \in Frame
  <2>1. Len(r) = 1 /\ Head(r) = r[1] /\ r[1] \in Frame
    BY <1>0
  <2> QED
    BY <1>0, <2>1
<1>3. PICK q : q = Queued
  OBVIOUS
<1>11. Len(q) = 1 + Len(c) /\ q[1] = r[1] /\ \A i \in 1 .. Len(c) : q[i + 1] = c[i]
  <2>1. q = r \o c
    BY <1>0, <1>3 DEF Queued
  <2>2. /\ Len(r \o c) = Len(r) + Len(c)
        /\ \A i \in 1 .. Len(r) + Len(c) : (r \o c)[i] = IF i <= Len(r) THEN r[i] ELSE c[i - Len(r)]
    BY ConcatProperties
  <2>3. \A i \in 1 .. 1 + Len(c) : q[i] = IF i <= 1 THEN r[i] ELSE c[i - 1]
    BY <1>2, <2>1, <2>2
  <2>4. Len(q) = 1 + Len(c) /\ Len(c) \in Nat
    BY <1>2, <2>1, <2>2
  <2>5. ASSUME NEW i \in 1 .. Len(c) PROVE q[i + 1] = c[i]
    <3>1. i + 1 \in 1 .. 1 + Len(c) /\ ~ (i + 1 <= 1) /\ (i + 1) - 1 = i
      BY <2>4
    <3> QED
      BY <2>3, <3>1
  <2> QED
    BY <2>3, <2>4, <2>5
<1>4. q \in Seq(Frame) /\ q # <<>> /\ Head(q) = f
  <2>1. q \in Seq(Frame)
    BY <1>3, QueuedType
  <2> QED
    BY <1>2, <1>11, <2>1
<1>5. Tail(q) = chan /\ Queued' = chan
  <2>1. Queued' = <<>> \o chan
    BY DEF Queued
  <2>2. <<>> \o chan = chan
    BY <1>1
  <2>4. Tail(q) \in Seq(Frame) /\ Len(Tail(q)) = Len(chan) /\ \A i \in 1 .. Len(chan) : Tail(q)[i] = chan[i]
    BY <1>0, <1>4, <1>11
  <2>5. Tail(q) = chan
    BY <1>1, <2>4, SeqEqual
  <2> QED
    BY <2>1, <2>2, <2>5
<1>6. Total(Size, q) = Size[f] + Total(Size, Tail(q))
  BY <1>4, Weights, TotalTail
<1>7. ASSUME NEW p \in Streams
      PROVE  /\ Total(CountOf(p), q) = CountOf(p)[f] + Total(CountOf(p), Tail(q))
             /\ Total(BytesOf(p), q) = BytesOf(p)[f] + Total(BytesOf(p), Tail(q))
  BY <1>4, Weights, TotalTail
<1>8. Size[f] = f.size /\ \A p \in Streams : /\ CountOf(p)[f] = IF f.of = p THEN 1 ELSE 0
                                             /\ BytesOf(p)[f] = IF f.of = p THEN f.size ELSE 0
  BY <1>2 DEF Size, CountOf, BytesOf
<1>9. Total(Size, Queued)' = Total(Size, Tail(q))
      /\ \A p \in Streams : /\ Total(CountOf(p), Queued)' = Total(CountOf(p), Tail(q))
                            /\ Total(BytesOf(p), Queued)' = Total(BytesOf(p), Tail(q))
  BY <1>5 DEF Size, CountOf, BytesOf
<1>10. Total(Size, Tail(q)) \in Nat /\ f.size \in Nat
       /\ \A p \in Streams : Total(CountOf(p), Tail(q)) \in Nat /\ Total(BytesOf(p), Tail(q)) \in Nat
  <2>1. Tail(q) \in Seq(Frame)
    BY <1>1, <1>5
  <2> QED
    BY <1>2, <2>1, Weights, TotalNat, FlowAssumption DEF Frame
<1> QED
  BY <1>2, <1>3, <1>6, <1>7, <1>8, <1>9, <1>10

LEMMA QueuedTaken ==
  ASSUME Types, writing = <<>>, chan # <<>>, writing' = <<Head(chan)>>, chan' = Tail(chan)
  PROVE  Queued' = Queued
<1>1. PICK c \in Seq(Frame) : c = chan
  BY DEF Types
<1>2. <<Head(c)>> \o Tail(c) = c /\ <<>> \o c = c
  <2>1. c # <<>>
    BY <1>1
  <2> QED
    BY <2>1
<1> QED
  BY <1>1, <1>2 DEF Queued

LEMMA QueuedEmpties ==
  ASSUME writing' = <<>>, chan' = <<>>
  PROVE  /\ Total(Size, Queued)' = 0
         /\ \A p \in Streams : Total(CountOf(p), Queued)' = 0 /\ Total(BytesOf(p), Queued)' = 0
<1>1. Queued' = <<>>
  BY DEF Queued
<1>2. /\ Total(Size, <<>>) = 0
      /\ \A p \in Streams : Total(CountOf(p), <<>>) = 0 /\ Total(BytesOf(p), <<>>) = 0
  BY Weights, TotalEmpty
<1> QED
  BY <1>1, <1>2 DEF Size, CountOf, BytesOf

LEMMA QueuedStays ==
  ASSUME Queued' = Queued
  PROVE  /\ Total(Size, Queued)' = Total(Size, Queued)
         /\ \A p \in Streams : /\ Total(CountOf(p), Queued)' = Total(CountOf(p), Queued)
                               /\ Total(BytesOf(p), Queued)' = Total(BytesOf(p), Queued)
BY DEF Size, CountOf, BytesOf

-----------------------------------------------------------------------------
(* What a step leaves alone.                                                   *)

SameTotals(q) ==
  /\ Total(CountOf(q), Queued)' = Total(CountOf(q), Queued)
  /\ Total(BytesOf(q), Queued)' = Total(BytesOf(q), Queued)

Books(q) == Granted(q) /\ Within(q)
Wakes(q) == CreditComes(q) /\ RoomComes(q)

(* A producer's ledger when its place and its frame do not change.             *)
LEMMA BooksStay ==
  ASSUME NEW q \in Streams, Books(q), SameTotals(q), writer' = writer,
         credit'[q] = credit[q], unread'[q] = unread[q],
         pc'[q] = "ended" \/ (pc[q] # "ended" /\ Taken(q)' = Taken(q))
  PROVE  Books(q)'
<1>1. Within(q)'
  BY DEF Books, Within
<1>2. CASE pc'[q] = "ended"
  BY <1>1, <1>2 DEF Books, Granted
<1>3. CASE pc[q] # "ended" /\ Taken(q)' = Taken(q)
  <2>1. FramesAt(q)' = FramesAt(q) /\ BytesAt(q)' = BytesAt(q)
    BY <1>3 DEF FramesAt, BytesAt, SameTotals
  <2> QED
    BY <1>1, <1>3, <2>1 DEF Books, Granted
<1> QED
  BY <1>2, <1>3

(* A waiter's wake-up, when its place, its frame and its credit do not change.  *)
LEMMA WakesStay ==
  ASSUME Types, Types', NEW q \in Streams, Wakes(q),
         pc'[q] = pc[q], size'[q] = size[q], credit'[q] = credit[q], permit'[q] = permit[q],
         q \in heard => q \in heard', q \in updating => q \in updating',
         (used' >= used /\ releasing \subseteq releasing') \/ releasing' # {}
  PROVE  Wakes(q)'
<1>1. CreditComes(q)'
  BY DEF Wakes, CreditComes, Fits
<1>2. used \in Nat /\ used' \in Nat /\ size[q] \in Nat /\ Cap \in Nat
  BY SizeNat, FlowAssumption DEF Types
<1>3. RoomComes(q)'
  <2>1. CASE releasing' # {}
    BY <2>1 DEF RoomComes
  <2>2. CASE used' >= used /\ releasing \subseteq releasing'
    <3>1. used' + size[q] <= Cap => used + size[q] <= Cap
      BY <1>2, <2>2
    <3> QED
      BY <2>2, <3>1 DEF Wakes, RoomComes
  <2> QED
    BY <2>1, <2>2
<1> QED
  BY <1>1, <1>3 DEF Wakes

(* A producer that is not about to park and is not parked needs no wake-up.     *)
LEMMA Awake ==
  ASSUME NEW q \in Streams,
         pc'[q] \notin {"debitPark", "debitPoll", "reservePark", "reservePoll"}
  PROVE  Wakes(q)'
BY DEF Wakes, CreditComes, RoomComes

LEMMA ReservedStays ==
  ASSUME Reserved, \A q \in Streams : Held'[q] = Held[q],
         Total(Size, Queued)' = Total(Size, Queued), used' = used
  PROVE  Reserved'
BY HeldStays DEF Reserved

LEMMA InvParts ==
  Inv <=> Types /\ Sending /\ Reserved /\ \A q \in Streams : Books(q) /\ Wakes(q)
BY DEF Inv, Books, Wakes

(* A step of producer p that touches neither the queue nor the ledgers.         *)
LEMMA LocalStep ==
  ASSUME Inv, Types', Sending', NEW p \in Streams,
         \A q \in Streams : q # p => pc'[q] = pc[q] /\ size'[q] = size[q] /\ permit'[q] = permit[q],
         \A q \in Streams : q # p => (q \in heard => q \in heard'),
         \A q \in Streams : q # p => (q \in updating => q \in updating'),
         UNCHANGED <<credit, unread, used, releasing, chan, writing, writer>>,
         Held'[p] = Held[p],
         pc'[p] = "ended" \/ (pc[p] # "ended" /\ Taken(p)' = Taken(p)),
         Wakes(p)'
  PROVE  Inv'
<1>1. Types /\ Sending /\ Reserved /\ \A q \in Streams : Books(q) /\ Wakes(q)
  BY InvParts
<1>2. Queued' = Queued
  BY DEF Queued
<1>3. \A q \in Streams : SameTotals(q)
  BY <1>2, QueuedStays DEF SameTotals
<1>4. Reserved'
  <2>1. \A q \in Streams : Held'[q] = Held[q]
    BY DEF Held
  <2>2. Total(Size, Queued)' = Total(Size, Queued)
    BY <1>2, QueuedStays
  <2>3. used' = used
    OBVIOUS
  <2> QED
    BY <1>1, <2>1, <2>2, <2>3, ReservedStays
<1>5. ASSUME NEW q \in Streams PROVE Books(q)'
  <2>1. CASE q = p
    BY <1>1, <1>3, <2>1, BooksStay
  <2>2. CASE q # p
    <3>1. pc'[q] = "ended" \/ (pc[q] # "ended" /\ Taken(q)' = Taken(q))
      BY <2>2 DEF Taken
    <3> QED
      BY <1>1, <1>3, <3>1, BooksStay
  <2> QED
    BY <2>1, <2>2
<1>6. ASSUME NEW q \in Streams PROVE Wakes(q)'
  <2>1. CASE q = p
    BY <2>1
  <2>2. CASE q # p
    <3>1. used' >= used /\ releasing \subseteq releasing'
      BY <1>1 DEF Types
    <3> QED
      BY <1>1, <2>2, <3>1, WakesStay
  <2> QED
    BY <2>1, <2>2
<1>7. (\A q \in Streams : Books(q) /\ Wakes(q))'
  BY <1>5, <1>6
<1> QED
  BY <1>4, <1>7 DEF Inv, Books, Wakes

-----------------------------------------------------------------------------
(* The producers.                                                              *)

LEMMA ProducePreserves ==
  ASSUME Inv, NEW p \in Streams, Produce(p)
  PROVE  Inv'
<1>1. Types /\ Sending
  BY DEF Inv
<1>2. /\ pc[p] = "idle" /\ left > 0 /\ left' = left - 1
      /\ UNCHANGED <<stopped, credit, permit, used, heard, releasing, chan, writing, writer,
                     updating, unread>>
  BY DEF Produce, cell, cap, link, client
<1>3. PICK n \in Sizes, w \in {"debit", "ended"}, z \in Sizes \cup {0} :
        /\ pc' = [pc EXCEPT ![p] = w] /\ size' = [size EXCEPT ![p] = z]
        /\ w = "debit" => z = n
  <2>1. PICK n \in Sizes :
          IF n > MaxFramePayload
          THEN Goto(p, "ended") /\ UNCHANGED size
          ELSE Goto(p, "debit") /\ size' = [size EXCEPT ![p] = n]
    BY DEF Produce
  <2>2. CASE n > MaxFramePayload
    <3>1. size' = [size EXCEPT ![p] = size[p]] /\ size[p] \in Sizes \cup {0}
      BY <1>1, <2>1, <2>2 DEF Types
    <3> QED
      BY <2>1, <2>2, <3>1 DEF Goto
  <2>3. CASE ~ (n > MaxFramePayload)
    BY <2>1, <2>3 DEF Goto
  <2> QED
    BY <2>2, <2>3
<1>4. /\ pc'[p] = w /\ size'[p] = z
      /\ \A q \in Streams : q # p => pc'[q] = pc[q] /\ size'[q] = size[q]
  BY <1>1, <1>3 DEF Types
<1>5. Types'
  <2>1. left' \in 0 .. MaxFrames
    BY <1>1, <1>2, FlowAssumption DEF Types
  <2>2. pc' \in [Streams -> {"idle", "debit", "debitAgain", "debitPoll", "debitPark",
                         "reserve", "reserveAgain", "reservePoll", "reservePark",
                         "send", "ended"}]
        /\ size' \in [Streams -> Sizes \cup {0}]
    BY <1>1, <1>3 DEF Types
  <2> QED
    BY <1>1, <1>2, <2>1, <2>2 DEF Types
<1>6. Sending'
  BY <1>1, <1>3, <1>4 DEF Sending
<1>7. Held'[p] = Held[p] /\ Taken(p)' = Taken(p)
  BY <1>2, <1>3, <1>4 DEF Held, Taken
<1>8. Wakes(p)'
  BY <1>3, <1>4, Awake
<1> QED
  BY <1>2, <1>4, <1>5, <1>6, <1>7, <1>8, LocalStep

(* send_stream_frame returns, with nothing held or the stream over.             *)
LEMMA ReturnPreserves ==
  ASSUME Inv, NEW p \in Streams, pc[p] # "send", pc[p] # "ended",
         pc' = [pc EXCEPT ![p] = "ended"],
         size' = size \/ size' = [size EXCEPT ![p] = 0],
         heard' = heard \/ heard' = heard \ {p},
         UNCHANGED <<left, stopped, credit, permit, used, releasing, chan, writing, writer,
                     updating, unread>>
  PROVE  Inv'
<1>1. Types /\ Sending
  BY DEF Inv
<1>2. /\ pc'[p] = "ended"
      /\ \A q \in Streams : q # p => pc'[q] = pc[q] /\ size'[q] = size[q]
  BY <1>1 DEF Types
<1>3. Types'
  <2>1. pc' \in [Streams -> {"idle", "debit", "debitAgain", "debitPoll", "debitPark",
                         "reserve", "reserveAgain", "reservePoll", "reservePark",
                         "send", "ended"}]
        /\ size' \in [Streams -> Sizes \cup {0}] /\ heard' \subseteq Streams
    BY <1>1 DEF Types
  <2> QED
    BY <1>1, <2>1 DEF Types
<1>4. Sending'
  BY <1>1, <1>2 DEF Sending
<1>5. Held'[p] = Held[p]
  BY <1>2 DEF Held
<1>6. Wakes(p)'
  BY <1>2, Awake
<1>7. \A q \in Streams : q # p => (q \in heard => q \in heard')
  OBVIOUS
<1> QED
  BY <1>2, <1>3, <1>4, <1>5, <1>6, <1>7, LocalStep

(* A producer moves between its checks and its waits.                           *)
LEMMA MovePreserves ==
  ASSUME Inv, NEW p \in Streams, NEW to, pc[p] \notin {"idle", "send", "ended"},
         to \in {"debit", "debitPark", "debitAgain", "debitPoll",
                 "reserve", "reserveAgain", "reservePoll", "reservePark"},
         pc' = [pc EXCEPT ![p] = to],
         Taken(p)' = Taken(p), Wakes(p)',
         permit' = permit \/ permit' = [permit EXCEPT ![p] = FALSE],
         heard' = heard \/ heard' = heard \ {p},
         UNCHANGED <<size, left, stopped, credit, used, releasing, chan, writing, writer,
                     updating, unread>>
  PROVE  Inv'
<1>1. Types /\ Sending
  BY DEF Inv
<1>2. /\ pc'[p] = to
      /\ \A q \in Streams : q # p => pc'[q] = pc[q] /\ size'[q] = size[q] /\ permit'[q] = permit[q]
  BY <1>1 DEF Types
<1>3. Types'
  <2>1. pc' \in [Streams -> {"idle", "debit", "debitAgain", "debitPoll", "debitPark",
                         "reserve", "reserveAgain", "reservePoll", "reservePark",
                         "send", "ended"}]
        /\ permit' \in [Streams -> BOOLEAN] /\ heard' \subseteq Streams
    BY <1>1 DEF Types
  <2> QED
    BY <1>1, <2>1 DEF Types
<1>4. Sending'
  BY <1>1, <1>2 DEF Sending
<1>5. Held'[p] = Held[p]
  BY <1>2 DEF Held
<1>7. \A q \in Streams : q # p => (q \in heard => q \in heard')
  OBVIOUS
<1> QED
  BY <1>2, <1>3, <1>4, <1>5, <1>7, LocalStep

LEMMA PollPreserves ==
  ASSUME Inv, NEW p \in Streams, DebitPoll(p) \/ ReservePoll(p)
  PROVE  Inv'
<1>1. Types /\ Wakes(p)
  BY InvParts
<1>2. CASE DebitPoll(p)
  <2>1. /\ pc[p] = "debitPoll"
        /\ UNCHANGED <<left, stopped, credit, used, heard, releasing, chan, writing, writer,
                       updating, unread>>
    BY <1>2 DEF DebitPoll, cap, link, client
  <2>2. CASE p \in stopped
    BY <1>2, <2>1, <2>2, ReturnPreserves DEF DebitPoll, Return, Goto
  <2>3. CASE p \notin stopped
    <3>1. PICK to \in {"debit", "debitPark"} :
            /\ to = IF permit[p] THEN "debit" ELSE "debitPark"
            /\ pc' = [pc EXCEPT ![p] = to]
            /\ permit' = [permit EXCEPT ![p] = FALSE] /\ size' = size
      BY <1>2, <2>3 DEF DebitPoll, Goto
    <3>2. pc'[p] = to
      BY <1>1, <3>1 DEF Types
    <3>3. Taken(p)' = Taken(p)
      BY <2>1, <3>1, <3>2 DEF Taken
    <3>4. Wakes(p)'
      <4>1. Fits(p)' = Fits(p)
        BY <2>1, <3>1 DEF Fits
      <4> QED
        BY <1>1, <2>1, <3>1, <3>2, <4>1 DEF Wakes, CreditComes, RoomComes
    <3> QED
      BY <2>1, <3>1, <3>3, <3>4, MovePreserves
  <2> QED
    BY <2>2, <2>3
<1>3. CASE ReservePoll(p)
  <2>1. /\ pc[p] = "reservePoll" /\ heard' = heard \ {p}
        /\ UNCHANGED <<left, stopped, credit, permit, used, releasing, chan, writing, writer,
                       updating, unread>>
    BY <1>3 DEF ReservePoll, cell, link, client
  <2>2. CASE p \in stopped
    BY <1>3, <2>1, <2>2, ReturnPreserves DEF ReservePoll, Return, Goto
  <2>3. CASE p \notin stopped
    <3>1. PICK to \in {"reserve", "reservePark"} :
            /\ to = IF p \in heard THEN "reserve" ELSE "reservePark"
            /\ pc' = [pc EXCEPT ![p] = to] /\ size' = size
      BY <1>3, <2>3 DEF ReservePoll, Goto
    <3>2. pc'[p] = to
      BY <1>1, <3>1 DEF Types
    <3>3. Taken(p)' = Taken(p)
      BY <2>1, <3>1, <3>2 DEF Taken
    <3>4. Wakes(p)'
      BY <1>1, <2>1, <3>1, <3>2 DEF Wakes, CreditComes, RoomComes
    <3> QED
      BY <2>1, <3>1, <3>3, <3>4, MovePreserves
  <2> QED
    BY <2>2, <2>3
<1> QED
  BY <1>2, <1>3

LEMMA FinishPreserves ==
  ASSUME Inv, NEW p \in Streams, Finish(p) \/ Unpark(p)
  PROVE  Inv'
BY ReturnPreserves DEF Finish, Unpark, Return, Goto, cell, cap, link, client

(* A step that changes what p has taken, been granted or reserved.             *)
LEMMA StepOf ==
  ASSUME Inv, Types', Sending', Reserved', NEW p \in Streams,
         \A q \in Streams : q # p => /\ pc'[q] = pc[q] /\ size'[q] = size[q]
                                     /\ permit'[q] = permit[q]
                                     /\ credit'[q] = credit[q] /\ unread'[q] = unread[q],
         \A q \in Streams : q # p => (q \in heard => q \in heard'),
         \A q \in Streams : q # p => (q \in updating => q \in updating'),
         \A q \in Streams : q # p => SameTotals(q),
         writer' = writer,
         (used' >= used /\ releasing \subseteq releasing') \/ releasing' # {},
         Books(p)', Wakes(p)'
  PROVE  Inv'
<1>1. Types /\ \A q \in Streams : Books(q) /\ Wakes(q)
  BY InvParts
<1>2. ASSUME NEW q \in Streams, q # p PROVE Books(q)'
  <2>1. pc'[q] = "ended" \/ (pc[q] # "ended" /\ Taken(q)' = Taken(q))
    BY <1>2 DEF Taken
  <2> QED
    BY <1>1, <1>2, <2>1, BooksStay
<1>3. ASSUME NEW q \in Streams, q # p PROVE Wakes(q)'
  BY <1>1, <1>3, WakesStay
<1>4. (\A q \in Streams : Books(q) /\ Wakes(q))'
  BY <1>2, <1>3
<1> QED
  BY <1>4 DEF Inv, Books, Wakes

LEMMA Ledger ==
  ASSUME Types, NEW p \in Streams
  PROVE  /\ credit[p] \in Balance /\ unread[p] \in Balance
         /\ credit[p].frames \in Nat /\ credit[p].bytes \in Nat
         /\ unread[p].frames \in Nat /\ unread[p].bytes \in Nat
         /\ Total(CountOf(p), Queued) \in Nat /\ Total(BytesOf(p), Queued) \in Nat
         /\ Taken(p).frames \in Nat /\ Taken(p).bytes \in Nat
         /\ size[p] \in Nat
<1>1. credit[p] \in Balance /\ unread[p] \in Balance
  BY DEF Types
<1>2. size[p] \in Nat
  BY SizeNat DEF Types
<1>3. Taken(p).frames \in Nat /\ Taken(p).bytes \in Nat
  <2>1. CASE Taken(p) = [frames |-> 1, bytes |-> size[p]]
    BY <1>2, <2>1
  <2>2. CASE Taken(p) = [frames |-> 0, bytes |-> 0]
    BY <2>2
  <2> QED
    BY <2>1, <2>2 DEF Taken, NoCredit
<1> QED
  BY <1>1, <1>2, <1>3, QueuedTotals DEF Balance

(* A stream that is not over has what Within says, whatever it has taken.       *)
LEMMA GrantedWithin ==
  ASSUME Types', NEW p \in Streams, Granted(p)', pc'[p] # "ended"
  PROVE  Within(p)'
<1>1. /\ credit'[p].frames \in Nat /\ credit'[p].bytes \in Nat
      /\ unread'[p].frames \in Nat /\ unread'[p].bytes \in Nat
  BY DEF Types, Balance
<1>2. size'[p] \in Nat
  BY SizeNat DEF Types
<1>3. Taken(p)'.frames \in Nat /\ Taken(p)'.bytes \in Nat
  <2>1. CASE Taken(p)' = [frames |-> 1, bytes |-> size'[p]]
    BY <1>2, <2>1
  <2>2. CASE Taken(p)' = [frames |-> 0, bytes |-> 0]
    BY <2>2
  <2> QED
    BY <2>1, <2>2 DEF Taken, NoCredit
<1>4. Queued' \in Seq(Frame)
  BY ConcatProperties DEF Types, Queued
<1>5. Total(CountOf(p), Queued)' \in Nat /\ Total(BytesOf(p), Queued)' \in Nat
  <2>1. Total(CountOf(p), Queued') \in Nat /\ Total(BytesOf(p), Queued') \in Nat
    BY <1>4, Weights, TotalNat
  <2> QED
    BY <2>1 DEF CountOf, BytesOf
<1>6. FramesAt(p)' <= WindowFrames /\ BytesAt(p)' <= WindowBytes
  BY DEF Granted
<1> QED
  BY <1>1, <1>3, <1>5, <1>6, FlowAssumption DEF FramesAt, BytesAt, Within

LEMMA DebitPreserves ==
  ASSUME Inv, NEW p \in Streams, Debit(p) \/ DebitAgain(p)
  PROVE  Inv'
<1>1. Types /\ Sending /\ Reserved /\ Books(p) /\ Wakes(p)
  BY InvParts
<1>2. PICK other \in {"debitAgain", "debitPoll"} :
        /\ pc[p] \in {"debit", "debitAgain"}
        /\ IF Fits(p)
           THEN pc' = [pc EXCEPT ![p] = "reserve"] /\ credit' = Debited(p)
           ELSE pc' = [pc EXCEPT ![p] = other] /\ UNCHANGED credit
        /\ UNCHANGED <<size, left, stopped, permit, used, heard, releasing, chan, writing, writer,
                       updating, unread>>
  BY DEF Debit, DebitAgain, TryDebit, Goto, cap, link, client
<1>3. CASE ~ Fits(p)
  <2>1. pc'[p] = other
    BY <1>1, <1>2, <1>3 DEF Types
  <2>2. ~ Fits(p)'
    BY <1>2, <1>3 DEF Fits
  <2>3. Wakes(p)'
    BY <2>1, <2>2 DEF Wakes, CreditComes, RoomComes
  <2>4. Taken(p)' = Taken(p)
    BY <1>2, <2>1 DEF Taken
  <2> QED
    BY <1>2, <1>3, <2>3, <2>4, MovePreserves
<1>4. CASE Fits(p)
  <2>1. /\ pc'[p] = "reserve"
        /\ credit'[p] = [frames |-> credit[p].frames - 1, bytes |-> credit[p].bytes - size[p]]
        /\ \A q \in Streams : q # p => pc'[q] = pc[q] /\ credit'[q] = credit[q]
    BY <1>1, <1>2, <1>4 DEF Types, Debited
  <2>2. /\ credit[p].frames \in Nat /\ credit[p].bytes \in Nat /\ size[p] \in Nat
        /\ credit[p].frames > 0 /\ size[p] <= credit[p].bytes
    BY <1>1, <1>4, Ledger DEF Fits
  <2>3. credit'[p].frames = credit[p].frames - 1 /\ credit'[p].bytes = credit[p].bytes - size[p]
        /\ credit'[p] \in Balance
    BY <2>1, <2>2 DEF Balance
  <2>4. Types'
    <3>1. credit' \in [Streams -> Balance]
      BY <1>1, <1>2, <1>4, <2>1, <2>3 DEF Types, Debited
    <3>2. pc' \in [Streams -> {"idle", "debit", "debitAgain", "debitPoll", "debitPark",
                         "reserve", "reserveAgain", "reservePoll", "reservePark",
                         "send", "ended"}]
      BY <1>1, <1>2, <1>4 DEF Types
    <3> QED
      BY <1>1, <1>2, <3>1, <3>2 DEF Types
  <2>5. Sending'
    BY <1>1, <1>2, <2>1 DEF Sending
  <2>6. Queued' = Queued
    BY <1>2 DEF Queued
  <2>7. Reserved'
    <3>1. \A q \in Streams : Held'[q] = Held[q]
      BY <1>2, <2>1 DEF Held
    <3> QED
      BY <1>1, <1>2, <2>6, <3>1, QueuedStays, ReservedStays
  <2>8. Books(p)'
    <3>1. Taken(p)' = [frames |-> 1, bytes |-> size[p]] /\ Taken(p) = [frames |-> 0, bytes |-> 0]
      BY <1>2, <2>1 DEF Taken, NoCredit
    <3>2. SameTotals(p)
      BY <2>6, QueuedStays DEF SameTotals
    <3>3. /\ Total(CountOf(p), Queued) \in Nat /\ Total(BytesOf(p), Queued) \in Nat
          /\ unread[p].frames \in Nat /\ unread[p].bytes \in Nat /\ unread' = unread
      BY <1>1, <1>2, Ledger
    <3>4. FramesAt(p)' = FramesAt(p)
      <4>1. Taken(p)'.frames = 1 /\ Taken(p).frames = 0
        BY <3>1
      <4> QED
        BY <2>2, <2>3, <3>2, <3>3, <4>1 DEF FramesAt, SameTotals
    <3>5. BytesAt(p)' = BytesAt(p)
      <4>1. Taken(p)'.bytes = size[p] /\ Taken(p).bytes = 0
        BY <3>1
      <4> QED
        BY <2>2, <2>3, <3>2, <3>3, <4>1 DEF BytesAt, SameTotals
    <3>6. Granted(p)'
      BY <1>1, <1>2, <3>4, <3>5 DEF Books, Granted
    <3> QED
      BY <2>1, <2>4, <3>6, GrantedWithin DEF Books
  <2>9. Wakes(p)'
    BY <2>1, Awake
  <2>10. \A q \in Streams : SameTotals(q)
    BY <2>6, QueuedStays DEF SameTotals
  <2>11. used' >= used /\ releasing \subseteq releasing'
    BY <1>1, <1>2 DEF Types
  <2> QED
    BY <1>2, <2>1, <2>4, <2>5, <2>7, <2>8, <2>9, <2>10, <2>11, StepOf
<1> QED
  BY <1>3, <1>4

LEMMA ReservePreserves ==
  ASSUME Inv, NEW p \in Streams, Reserve(p) \/ ReserveAgain(p)
  PROVE  Inv'
<1>1. Types /\ Sending /\ Reserved /\ Books(p) /\ Wakes(p)
  BY InvParts
<1>2. PICK other \in {"reserveAgain", "reservePoll"} :
        /\ pc[p] \in {"reserve", "reserveAgain"}
        /\ IF used + size[p] <= Cap
           THEN pc' = [pc EXCEPT ![p] = "send"] /\ used' = used + size[p]
           ELSE pc' = [pc EXCEPT ![p] = other] /\ UNCHANGED used
        /\ heard' = heard \/ heard' = heard \ {p}
        /\ UNCHANGED <<size, left, stopped, credit, permit, releasing, chan, writing, writer,
                       updating, unread>>
  BY DEF Reserve, ReserveAgain, TryReserve, Goto, cell, link, client
<1>3. CASE ~ (used + size[p] <= Cap)
  <2>1. pc'[p] = other
    BY <1>1, <1>2, <1>3 DEF Types
  <2>2. ~ (used' + size'[p] <= Cap)
    BY <1>2, <1>3
  <2>3. Wakes(p)'
    BY <2>1, <2>2 DEF Wakes, CreditComes, RoomComes
  <2>4. Taken(p)' = Taken(p)
    BY <1>2, <2>1 DEF Taken
  <2> QED
    BY <1>2, <1>3, <2>3, <2>4, MovePreserves
<1>4. CASE used + size[p] <= Cap
  <2>1. pc'[p] = "send" /\ \A q \in Streams : q # p => pc'[q] = pc[q]
    BY <1>1, <1>2, <1>4 DEF Types
  <2>2. used \in Nat /\ size[p] \in Nat /\ used' \in Nat /\ used' = used + size[p]
    BY <1>1, <1>2, <1>4, Ledger DEF Types
  <2>3. Types'
    <3>1. pc' \in [Streams -> {"idle", "debit", "debitAgain", "debitPoll", "debitPark",
                         "reserve", "reserveAgain", "reservePoll", "reservePark",
                         "send", "ended"}] /\ heard' \subseteq Streams
      BY <1>1, <1>2, <1>4 DEF Types
    <3> QED
      BY <1>1, <1>2, <2>2, <3>1 DEF Types
  <2>4. Sending'
    BY <1>1, <1>2, <2>1 DEF Sending
  <2>5. Queued' = Queued
    BY <1>2 DEF Queued
  <2>6. \A q \in Streams : SameTotals(q)
    BY <2>5, QueuedStays DEF SameTotals
  <2>7. Reserved'
    <3>1. Held'[p] = size[p] /\ Held[p] = 0 /\ \A q \in Streams : q # p => Held'[q] = Held[q]
      BY <1>2, <2>1 DEF Held
    <3>2. Total(Held, SetToSeq(Streams))' = Total(Held, SetToSeq(Streams)) - 0 + size[p]
      BY <1>1, <2>3, <3>1, HeldMoves DEF Types
    <3>3. Total(Size, Queued)' = Total(Size, Queued)
      BY <2>5, QueuedStays
    <3>4. Total(Held, SetToSeq(Streams)) \in Nat /\ Total(Size, Queued) \in Nat
      BY <1>1, HeldTotal, QueuedTotals
    <3> QED
      BY <1>1, <1>4, <2>2, <3>2, <3>3, <3>4 DEF Reserved
  <2>8. Books(p)'
    <3>1. Taken(p)' = Taken(p) /\ pc[p] # "ended"
      BY <1>2, <2>1 DEF Taken
    <3> QED
      BY <1>1, <1>2, <2>6, <3>1, BooksStay
  <2>9. Wakes(p)'
    BY <2>1, Awake
  <2>10. used' >= used /\ releasing \subseteq releasing'
    BY <1>2, <2>2
  <2>11. \A q \in Streams : q # p => (q \in heard => q \in heard')
    BY <1>2
  <2> QED
    BY <1>2, <2>1, <2>3, <2>4, <2>6, <2>7, <2>8, <2>9, <2>10, <2>11, StepOf
<1> QED
  BY <1>3, <1>4

LEMMA EnqueuePreserves ==
  ASSUME Inv, NEW p \in Streams, Enqueue(p)
  PROVE  Inv'
<1>1. Types /\ Sending /\ Reserved /\ Books(p)
  BY InvParts
<1>2. /\ pc[p] = "send" /\ Len(chan) < ChannelCapacity
      /\ chan' = Append(chan, [of |-> p, size |-> size[p]])
      /\ pc' = [pc EXCEPT ![p] = "idle"] /\ size' = [size EXCEPT ![p] = 0]
      /\ UNCHANGED <<left, stopped, credit, permit, used, heard, releasing, writing, writer,
                     updating, unread>>
  BY DEF Enqueue, Return, Goto, cell, cap, client
<1>3. /\ pc'[p] = "idle" /\ size'[p] = 0
      /\ \A q \in Streams : q # p => pc'[q] = pc[q] /\ size'[q] = size[q]
  BY <1>1, <1>2 DEF Types
<1>4. PICK f \in Frame : f = [of |-> p, size |-> size[p]]
  BY <1>1, <1>2 DEF Sending, Frame
<1>5. f.of = p /\ f.size = size[p] /\ size[p] \in Nat
  BY <1>1, <1>4, Ledger
<1>6. chan' = Append(chan, f) /\ writing' = writing
  BY <1>2, <1>4
<1>7. /\ Total(Size, Queued)' = Total(Size, Queued) + f.size
      /\ \A q \in Streams :
           /\ Total(CountOf(q), Queued)' = Total(CountOf(q), Queued) + IF f.of = q THEN 1 ELSE 0
           /\ Total(BytesOf(q), Queued)' = Total(BytesOf(q), Queued) + IF f.of = q THEN f.size ELSE 0
  BY <1>1, <1>6, QueuedGrows
<1>8. Types'
  <2>1. chan' \in Seq(Frame) /\ Len(chan') <= ChannelCapacity
    <3>1. chan \in Seq(Frame) /\ ChannelCapacity \in Nat
      BY <1>1, FlowAssumption DEF Types
    <3> QED
      BY <1>2, <1>6, <3>1
  <2>2. pc' \in [Streams -> {"idle", "debit", "debitAgain", "debitPoll", "debitPark",
                         "reserve", "reserveAgain", "reservePoll", "reservePark",
                         "send", "ended"}]
        /\ size' \in [Streams -> Sizes \cup {0}]
    BY <1>1, <1>2 DEF Types
  <2> QED
    BY <1>1, <1>2, <2>1, <2>2 DEF Types
<1>9. Sending'
  BY <1>1, <1>3 DEF Sending
<1>10. Reserved'
  <2>1. Held'[p] = 0 /\ Held[p] = size[p] /\ \A q \in Streams : q # p => Held'[q] = Held[q]
    BY <1>2, <1>3 DEF Held
  <2>2. Total(Held, SetToSeq(Streams))' = Total(Held, SetToSeq(Streams)) - size[p] + 0
    BY <1>1, <1>8, <2>1, HeldMoves DEF Types
  <2>3. Total(Held, SetToSeq(Streams)) \in Nat /\ Total(Size, Queued) \in Nat
    BY <1>1, HeldTotal, QueuedTotals
  <2> QED
    BY <1>1, <1>2, <1>5, <1>7, <2>2, <2>3 DEF Reserved
<1>11. Books(p)'
  <2>1. Taken(p)' = [frames |-> 0, bytes |-> 0] /\ Taken(p) = [frames |-> 1, bytes |-> size[p]]
    BY <1>2, <1>3 DEF Taken, NoCredit
  <2>2. /\ Taken(p)'.frames = 0 /\ Taken(p)'.bytes = 0
        /\ Taken(p).frames = 1 /\ Taken(p).bytes = size[p]
    BY <2>1
  <2>3. /\ Total(CountOf(p), Queued)' = Total(CountOf(p), Queued) + 1
        /\ Total(BytesOf(p), Queued)' = Total(BytesOf(p), Queued) + size[p]
    BY <1>5, <1>7
  <2>4. FramesAt(p)' = FramesAt(p) /\ BytesAt(p)' = BytesAt(p)
    <3>1. /\ credit[p].frames \in Nat /\ credit[p].bytes \in Nat
          /\ unread[p].frames \in Nat /\ unread[p].bytes \in Nat
          /\ Total(CountOf(p), Queued) \in Nat /\ Total(BytesOf(p), Queued) \in Nat
      BY <1>1, Ledger
    <3>2. credit'[p] = credit[p] /\ unread'[p] = unread[p]
      BY <1>2
    <3>3. FramesAt(p)' = credit[p].frames + 0 + (Total(CountOf(p), Queued) + 1) + unread[p].frames
      BY <2>2, <2>3, <3>2 DEF FramesAt
    <3>4. BytesAt(p)' = credit[p].bytes + 0 + (Total(BytesOf(p), Queued) + size[p]) + unread[p].bytes
      BY <2>2, <2>3, <3>2 DEF BytesAt
    <3>5. FramesAt(p) = credit[p].frames + 1 + Total(CountOf(p), Queued) + unread[p].frames
      BY <2>2 DEF FramesAt
    <3>6. BytesAt(p) = credit[p].bytes + size[p] + Total(BytesOf(p), Queued) + unread[p].bytes
      BY <2>2 DEF BytesAt
    <3> QED
      BY <1>5, <3>1, <3>3, <3>4, <3>5, <3>6
  <2>5. Granted(p)'
    BY <1>1, <1>2, <2>4 DEF Books, Granted
  <2> QED
    BY <1>3, <1>8, <2>5, GrantedWithin DEF Books
<1>12. ASSUME NEW q \in Streams, q # p PROVE SameTotals(q)
  BY <1>1, <1>5, <1>7, <1>12, QueuedTotals DEF SameTotals
<1>13. Wakes(p)'
  BY <1>3, Awake
<1>14. used' >= used /\ releasing \subseteq releasing'
  BY <1>1, <1>2 DEF Types
<1> QED
  BY <1>2, <1>3, <1>8, <1>9, <1>10, <1>11, <1>12, <1>13, <1>14, StepOf

LEMMA EnqueueAbortsPreserves ==
  ASSUME Inv, NEW p \in Streams, EnqueueAborts(p)
  PROVE  Inv'
<1>1. Types /\ Sending /\ Reserved /\ Books(p)
  BY InvParts
<1>2. /\ pc[p] = "send" /\ used' = used - size[p] /\ releasing' = releasing \cup {p}
      /\ pc' = [pc EXCEPT ![p] = "ended"] /\ size' = [size EXCEPT ![p] = 0]
      /\ UNCHANGED <<left, stopped, credit, permit, heard, chan, writing, writer,
                     updating, unread>>
  BY DEF EnqueueAborts, Release, Return, Goto, cell, link, client
<1>3. /\ pc'[p] = "ended" /\ size'[p] = 0
      /\ \A q \in Streams : q # p => pc'[q] = pc[q] /\ size'[q] = size[q]
  BY <1>1, <1>2 DEF Types
<1>4. Held'[p] = 0 /\ Held[p] = size[p] /\ \A q \in Streams : q # p => Held'[q] = Held[q]
  BY <1>2, <1>3 DEF Held
<1>5. /\ Total(Held, SetToSeq(Streams)) \in Nat /\ Total(Size, Queued) \in Nat
      /\ used \in Nat /\ size[p] \in Nat
  BY <1>1, HeldTotal, QueuedTotals, Ledger DEF Types
<1>6. pc' \in [Streams -> {"idle", "debit", "debitAgain", "debitPoll", "debitPark",
                         "reserve", "reserveAgain", "reservePoll", "reservePark",
                         "send", "ended"}]
      /\ size' \in [Streams -> Sizes \cup {0}] /\ releasing' \subseteq Streams \cup {Writer}
  BY <1>1, <1>2 DEF Types
<1>7. Total(Held, SetToSeq(Streams))' = Total(Held, SetToSeq(Streams)) - size[p]
      /\ Total(Held, SetToSeq(Streams))' \in Nat
  <2>1. Total(Held, SetToSeq(Streams))' = Total(Held, SetToSeq(Streams)) - Held[p] + Held'[p]
        /\ Total(Held, SetToSeq(Streams))' \in Nat
    BY <1>1, <1>4, <1>6, HeldMoves
  <2> QED
    BY <1>4, <1>5, <2>1
<1>8. Queued' = Queued
  BY <1>2 DEF Queued
<1>9. Total(Size, Queued)' = Total(Size, Queued) /\ \A q \in Streams : SameTotals(q)
  BY <1>8, QueuedStays DEF SameTotals
<1>10. Reserved' /\ used' \in Nat
  <2>1. used' = Total(Size, Queued)' + Total(Held, SetToSeq(Streams))'
    BY <1>1, <1>2, <1>5, <1>7, <1>9 DEF Reserved
  <2>2. used' \in Nat /\ used' <= used
    BY <1>2, <1>5, <1>7, <1>9, <2>1
  <2>3. used <= Cap /\ Cap \in Nat
    BY <1>1, FlowAssumption DEF Reserved
  <2> QED
    BY <1>5, <2>1, <2>2, <2>3 DEF Reserved
<1>11. Types'
  BY <1>1, <1>2, <1>6, <1>10 DEF Types
<1>12. Sending'
  BY <1>1, <1>3 DEF Sending
<1>13. Books(p)'
  BY <1>1, <1>2, <1>3, <1>9, BooksStay
<1>14. Wakes(p)'
  BY <1>3, Awake
<1>15. releasing' # {}
  BY <1>2
<1> QED
  BY <1>2, <1>3, <1>9, <1>10, <1>11, <1>12, <1>13, <1>14, <1>15, StepOf

-----------------------------------------------------------------------------
(* The notifications, the writer and the client.                               *)

LEMMA NotifyWaitersPreserves ==
  ASSUME Inv, NEW who, NotifyWaiters(who)
  PROVE  Inv'
<1>1. Types /\ Sending /\ Reserved /\ \A q \in Streams : Books(q) /\ Wakes(q)
  BY InvParts
<1>2. /\ releasing' = releasing \ {who}
      /\ pc' = [p \in Streams |-> IF pc[p] = "reservePark" THEN "reserve" ELSE pc[p]]
      /\ heard' = heard \cup {p \in Streams : pc[p] \in {"reserveAgain", "reservePoll"}}
      /\ UNCHANGED <<size, left, stopped, credit, permit, used, chan, writing, writer, updating,
                     unread>>
  BY DEF NotifyWaiters, cell, link, client
<1>3. \A q \in Streams : pc'[q] = IF pc[q] = "reservePark" THEN "reserve" ELSE pc[q]
  BY <1>2
<1>4. Types'
  <2>1. /\ pc' \in [Streams -> {"idle", "debit", "debitAgain", "debitPoll", "debitPark",
                         "reserve", "reserveAgain", "reservePoll", "reservePark",
                         "send", "ended"}]
        /\ heard' \subseteq Streams /\ releasing' \subseteq Streams \cup {Writer}
    BY <1>1, <1>2 DEF Types
  <2> QED
    BY <1>1, <1>2, <2>1 DEF Types
<1>5. Sending'
  BY <1>1, <1>2, <1>3 DEF Sending
<1>6. Queued' = Queued
  BY <1>2 DEF Queued
<1>7. Total(Size, Queued)' = Total(Size, Queued) /\ \A q \in Streams : SameTotals(q)
  BY <1>6, QueuedStays DEF SameTotals
<1>8. Reserved'
  <2>1. \A q \in Streams : Held'[q] = Held[q]
    BY <1>2, <1>3 DEF Held
  <2> QED
    BY <1>1, <1>2, <1>7, <2>1, ReservedStays
<1>9. ASSUME NEW q \in Streams PROVE Books(q)'
  <2>1. pc'[q] = "ended" \/ (pc[q] # "ended" /\ Taken(q)' = Taken(q))
    BY <1>2, <1>3 DEF Taken
  <2> QED
    BY <1>1, <1>2, <1>7, <2>1, BooksStay
<1>10. ASSUME NEW q \in Streams PROVE Wakes(q)'
  <2>1. CreditComes(q)'
    BY <1>1, <1>2, <1>3 DEF Wakes, CreditComes, Fits
  <2>2. RoomComes(q)'
    BY <1>2, <1>3 DEF RoomComes
  <2> QED
    BY <2>1, <2>2 DEF Wakes
<1>11. (\A q \in Streams : Books(q) /\ Wakes(q))'
  BY <1>9, <1>10
<1> QED
  BY <1>4, <1>5, <1>8, <1>11 DEF Inv, Books, Wakes

(* The producers stay where they are.                                           *)
LEMMA Standing ==
  ASSUME Types, Types', Sending, UNCHANGED <<pc, size>>
  PROVE  /\ Sending'
         /\ Total(Held, SetToSeq(Streams))' = Total(Held, SetToSeq(Streams))
         /\ \A q \in Streams : Taken(q)' = Taken(q)
<1>1. \A q \in Streams : Held'[q] = Held[q]
  BY DEF Held
<1>2. Total(Held, SetToSeq(Streams))' = Total(Held, SetToSeq(Streams))
  BY <1>1, HeldStays
<1>3. Sending'
  BY DEF Sending
<1> QED
  BY <1>2, <1>3 DEF Taken, NoCredit

LEMMA TakePreserves ==
  ASSUME Inv, Take
  PROVE  Inv'
<1>1. Types /\ Sending /\ Reserved /\ \A q \in Streams : Books(q) /\ Wakes(q)
  BY InvParts
<1>2. /\ writing = <<>> /\ chan # <<>> /\ writing' = <<Head(chan)>> /\ chan' = Tail(chan)
      /\ UNCHANGED <<pc, size, left, stopped, credit, permit, used, heard, releasing, writer,
                     updating, unread>>
  BY DEF Take, cell, cap, client
<1>3. Types'
  <2>1. PICK c \in Seq(Frame) : c = chan /\ c # <<>> /\ Len(c) <= ChannelCapacity
    BY <1>1, <1>2 DEF Types
  <2>2. /\ <<Head(c)>> \in Seq(Frame) /\ Len(<<Head(c)>>) <= 1
        /\ Tail(c) \in Seq(Frame) /\ Len(Tail(c)) <= ChannelCapacity
    BY <2>1, FlowAssumption
  <2>3. writing' \in Seq(Frame) /\ Len(writing') <= 1 /\ chan' \in Seq(Frame)
        /\ Len(chan') <= ChannelCapacity
    BY <1>2, <2>1, <2>2
  <2> QED
    BY <1>1, <1>2, <2>3 DEF Types
<1>4. Sending' /\ Total(Held, SetToSeq(Streams))' = Total(Held, SetToSeq(Streams))
      /\ \A q \in Streams : Taken(q)' = Taken(q)
  BY <1>1, <1>2, <1>3, Standing
<1>5. Queued' = Queued
  BY <1>1, <1>2, QueuedTaken
<1>6. Total(Size, Queued)' = Total(Size, Queued) /\ \A q \in Streams : SameTotals(q)
  BY <1>5, QueuedStays DEF SameTotals
<1>7. Reserved'
  BY <1>1, <1>2, <1>4, <1>6 DEF Reserved
<1>8. ASSUME NEW q \in Streams PROVE Books(q)'
  BY <1>1, <1>2, <1>4, <1>6, BooksStay
<1>9. ASSUME NEW q \in Streams PROVE Wakes(q)'
  <2>1. used' >= used /\ releasing \subseteq releasing'
    BY <1>1, <1>2 DEF Types
  <2> QED
    BY <1>1, <1>2, <1>3, <2>1, WakesStay
<1>10. (\A q \in Streams : Books(q) /\ Wakes(q))'
  BY <1>8, <1>9
<1> QED
  BY <1>3, <1>4, <1>7, <1>10 DEF Inv, Books, Wakes

LEMMA WriteFailsPreserves ==
  ASSUME Inv, WriteFails
  PROVE  Inv'
<1>1. Types /\ Sending /\ Reserved /\ \A q \in Streams : Books(q) /\ Wakes(q)
  BY InvParts
<1>2. /\ writer' = "gone" /\ used' = used - Total(Size, Queued)
      /\ releasing' = releasing \cup {Writer} /\ chan' = <<>> /\ writing' = <<>>
      /\ UNCHANGED <<pc, size, left, stopped, credit, permit, heard, updating, unread>>
  BY DEF WriteFails, Release, cell, client
<1>3. Total(Held, SetToSeq(Streams)) \in Nat /\ Total(Size, Queued) \in Nat /\ used \in Nat
  BY <1>1, HeldTotal, QueuedTotals DEF Types
<1>4. used' = Total(Held, SetToSeq(Streams)) /\ used' \in Nat /\ used' <= used
  BY <1>1, <1>2, <1>3 DEF Reserved
<1>5. Types'
  <2>1. <<>> \in Seq(Frame) /\ Len(<<>>) <= 1 /\ Len(<<>>) <= ChannelCapacity
    BY FlowAssumption
  <2>2. releasing' \subseteq Streams \cup {Writer}
    BY <1>1, <1>2 DEF Types
  <2> QED
    BY <1>1, <1>2, <1>4, <2>1, <2>2 DEF Types
<1>6. Sending' /\ Total(Held, SetToSeq(Streams))' = Total(Held, SetToSeq(Streams))
      /\ \A q \in Streams : Taken(q)' = Taken(q)
  BY <1>1, <1>2, <1>5, Standing
<1>7. /\ Total(Size, Queued)' = 0
      /\ \A q \in Streams : Total(CountOf(q), Queued)' = 0 /\ Total(BytesOf(q), Queued)' = 0
  BY <1>2, QueuedEmpties
<1>8. Reserved'
  <2>1. used <= Cap /\ Cap \in Nat
    BY <1>1, FlowAssumption DEF Reserved
  <2> QED
    BY <1>3, <1>4, <1>6, <1>7, <2>1 DEF Reserved
<1>9. ASSUME NEW q \in Streams PROVE Books(q)'
  <2>1. Within(q)'
    BY <1>1, <1>2 DEF Books, Within
  <2>2. ASSUME pc[q] # "ended"
        PROVE  FramesAt(q)' <= WindowFrames /\ BytesAt(q)' <= WindowBytes
    <3>1. FramesAt(q) <= WindowFrames /\ BytesAt(q) <= WindowBytes
      BY <1>1, <2>2 DEF Books, Granted
    <3>2. /\ credit[q].frames \in Nat /\ credit[q].bytes \in Nat
          /\ unread[q].frames \in Nat /\ unread[q].bytes \in Nat
          /\ Total(CountOf(q), Queued) \in Nat /\ Total(BytesOf(q), Queued) \in Nat
          /\ Taken(q).frames \in Nat /\ Taken(q).bytes \in Nat
      BY <1>1, Ledger
    <3>3. FramesAt(q)' = credit[q].frames + Taken(q).frames + 0 + unread[q].frames
      BY <1>2, <1>6, <1>7 DEF FramesAt
    <3>4. BytesAt(q)' = credit[q].bytes + Taken(q).bytes + 0 + unread[q].bytes
      BY <1>2, <1>6, <1>7 DEF BytesAt
    <3> QED
      BY <3>1, <3>2, <3>3, <3>4, FlowAssumption DEF FramesAt, BytesAt
  <2>3. Granted(q)'
    BY <1>2, <2>2 DEF Granted
  <2> QED
    BY <2>1, <2>3 DEF Books
<1>10. ASSUME NEW q \in Streams PROVE Wakes(q)'
  <2>1. releasing' # {}
    BY <1>2
  <2> QED
    BY <1>1, <1>2, <1>5, <2>1, WakesStay
<1>11. (\A q \in Streams : Books(q) /\ Wakes(q))'
  BY <1>9, <1>10
<1> QED
  BY <1>5, <1>6, <1>8, <1>11 DEF Inv, Books, Wakes

LEMMA WrittenPreserves ==
  ASSUME Inv, Written
  PROVE  Inv'
<1>1. Types /\ Sending /\ Reserved /\ \A q \in Streams : Books(q) /\ Wakes(q)
  BY InvParts
<1>2. PICK f :
      /\ f = Head(writing) /\ writing # <<>> /\ writing' = <<>>
      /\ unread' = IF pc[f.of] = "ended" THEN unread
                   ELSE [unread EXCEPT ![f.of] = [frames |-> @.frames + 1,
                                                  bytes |-> @.bytes + f.size]]
      /\ used' = used - f.size /\ releasing' = releasing \cup {Writer}
      /\ UNCHANGED <<pc, size, left, stopped, credit, permit, heard, chan, writer, updating>>
  BY DEF Written, Release, cell
<1>3. /\ f \in Frame
      /\ Total(Size, Queued) = Total(Size, Queued)' + f.size
      /\ \A q \in Streams :
           /\ Total(CountOf(q), Queued) = Total(CountOf(q), Queued)' + IF f.of = q THEN 1 ELSE 0
           /\ Total(BytesOf(q), Queued) = Total(BytesOf(q), Queued)' + IF f.of = q THEN f.size ELSE 0
  BY <1>1, <1>2, QueuedShrinks
<1>4. f.of \in Streams /\ f.size \in Nat
  BY <1>3, FlowAssumption DEF Frame
<1>5. PICK p \in Streams : p = f.of
  BY <1>4
<1>6. /\ Total(Held, SetToSeq(Streams)) \in Nat /\ Total(Size, Queued) \in Nat /\ used \in Nat
      /\ credit[p].frames \in Nat /\ credit[p].bytes \in Nat
      /\ unread[p].frames \in Nat /\ unread[p].bytes \in Nat
      /\ Taken(p).frames \in Nat /\ Taken(p).bytes \in Nat
  BY <1>1, HeldTotal, QueuedTotals, Ledger DEF Types
<1>7. Queued' \in Seq(Frame)
  <2>1. <<>> \in Seq(Frame) /\ chan \in Seq(Frame)
    BY <1>1 DEF Types
  <2> QED
    BY <1>2, <2>1, ConcatProperties DEF Queued
<1>8. /\ Total(Size, Queued)' \in Nat
      /\ \A q \in Streams : Total(CountOf(q), Queued)' \in Nat /\ Total(BytesOf(q), Queued)' \in Nat
  <2>1. /\ Total(Size, Queued') \in Nat
        /\ \A q \in Streams : Total(CountOf(q), Queued') \in Nat /\ Total(BytesOf(q), Queued') \in Nat
    BY <1>7, Weights, TotalNat
  <2> QED
    BY <2>1 DEF Size, CountOf, BytesOf
<1>9. used' \in Nat /\ used' <= used
      /\ used' = Total(Size, Queued)' + Total(Held, SetToSeq(Streams))
  <2>1. PICK a \in Nat, b \in Nat, h \in Nat, z \in Nat :
          /\ a = Total(Size, Queued)' /\ b = Total(Size, Queued)
          /\ h = Total(Held, SetToSeq(Streams)) /\ z = f.size
    BY <1>4, <1>6, <1>8
  <2>2. b = a + z /\ used = b + h /\ used' = used - z
    BY <1>1, <1>2, <1>3, <2>1 DEF Reserved
  <2>3. used' = a + h /\ used' \in Nat /\ used' <= used
    BY <2>2
  <2> QED
    BY <2>1, <2>3
<1>10. /\ unread' \in [Streams -> Balance]
       /\ \A q \in Streams : q # p => unread'[q] = unread[q]
       /\ pc[p] = "ended" => unread'[p] = unread[p]
       /\ pc[p] # "ended" =>
            unread'[p].frames = unread[p].frames + 1 /\ unread'[p].bytes = unread[p].bytes + f.size
  <2>1. unread \in [Streams -> Balance]
    BY <1>1 DEF Types
  <2>2. CASE pc[p] = "ended"
    BY <1>2, <1>5, <2>1, <2>2
  <2>3. CASE pc[p] # "ended"
    <3>1. PICK b : b = [frames |-> unread[p].frames + 1, bytes |-> unread[p].bytes + f.size]
      OBVIOUS
    <3>2. b.frames = unread[p].frames + 1 /\ b.bytes = unread[p].bytes + f.size /\ b \in Balance
      BY <1>4, <1>6, <3>1 DEF Balance
    <3>3. unread' = [unread EXCEPT ![p] = b]
      BY <1>2, <1>5, <2>1, <2>3, <3>1
    <3> QED
      BY <2>1, <2>3, <3>2, <3>3
  <2> QED
    BY <2>2, <2>3
<1>11. Types'
  <2>1. <<>> \in Seq(Frame) /\ Len(<<>>) <= 1
    OBVIOUS
  <2>2. releasing' \subseteq Streams \cup {Writer}
    BY <1>1, <1>2 DEF Types
  <2> QED
    BY <1>1, <1>2, <1>9, <1>10, <2>1, <2>2 DEF Types
<1>12. Sending' /\ Total(Held, SetToSeq(Streams))' = Total(Held, SetToSeq(Streams))
       /\ \A q \in Streams : Taken(q)' = Taken(q)
  BY <1>1, <1>2, <1>11, Standing
<1>13. Reserved'
  <2>1. used <= Cap /\ Cap \in Nat
    BY <1>1, FlowAssumption DEF Reserved
  <2> QED
    BY <1>6, <1>9, <1>12, <2>1 DEF Reserved
<1>14. Books(p)'
  <2>1. CASE pc[p] = "ended"
    BY <1>1, <1>2, <1>10, <2>1 DEF Books, Within, Granted
  <2>2. CASE pc[p] # "ended"
    <3>1. /\ Total(CountOf(p), Queued) = Total(CountOf(p), Queued)' + 1
          /\ Total(BytesOf(p), Queued) = Total(BytesOf(p), Queued)' + f.size
      BY <1>3, <1>5
    <3>2. FramesAt(p)' = credit[p].frames + Taken(p).frames + Total(CountOf(p), Queued)'
                         + (unread[p].frames + 1)
      BY <1>2, <1>10, <1>12, <2>2 DEF FramesAt
    <3>3. BytesAt(p)' = credit[p].bytes + Taken(p).bytes + Total(BytesOf(p), Queued)'
                        + (unread[p].bytes + f.size)
      BY <1>2, <1>10, <1>12, <2>2 DEF BytesAt
    <3>4. FramesAt(p) = credit[p].frames + Taken(p).frames + (Total(CountOf(p), Queued)' + 1)
                        + unread[p].frames
      BY <3>1 DEF FramesAt
    <3>5. BytesAt(p) = credit[p].bytes + Taken(p).bytes + (Total(BytesOf(p), Queued)' + f.size)
                       + unread[p].bytes
      BY <3>1 DEF BytesAt
    <3>6. Total(CountOf(p), Queued)' \in Nat /\ Total(BytesOf(p), Queued)' \in Nat
      BY <1>8
    <3>7. FramesAt(p)' = FramesAt(p) /\ BytesAt(p)' = BytesAt(p)
      <4>1. PICK c \in Nat, t \in Nat, n \in Nat, u \in Nat :
              /\ c = credit[p].frames /\ t = Taken(p).frames /\ u = unread[p].frames
              /\ n = Total(CountOf(p), Queued)'
        BY <1>6, <3>6
      <4>2. FramesAt(p)' = c + t + n + (u + 1) /\ FramesAt(p) = c + t + (n + 1) + u
        BY <3>2, <3>4, <4>1
      <4>3. PICK cc \in Nat, tt \in Nat, m \in Nat, uu \in Nat, z \in Nat :
              /\ cc = credit[p].bytes /\ tt = Taken(p).bytes /\ uu = unread[p].bytes
              /\ m = Total(BytesOf(p), Queued)' /\ z = f.size
        BY <1>4, <1>6, <3>6
      <4>4. BytesAt(p)' = cc + tt + m + (uu + z) /\ BytesAt(p) = cc + tt + (m + z) + uu
        BY <3>3, <3>5, <4>3
      <4>5. c + t + n + (u + 1) = c + t + (n + 1) + u
        OBVIOUS
      <4>6. cc + tt + m + (uu + z) = cc + tt + (m + z) + uu
        OBVIOUS
      <4> QED
        BY <4>2, <4>4, <4>5, <4>6
    <3>8. Granted(p)'
      BY <1>1, <1>2, <2>2, <3>7 DEF Books, Granted
    <3>9. pc'[p] # "ended"
      BY <1>2, <2>2
    <3> QED
      BY <1>11, <3>8, <3>9, GrantedWithin DEF Books
  <2> QED
    BY <2>1, <2>2
<1>15. ASSUME NEW q \in Streams, q # p PROVE SameTotals(q)
  BY <1>3, <1>5, <1>8, <1>15 DEF SameTotals
<1>16. releasing' # {}
  BY <1>2
<1>17. Wakes(p)'
  BY <1>1, <1>2, <1>11, <1>16, WakesStay
<1> QED
  BY <1>2, <1>10, <1>11, <1>12, <1>13, <1>14, <1>15, <1>16, <1>17, StepOf

LEMMA ReplenishPreserves ==
  ASSUME Inv, NEW p \in Streams, Replenish(p)
  PROVE  Inv'
<1>1. Types /\ Sending /\ Reserved /\ Books(p) /\ Wakes(p)
  BY InvParts
<1>2. /\ unread' = [unread EXCEPT ![p] = NoCredit]
      /\ IF pc[p] = "ended" THEN credit' = credit /\ updating' = updating
         ELSE /\ credit' = [credit EXCEPT ![p] = [frames |-> @.frames + unread[p].frames,
                                                  bytes |-> @.bytes + unread[p].bytes]]
              /\ updating' = updating \cup {p}
      /\ UNCHANGED <<pc, size, left, stopped, permit, used, heard, releasing, chan, writing,
                     writer>>
  BY DEF Replenish, cap, link
<1>3. /\ credit \in [Streams -> Balance] /\ unread \in [Streams -> Balance]
      /\ credit[p].frames \in Nat /\ credit[p].bytes \in Nat
      /\ unread[p].frames \in Nat /\ unread[p].bytes \in Nat
      /\ Taken(p).frames \in Nat /\ Taken(p).bytes \in Nat
      /\ Total(CountOf(p), Queued) \in Nat /\ Total(BytesOf(p), Queued) \in Nat
  BY <1>1, Ledger DEF Types
<1>4. /\ unread' \in [Streams -> Balance]
      /\ \A q \in Streams : q # p => unread'[q] = unread[q]
      /\ unread'[p].frames = 0 /\ unread'[p].bytes = 0
  <2>1. PICK b : b = NoCredit
    OBVIOUS
  <2>2. b \in Balance /\ b.frames = 0 /\ b.bytes = 0
    BY <2>1 DEF Balance, NoCredit
  <2> QED
    BY <1>2, <1>3, <2>1, <2>2
<1>5. /\ credit' \in [Streams -> Balance]
      /\ \A q \in Streams : q # p => credit'[q] = credit[q]
      /\ pc[p] = "ended" => credit'[p] = credit[p]
      /\ pc[p] # "ended" => /\ credit'[p].frames = credit[p].frames + unread[p].frames
                            /\ credit'[p].bytes = credit[p].bytes + unread[p].bytes
  <2>1. CASE pc[p] = "ended"
    BY <1>2, <1>3, <2>1
  <2>2. CASE pc[p] # "ended"
    <3>1. PICK b : b = [frames |-> credit[p].frames + unread[p].frames,
                        bytes |-> credit[p].bytes + unread[p].bytes]
      OBVIOUS
    <3>2. /\ b \in Balance /\ b.frames = credit[p].frames + unread[p].frames
          /\ b.bytes = credit[p].bytes + unread[p].bytes
      BY <1>3, <3>1 DEF Balance
    <3>3. credit' = [credit EXCEPT ![p] = b]
      BY <1>2, <1>3, <2>2, <3>1
    <3> QED
      BY <1>3, <2>2, <3>2, <3>3
  <2> QED
    BY <2>1, <2>2
<1>6. updating' \subseteq Streams /\ updating \subseteq updating'
      /\ (pc[p] # "ended" => p \in updating')
  BY <1>1, <1>2 DEF Types
<1>7. Types'
  BY <1>1, <1>2, <1>4, <1>5, <1>6 DEF Types
<1>8. Sending' /\ Total(Held, SetToSeq(Streams))' = Total(Held, SetToSeq(Streams))
      /\ \A q \in Streams : Taken(q)' = Taken(q)
  BY <1>1, <1>2, <1>7, Standing
<1>9. Queued' = Queued
  BY <1>2 DEF Queued
<1>10. Total(Size, Queued)' = Total(Size, Queued) /\ \A q \in Streams : SameTotals(q)
  BY <1>9, QueuedStays DEF SameTotals
<1>11. Reserved'
  BY <1>1, <1>2, <1>8, <1>10 DEF Reserved
<1>12. Books(p)'
  <2>1. CASE pc[p] = "ended"
    <3>1. Within(p)'
      BY <1>1, <1>4, <1>5, <2>1, FlowAssumption DEF Books, Within
    <3> QED
      BY <1>2, <2>1, <3>1 DEF Books, Granted
  <2>2. CASE pc[p] # "ended"
    <3>1. FramesAt(p)' = (credit[p].frames + unread[p].frames) + Taken(p).frames
                         + Total(CountOf(p), Queued) + 0
      BY <1>4, <1>5, <1>8, <1>10, <2>2 DEF FramesAt, SameTotals
    <3>2. BytesAt(p)' = (credit[p].bytes + unread[p].bytes) + Taken(p).bytes
                        + Total(BytesOf(p), Queued) + 0
      BY <1>4, <1>5, <1>8, <1>10, <2>2 DEF BytesAt, SameTotals
    <3>3. FramesAt(p)' = FramesAt(p)
      BY <1>3, <3>1 DEF FramesAt
    <3>4. BytesAt(p)' = BytesAt(p)
      BY <1>3, <3>2 DEF BytesAt
    <3>5. Granted(p)' /\ pc'[p] # "ended"
      BY <1>1, <1>2, <2>2, <3>3, <3>4 DEF Books, Granted
    <3> QED
      BY <1>7, <3>5, GrantedWithin DEF Books
  <2> QED
    BY <2>1, <2>2
<1>13. Wakes(p)'
  <2>1. CreditComes(p)'
    BY <1>2, <1>6 DEF CreditComes
  <2>2. RoomComes(p)'
    BY <1>1, <1>2 DEF Wakes, RoomComes
  <2> QED
    BY <2>1, <2>2 DEF Wakes
<1>14. used' >= used /\ releasing \subseteq releasing'
  BY <1>1, <1>2 DEF Types
<1> QED
  BY <1>2, <1>4, <1>5, <1>6, <1>7, <1>8, <1>10, <1>11, <1>12, <1>13, <1>14, StepOf

LEMMA NotifyOnePreserves ==
  ASSUME Inv, NEW p \in Streams, NotifyOne(p)
  PROVE  Inv'
<1>1. Types /\ Sending /\ Wakes(p)
  BY InvParts
<1>2. /\ updating' = updating \ {p}
      /\ IF pc[p] = "debitPark"
         THEN pc' = [pc EXCEPT ![p] = "debit"] /\ permit' = permit
         ELSE permit' = [permit EXCEPT ![p] = TRUE] /\ pc' = pc
      /\ UNCHANGED <<size, left, stopped, credit, used, heard, releasing, chan, writing, writer,
                     unread>>
  BY DEF NotifyOne, Goto, cap, link
<1>3. /\ pc' \in [Streams -> {"idle", "debit", "debitAgain", "debitPoll", "debitPark",
                         "reserve", "reserveAgain", "reservePoll", "reservePark",
                         "send", "ended"}]
      /\ permit' \in [Streams -> BOOLEAN]
      /\ \A q \in Streams : q # p => pc'[q] = pc[q] /\ permit'[q] = permit[q]
      /\ pc[p] = "debitPark" => pc'[p] = "debit"
      /\ pc[p] # "debitPark" => pc'[p] = pc[p] /\ permit'[p]
  BY <1>1, <1>2 DEF Types
<1>4. Types'
  BY <1>1, <1>2, <1>3 DEF Types
<1>5. Sending'
  BY <1>1, <1>2, <1>3 DEF Sending
<1>6. Held'[p] = Held[p]
  BY <1>2, <1>3 DEF Held
<1>7. pc'[p] = "ended" \/ (pc[p] # "ended" /\ Taken(p)' = Taken(p))
  BY <1>2, <1>3 DEF Taken
<1>8. Wakes(p)'
  <2>1. CASE pc[p] = "debitPark"
    BY <1>3, <2>1, Awake
  <2>2. CASE pc[p] # "debitPark"
    BY <1>1, <1>2, <1>3, <2>2 DEF Wakes, CreditComes, RoomComes
  <2> QED
    BY <2>1, <2>2
<1>9. \A q \in Streams : q # p => (q \in updating => q \in updating')
  BY <1>2
<1> QED
  BY <1>2, <1>3, <1>4, <1>5, <1>6, <1>7, <1>8, <1>9, LocalStep

(* Stop, and the steps that change nothing.                                     *)
LEMMA StopPreserves ==
  ASSUME Inv, stopped' \subseteq Streams,
         UNCHANGED <<pc, size, left, credit, permit, used, heard, releasing, chan, writing,
                     writer, updating, unread>>
  PROVE  Inv'
<1>1. Types /\ Sending /\ Reserved /\ \A q \in Streams : Books(q) /\ Wakes(q)
  BY InvParts
<1>2. Types'
  BY <1>1 DEF Types
<1>3. Sending' /\ Total(Held, SetToSeq(Streams))' = Total(Held, SetToSeq(Streams))
      /\ \A q \in Streams : Taken(q)' = Taken(q)
  BY <1>1, <1>2, Standing
<1>4. Queued' = Queued
  BY DEF Queued
<1>5. Total(Size, Queued)' = Total(Size, Queued) /\ \A q \in Streams : SameTotals(q)
  BY <1>4, QueuedStays DEF SameTotals
<1>6. Reserved'
  BY <1>1, <1>3, <1>5 DEF Reserved
<1>7. ASSUME NEW q \in Streams PROVE Books(q)'
  BY <1>1, <1>3, <1>5, BooksStay
<1>8. ASSUME NEW q \in Streams PROVE Wakes(q)'
  <2>1. used' >= used /\ releasing \subseteq releasing'
    BY <1>1 DEF Types
  <2> QED
    BY <1>1, <1>2, <2>1, WakesStay
<1>9. (\A q \in Streams : Books(q) /\ Wakes(q))'
  BY <1>7, <1>8
<1> QED
  BY <1>2, <1>3, <1>6, <1>9 DEF Inv, Books, Wakes

-----------------------------------------------------------------------------
(* The theorems.                                                               *)

LEMMA InitInv ==
  ASSUME Init
  PROVE  Inv
<1>1. Types
  <2>1. <<>> \in Seq(Frame) /\ Len(<<>>) <= 1 /\ Len(<<>>) <= ChannelCapacity
    BY FlowAssumption
  <2>2. Window \in Balance /\ NoCredit \in Balance
    BY FlowAssumption DEF Window, NoCredit, Balance
  <2>3. credit \in [Streams -> Balance] /\ unread \in [Streams -> Balance]
    BY <2>2 DEF Init
  <2> QED
    BY <2>1, <2>3, FlowAssumption DEF Init, Types
<1>2. Sending
  BY DEF Init, Sending
<1>3. Queued = <<>>
  BY DEF Init, Queued
<1>4. /\ Total(Size, <<>>) = 0
      /\ \A p \in Streams : Total(CountOf(p), <<>>) = 0 /\ Total(BytesOf(p), <<>>) = 0
  BY Weights, TotalEmpty
<1>5. Total(Held, SetToSeq(Streams)) = 0
  <2>1. \A p \in Streams : Held[p] = 0
    BY DEF Init, Held
  <2> QED
    BY <1>1, <2>1, HeldType, OrderOnce, TotalZero
<1>6. Reserved
  BY <1>3, <1>4, <1>5, FlowAssumption DEF Init, Reserved
<1>7. ASSUME NEW p \in Streams
      PROVE  Granted(p) /\ Within(p) /\ CreditComes(p) /\ RoomComes(p)
  <2>1. /\ credit[p].frames = WindowFrames /\ credit[p].bytes = WindowBytes
        /\ unread[p].frames = 0 /\ unread[p].bytes = 0
        /\ Taken(p).frames = 0 /\ Taken(p).bytes = 0 /\ pc[p] = "idle"
    BY DEF Init, Window, NoCredit, Taken
  <2>2. WindowFrames \in Nat /\ WindowBytes \in Nat
    BY FlowAssumption
  <2>3. Total(CountOf(p), Queued) = 0 /\ Total(BytesOf(p), Queued) = 0
    BY <1>3, <1>4
  <2>4. FramesAt(p) = WindowFrames /\ BytesAt(p) = WindowBytes
    BY <2>1, <2>2, <2>3 DEF FramesAt, BytesAt
  <2> QED
    BY <2>1, <2>2, <2>4 DEF Granted, Within, CreditComes, RoomComes
<1> QED
  BY <1>1, <1>2, <1>6, <1>7 DEF Inv

LEMMA NextInv ==
  ASSUME Inv, [Next]_vars
  PROVE  Inv'
<1>1. stopped \subseteq Streams
  BY DEF Inv, Types
<1>2. ASSUME NEW p \in Streams, ProducerSteps(p) PROVE Inv'
  BY <1>2, ProducePreserves, FinishPreserves, DebitPreserves, PollPreserves, ReservePreserves,
     EnqueuePreserves, EnqueueAbortsPreserves DEF ProducerSteps
<1>3. ASSUME NEW p \in Streams, Stop(p) PROVE Inv'
  BY <1>1, <1>3, StopPreserves DEF Stop, cell, cap, link, client
<1>4. CASE UNCHANGED vars
  BY <1>1, <1>4, StopPreserves DEF vars
<1>5. CASE Notifications
  BY <1>5, NotifyWaitersPreserves, NotifyOnePreserves DEF Notifications
<1>6. CASE Done
  BY <1>4, <1>6 DEF Done
<1> QED
  BY <1>2, <1>3, <1>4, <1>5, <1>6, TakePreserves, WrittenPreserves, WriteFailsPreserves,
     ReplenishPreserves DEF Next

LEMMA FlowInvAlways == Spec => []Inv
<1>1. Init => Inv
  BY InitInv
<1>2. Inv /\ [Next]_vars => Inv'
  BY NextInv
<1> QED
  BY <1>1, <1>2, PTL DEF Spec

(* flow.rs Credit, SessionCap: whatever the streams, the sizes and the windows,  *)
(* a credit never exceeds the window it was made with (replenish needs no        *)
(* ceiling of its own), the bytes in use never exceed the cap or fall below zero *)
(* (release needs no floor), and the channel and the writer hold what they may.  *)
THEOREM StreamFlowTypeCorrect == Spec => []TypeOK
<1>1. Inv => TypeOK
  <2> SUFFICES ASSUME Inv PROVE TypeOK
    OBVIOUS
  <2>1. Types /\ Reserved /\ \A p \in Streams : Within(p)
    BY DEF Inv
  <2>2. used \in 0 .. Cap
    BY <2>1, FlowAssumption DEF Types, Reserved
  <2>3. ASSUME NEW p \in Streams PROVE credit[p] \in Credit /\ unread[p] \in Credit
    <3>1. /\ credit[p].frames \in 0 .. WindowFrames /\ credit[p].bytes \in 0 .. WindowBytes
          /\ unread[p].frames \in 0 .. WindowFrames /\ unread[p].bytes \in 0 .. WindowBytes
      BY <2>1, Ledger, FlowAssumption DEF Within
    <3>2. credit[p] \in Balance /\ unread[p] \in Balance
      BY <2>1, Ledger
    <3> QED
      BY <3>1, <3>2 DEF Balance, Credit
  <2>4. credit \in [Streams -> Credit] /\ unread \in [Streams -> Credit]
    BY <2>1, <2>3 DEF Types
  <2> QED
    BY <2>1, <2>2, <2>4 DEF Types, TypeOK
<1> QED
  BY <1>1, FlowInvAlways, PTL

(* flow.rs CapReserve::drop and Credit::try_debit, responder.rs                  *)
(* send_stream_frame, writer.rs: the cap's count is at every moment the bytes of *)
(* the frames being sent, queued and being written, within the cap, and credit,  *)
(* frames on their way and frames not granted back add up to the window; however *)
(* the producers, the writer, its failure and the client interleave.             *)
THEOREM FlowConserved == Spec => []Conserved
<1>1. Inv => Conserved
  BY DEF Inv, Reserved, Granted, FramesAt, BytesAt, Conserved
<1> QED
  BY <1>1, FlowInvAlways, PTL

(* flow.rs debit_or_wait and reserve_or_wait register before they check again:   *)
(* a producer parked although its frame would fit now has a notify_one or a      *)
(* notify_waiters still to come.                                                 *)
THEOREM WakeupNotLost == Spec => []NoLostWakeup
<1>1. Inv => NoLostWakeup
  BY DEF Inv, CreditComes, RoomComes, NoLostWakeup
<1> QED
  BY <1>1, FlowInvAlways, PTL

=============================================================================
