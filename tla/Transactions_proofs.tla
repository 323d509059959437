-------------------------- MODULE Transactions_proofs --------------------------
(***************************************************************************)
(* For any number of transactions, messages, lost replies and restarts:    *)
(* what the server remembers, records and shows of a transaction is right. *)
(*                                                                         *)
(* The invariant has one part for each of: the charger's queue of          *)
(* messages q, the last transaction heard h, the rows r, what is known of  *)
(* the transaction m (in memory and on disk), and the status.  Each part   *)
(* is an operator of the values it relates, so that a step is proved one   *)
(* effect at a time: the handler, then the message that leaves the queue.  *)
(***************************************************************************)
EXTENDS Transactions, FiniteSetTheorems, TLAPS

Car == [plugged : BOOLEAN, status : Status, n : 0 .. MaxTx, charging : BOOLEAN, meter : Reading]
Hearing == [n : 0 .. MaxTx, from : Reading, to : OrNone(Reading)]

CarInv ==
  /\ car.charging <=> car.status \in {"Charging", "SuspendedEV"}
  /\ car.plugged <=> car.status # "Available"
  /\ car.charging => car.n # 0

-----------------------------------------------------------------------------
(* The queue *)

Metered(m) == m.type # "status"
Numbered(m) == Metered(m) /\ m.n # None

\* q holds a message of this type about transaction n.
Has(q, type, n) == \E k \in DOMAIN q : q[k].type = type /\ q[k].n = n

\* Every start and stop names a transaction, one that has been made; a stop
\* names one that is over.
WellNumbered(c, q) ==
  \A k \in DOMAIN q : Metered(q[k]) =>
    /\ q[k].type \in {"start", "stop"} => q[k].n # None
    /\ q[k].n # None => q[k].n <= c.n
    /\ q[k].meter <= c.meter
    /\ q[k].type = "stop" => q[k].n < c.n \/ ~c.charging

\* Transactions follow one another, a start comes first of its transaction and a
\* stop last, and the readings never go back.
Ordered(q) ==
  \A j, k \in DOMAIN q : j < k /\ Metered(q[j]) /\ Metered(q[k]) =>
    /\ q[j].meter <= q[k].meter
    /\ Numbered(q[j]) /\ Numbered(q[k]) =>
         /\ q[j].n <= q[k].n
         /\ q[j].n = q[k].n => q[j].type # "stop" /\ q[k].type # "start"

\* What a message is followed by.
Complete(c, q) ==
  \A j \in DOMAIN q : Numbered(q[j]) =>
    \A n \in q[j].n .. c.n :
      /\ n # q[j].n => \E i \in DOMAIN q : i > j /\ q[i].type = "start" /\ q[i].n = n
      /\ \/ n = c.n /\ c.charging
         \/ \E i \in DOMAIN q : i >= j /\ q[i].type = "stop" /\ q[i].n = n

\* The register stands still between a stop and the next start.
Still(c, q) ==
  \A j \in DOMAIN q : q[j].type = "stop" =>
    /\ \A k \in DOMAIN q : k > j /\ Metered(q[k]) =>
         \/ q[k].meter <= q[j].meter
         \/ \E i \in DOMAIN q : j < i /\ i <= k /\ q[i].type = "start"
    /\ \/ c.meter <= q[j].meter
       \/ \E i \in DOMAIN q : j < i /\ q[i].type = "start"

Queue(c, q) ==
  /\ q \in Seq(Message)
  /\ WellNumbered(c, q) /\ Ordered(q) /\ Complete(c, q) /\ Still(c, q)

\* The last status the charger reported is its status.
LastStatus(c, q) ==
  \A k \in DOMAIN q :
    q[k].type = "status" /\ (\A i \in DOMAIN q : i > k => q[i].type # "status")
      => q[k].status = c.status

StatusShown ==
  up /\ (\A k \in DOMAIN outbox : outbox[k].type # "status") => mem.status = car.status

-----------------------------------------------------------------------------
(* What has been heard, recorded and remembered *)

\* x is a reading that no later one goes below.
Passed(c, q, x) ==
  x <= c.meter /\ \A k \in DOMAIN q : Metered(q[k]) => x <= q[k].meter

\* The queue goes on from the last transaction heard.
Heard(c, q, h) ==
  /\ h.n <= c.n
  /\ Passed(c, q, h.from)
  /\ \A k \in DOMAIN q : Numbered(q[k]) =>
       q[k].n >= h.n /\ (q[k].n = h.n /\ h.to # None => q[k].type = "stop")
  /\ \A n \in (h.n + 1) .. c.n :
       /\ Has(q, "start", n)
       /\ (n = c.n /\ c.charging) \/ Has(q, "stop", n)
  /\ h.to = None => h.n # 0 /\ ((h.n = c.n /\ c.charging) \/ Has(q, "stop", h.n))
  /\ h.to # None =>
       /\ h.from <= h.to
       /\ h.n = c.n => ~c.charging
       /\ \A k \in DOMAIN q : Metered(q[k]) =>
            q[k].meter <= h.to \/ \E i \in DOMAIN q : i <= k /\ q[i].type = "start"
       /\ c.meter <= h.to \/ \E i \in DOMAIN q : q[i].type = "start"

\* The rows follow the transactions; those closed once are disjoint.
Recorded(c, q, r, twice) ==
  /\ \A i \in DOMAIN r :
       /\ r[i].n <= c.n
       /\ \A k \in DOMAIN q : Numbered(q[k]) => r[i].n <= q[k].n
       /\ r[i].to # None => Passed(c, q, r[i].to)
  /\ \A n \in 1 .. c.n :
       /\ Has(q, "start", n) \/ \E i \in DOMAIN r : r[i].n = n
       /\ \/ n = c.n /\ c.charging
          \/ Has(q, "stop", n)
          \/ \E i \in DOMAIN r : r[i].n = n /\ r[i].to # None
  /\ twice \/ \A i, j \in DOMAIN r : i # j /\ r[i].to # None =>
       /\ r[j].to # None => r[i].n # r[j].n
       /\ r[i].n < r[j].n => r[i].to <= r[j].from

\* The state m knows the transaction that was heard of and its energy so far.
Remembers(c, q, h, ids_, m) ==
  /\ h.to = None => /\ m.txId # None /\ ~m.ended
                    /\ Has(q, "start", h.n) \/ m.txId = ids_[h.n]
  /\ h.to # None => m.ended \/ m.txId = None
  /\ m.meterStart # None =>
       /\ h.from <= m.meterStart /\ Passed(c, q, m.meterStart)
       /\ h.to # None => m.meterStart <= h.to
  /\ m.session # None =>
       /\ 0 <= m.session /\ Passed(c, q, h.from + m.session)
       /\ h.to # None => h.from + m.session <= h.to

\* The transactions as the charger, the server, its snapshot and the database
\* have them.
Ledger(c, q, h, r, twice, ids_, m, d) ==
  /\ Queue(c, q) /\ Heard(c, q, h) /\ Recorded(c, q, r, twice)
  /\ Remembers(c, q, h, ids_, m) /\ Remembers(c, q, h, ids_, d)

IInv ==
  /\ TypeOK /\ CarInv
  /\ Ledger(car, outbox, heard, rows, restopped, ids, mem, disk)
  /\ LastStatus(car, outbox) /\ StatusShown
  /\ disk.meterStart = None

-----------------------------------------------------------------------------
(* Messages and sequences *)

LEMMA Shape ==
  ASSUME NEW q \in Seq(Message), NEW k \in DOMAIN q
  PROVE  /\ k \in 1 .. Len(q) /\ q[k] \in Message
         /\ q[k].type \in {"status", "start", "stop", "meter"}
         /\ Metered(q[k]) => q[k].n \in OrNone(Tx) /\ q[k].meter \in Reading
         /\ ~Metered(q[k]) => q[k].status \in Status
  BY DEF Message, Metered

\* p is what is left of q: h says where its messages come from, and what follows
\* one of them is dropped only if it is a status.
Thins(p, q, h) ==
  /\ h \in [DOMAIN p -> DOMAIN q]
  /\ \A k \in DOMAIN p : p[k] = q[h[k]]
  /\ \A j, k \in DOMAIN p : j < k => h[j] < h[k]
  /\ \A k \in DOMAIN p, i \in DOMAIN q :
       h[k] <= i /\ Metered(q[i]) => \E m \in DOMAIN p : h[m] = i

\* Places count up from one, in the order of the messages.
LEMMA Places ==
  ASSUME NEW q \in Seq(Message)
  PROVE  /\ IsFiniteSet(Kept(q)) /\ Cardinality(Kept(q)) \in Nat
         /\ \A i \in Kept(q) : Place(q, i) \in 1 .. Cardinality(Kept(q))
         /\ \A i, j \in Kept(q) : i < j => Place(q, i) < Place(q, j)
<1> DEFINE upTo(i) == {j \in Kept(q) : j <= i}
<1>1. Kept(q) \subseteq 1 .. Len(q) /\ Len(q) \in Nat
  BY DEF Kept
<1>2. IsFiniteSet(Kept(q)) /\ Cardinality(Kept(q)) \in Nat
  <2>1. IsFiniteSet(1 .. Len(q)) /\ Kept(q) \in SUBSET (1 .. Len(q))
    BY <1>1, FS_Interval
  <2> QED BY <2>1, FS_Subset, FS_CardinalityType
<1>3. ASSUME NEW i \in Kept(q)
      PROVE  IsFiniteSet(upTo(i)) /\ Cardinality(upTo(i)) \in 1 .. Cardinality(Kept(q))
  <2>1. upTo(i) \in SUBSET Kept(q) /\ i \in upTo(i)
    BY <1>1
  <2> HIDE DEF upTo
  <2>2. IsFiniteSet(upTo(i)) /\ Cardinality(upTo(i)) <= Cardinality(Kept(q))
    BY <1>2, <2>1, FS_Subset
  <2>3. Cardinality(upTo(i)) \in Nat /\ Cardinality(upTo(i)) # 0
    BY <2>1, <2>2, FS_CardinalityType, FS_EmptySet
  <2> QED BY <1>2, <2>2, <2>3
<1>4. ASSUME NEW i \in Kept(q), NEW j \in Kept(q), i < j
      PROVE  Cardinality(upTo(i)) < Cardinality(upTo(j))
  <2>1. upTo(i) \in SUBSET upTo(j) /\ j \in upTo(j) /\ j \notin upTo(i)
    BY <1>1, <1>4
  <2> HIDE DEF upTo
  <2>2. Cardinality(upTo(i)) <= Cardinality(upTo(j)) /\ Cardinality(upTo(i)) # Cardinality(upTo(j))
    BY <1>3, <2>1, FS_Subset
  <2> QED BY <1>3, <2>2
<1> QED BY <1>2, <1>3, <1>4 DEF Place

\* Every place is taken.
LEMMA PlacesTaken ==
  ASSUME NEW q \in Seq(Message), NEW k \in 1 .. Cardinality(Kept(q))
  PROVE  Nth(q, k) \in Kept(q) /\ Place(q, Nth(q, k)) = k
<1> DEFINE C == Cardinality(Kept(q))
           f == [i \in Kept(q) |-> Place(q, i)]
<1>1. f \in [Kept(q) -> 1 .. C] /\ C \in Nat
  BY Places
<1>2. \A i, j \in Kept(q) : i # j => i < j \/ j < i
  BY DEF Kept
<1>3. f \in Injection(Kept(q), 1 .. C)
  BY <1>1, <1>2, Places DEF Injection, IsInjective
<1>4. IsFiniteSet(1 .. C) /\ Cardinality(1 .. C) = C
  BY <1>1, FS_Interval
<1>5. f \in Surjection(Kept(q), 1 .. C)
  BY <1>3, <1>4, FS_Injection
<1>6. \E i \in Kept(q) : f[i] = k
  BY <1>5 DEF Surjection
<1>7. \E i \in Kept(q) : Place(q, i) = k
  BY <1>6
<1> QED BY <1>7 DEF Nth

\* What a reconnecting charger sends again is every message but the statuses, in
\* the order it had.
LEMMA ResentThins ==
  ASSUME NEW q \in Seq(Message)
  PROVE  /\ Resent(q) \in Seq(Message)
         /\ \A k \in DOMAIN Resent(q) : Metered(Resent(q)[k])
         /\ \E h : /\ Thins(Resent(q), q, h)
                   /\ \A i \in DOMAIN q : Metered(q[i]) => \E k \in DOMAIN Resent(q) : h[k] = i
<1> DEFINE C == Cardinality(Kept(q))
           h == [k \in 1 .. C |-> Nth(q, k)]
<1>1. C \in Nat /\ Kept(q) \subseteq DOMAIN q
  BY Places DEF Kept
<1>2. \A k \in 1 .. C : h[k] \in Kept(q) /\ Place(q, h[k]) = k
  BY PlacesTaken
<1>3. Resent(q) = [k \in 1 .. C |-> q[h[k]]]
  BY DEF Resent
<1> HIDE DEF h
<1>4. \A k \in 1 .. C : q[h[k]] \in Message /\ Metered(q[h[k]])
  BY <1>1, <1>2, Shape DEF Kept, Metered
<1>5. Resent(q) \in Seq(Message) /\ DOMAIN Resent(q) = 1 .. C
  BY <1>1, <1>3, <1>4
<1>6. ASSUME NEW j \in 1 .. C, NEW k \in 1 .. C, j < k PROVE h[j] < h[k]
  <2>1. h[j] \in Int /\ h[k] \in Int
    BY <1>2, Shape DEF Kept
  <2>2. ~(h[k] < h[j]) /\ h[j] # h[k]
    BY <1>2, <1>6, Places
  <2> QED BY <2>1, <2>2
<1>7. ASSUME NEW i \in Kept(q) PROVE \E k \in 1 .. C : h[k] = i
  <2>1. Place(q, i) \in 1 .. C
    BY Places
  <2>2. h[Place(q, i)] \in Kept(q) /\ Place(q, h[Place(q, i)]) = Place(q, i)
    BY <1>2, <2>1
  <2>3. h[Place(q, i)] \in Int /\ i \in Int
    BY <2>2, Shape DEF Kept
  <2>4. h[Place(q, i)] = i
    BY <2>2, <2>3, Places
  <2> QED BY <2>1, <2>4
<1>8. h \in [1 .. C -> DOMAIN q]
  BY <1>1, <1>2 DEF h
<1>9. \A i \in DOMAIN q : Metered(q[i]) => i \in Kept(q)
  BY DEF Kept, Metered
<1>10. Thins(Resent(q), q, h)
  BY <1>3, <1>5, <1>6, <1>7, <1>8, <1>9 DEF Thins
<1> QED BY <1>3, <1>4, <1>5, <1>7, <1>9, <1>10

LEMMA TailThins ==
  ASSUME NEW q \in Seq(Message), q # << >>
  PROVE  /\ Tail(q) \in Seq(Message) /\ Len(q) \in Nat \ {0}
         /\ Thins(Tail(q), q, [k \in DOMAIN Tail(q) |-> k + 1])
         /\ \A i \in DOMAIN q : i # 1 =>
              i - 1 \in DOMAIN Tail(q) /\ Tail(q)[i - 1] = q[i]
         /\ \A k \in DOMAIN Tail(q) : k + 1 \in DOMAIN q /\ Tail(q)[k] = q[k + 1]
         /\ 1 \in DOMAIN q /\ Head(q) = q[1]
<1>1. /\ Tail(q) \in Seq(Message) /\ Len(q) \in Nat \ {0}
      /\ DOMAIN q = 1 .. Len(q) /\ DOMAIN Tail(q) = 1 .. (Len(q) - 1)
      /\ \A k \in 1 .. (Len(q) - 1) : Tail(q)[k] = q[k + 1]
      /\ Head(q) = q[1]
  OBVIOUS
<1>2. \A i \in DOMAIN q : i # 1 => i - 1 \in DOMAIN Tail(q) /\ Tail(q)[i - 1] = q[i]
  BY <1>1
<1>3. Thins(Tail(q), q, [k \in DOMAIN Tail(q) |-> k + 1])
  <2> DEFINE h == [k \in DOMAIN Tail(q) |-> k + 1]
  <2>1. h \in [DOMAIN Tail(q) -> DOMAIN q] /\ \A k \in DOMAIN Tail(q) : h[k] = k + 1
    BY <1>1
  <2>2. \A k \in DOMAIN Tail(q), i \in DOMAIN q : k + 1 <= i => i - 1 \in DOMAIN Tail(q) /\ (i - 1) + 1 = i
    BY <1>1
  <2> HIDE DEF h
  <2>3. \A k \in DOMAIN Tail(q), i \in DOMAIN q :
          h[k] <= i => \E m \in DOMAIN Tail(q) : h[m] = i
    BY <2>1, <2>2
  <2>4. /\ \A k \in DOMAIN Tail(q) : Tail(q)[k] = q[h[k]]
        /\ \A j, k \in DOMAIN Tail(q) : j < k => h[j] < h[k]
    BY <1>1, <2>1
  <2>5. Thins(Tail(q), q, h)
    BY <2>1, <2>3, <2>4 DEF Thins
  <2> QED BY <2>5 DEF h
<1> QED BY <1>1, <1>2, <1>3

LEMMA Added ==
  ASSUME NEW q \in Seq(Message), NEW m \in Message
  PROVE  LET A == Append(q, m)
         IN  /\ A \in Seq(Message) /\ Len(q) \in Nat
             /\ DOMAIN q = 1 .. Len(q) /\ DOMAIN A = 1 .. (Len(q) + 1)
             /\ A[Len(q) + 1] = m
             /\ \A k \in DOMAIN q : k \in DOMAIN A /\ k < Len(q) + 1 /\ A[k] = q[k]
             /\ \A k \in DOMAIN A : k \in DOMAIN q \/ k = Len(q) + 1
  OBVIOUS

-----------------------------------------------------------------------------
(* The charger's steps keep the queue in order *)

Same(c, d) == d.n = c.n /\ d.charging = c.charging /\ d.meter = c.meter

\* What the charger does, from c to d, and the message m it posts of it.
Notes(c, d, m) == ~Metered(m) /\ Same(c, d)
Begins(c, d, m) ==
  /\ ~c.charging /\ d.charging /\ d.n = c.n + 1 /\ d.meter = c.meter
  /\ m.type = "start" /\ m.n = d.n /\ m.meter = d.meter
Finishes(c, d, m) ==
  /\ c.charging /\ ~d.charging /\ d.n = c.n /\ c.n # 0 /\ d.meter = c.meter
  /\ m.type = "stop" /\ m.n = d.n /\ m.meter = d.meter
Consumes(c, d, m) ==
  /\ c.charging /\ d.charging /\ d.n = c.n /\ c.n # 0 /\ d.meter = c.meter + 1
  /\ m.type = "meter" /\ m.n = d.n /\ m.meter = d.meter
Idles(c, d, m) ==
  /\ ~c.charging /\ Same(c, d)
  /\ m.type = "meter" /\ m.n = None /\ m.meter = d.meter

Posts(c, d, m) ==
  Notes(c, d, m) \/ Begins(c, d, m) \/ Finishes(c, d, m) \/ Consumes(c, d, m) \/ Idles(c, d, m)

LEMMA CarTypes ==
  ASSUME NEW c \in Car
  PROVE  c.n \in Nat /\ c.meter \in Nat /\ c.charging \in BOOLEAN /\ None \notin Nat
  BY BoundsAssumption DEF Car, Reading

LEMMA MessageTypes ==
  ASSUME NEW q \in Seq(Message), NEW k \in DOMAIN q
  PROVE  /\ k \in Nat
         /\ Metered(q[k]) => q[k].meter \in Nat /\ q[k].n \in Nat \union {None}
         /\ Numbered(q[k]) => q[k].n \in Nat \ {0}
  BY Shape, BoundsAssumption DEF Reading, Tx, OrNone, Numbered

LEMMA PostNumbered ==
  ASSUME NEW c \in Car, NEW d \in Car, NEW q \in Seq(Message), NEW m \in Message,
         WellNumbered(c, q), Posts(c, d, m)
  PROVE  WellNumbered(d, Append(q, m))
<1> DEFINE A == Append(q, m)
           Good(e, x) == /\ x.type \in {"start", "stop"} => x.n # None
                         /\ x.n # None => x.n <= e.n
                         /\ x.meter <= e.meter
                         /\ x.type = "stop" => x.n < e.n \/ ~e.charging
<1>1. ASSUME NEW k \in DOMAIN q, Metered(q[k]) PROVE Good(d, q[k])
  <2>1. Good(c, q[k])
    BY <1>1 DEF WellNumbered
  <2> QED BY <1>1, <2>1, CarTypes, MessageTypes
            DEF Posts, Notes, Begins, Finishes, Consumes, Idles, Same, Numbered
<1>2. Metered(m) => Good(d, m)
  BY CarTypes DEF Posts, Notes, Begins, Finishes, Consumes, Idles, Same
<1> QED BY <1>1, <1>2, Added DEF WellNumbered

\* What a charger posts is about its latest transaction and reads no less.
LEMMA PostOrdered ==
  ASSUME NEW c \in Car, NEW d \in Car, NEW q \in Seq(Message), NEW m \in Message,
         WellNumbered(c, q), Ordered(q), Posts(c, d, m)
  PROVE  Ordered(Append(q, m))
<1> DEFINE Before(x, y) ==
             /\ x.meter <= y.meter
             /\ Numbered(x) /\ Numbered(y) =>
                  /\ x.n <= y.n
                  /\ x.n = y.n => x.type # "stop" /\ y.type # "start"
<1>1. ASSUME NEW k \in DOMAIN q, Metered(q[k]), Metered(m) PROVE Before(q[k], m)
  <2>1. /\ q[k].type \in {"start", "stop"} => q[k].n # None
        /\ q[k].n # None => q[k].n <= c.n
        /\ q[k].meter <= c.meter
        /\ q[k].type = "stop" => q[k].n < c.n \/ ~c.charging
    BY <1>1 DEF WellNumbered
  <2> QED BY <1>1, <2>1, CarTypes, MessageTypes
            DEF Posts, Notes, Begins, Finishes, Consumes, Idles, Same, Numbered
<1>2. \A j, k \in DOMAIN q : j < k /\ Metered(q[j]) /\ Metered(q[k]) => Before(q[j], q[k])
  BY DEF Ordered
<1> HIDE DEF Before
<1>3. \A j, k \in DOMAIN Append(q, m) :
        j < k /\ Metered(Append(q, m)[j]) /\ Metered(Append(q, m)[k])
          => Before(Append(q, m)[j], Append(q, m)[k])
  BY <1>1, <1>2, Added
<1> QED BY <1>3 DEF Before, Ordered

LEMMA PostComplete ==
  ASSUME NEW c \in Car, NEW d \in Car, NEW q \in Seq(Message), NEW m \in Message,
         WellNumbered(c, q), Complete(c, q), Posts(c, d, m)
  PROVE  Complete(d, Append(q, m))
<1> DEFINE A == Append(q, m)
           L == Len(q) + 1
           From(s, j, type, n) == \E i \in DOMAIN s : i >= j /\ s[i].type = type /\ s[i].n = n
<1>1. /\ L \in Nat /\ L \in DOMAIN A /\ A[L] = m
      /\ \A k \in DOMAIN q : k \in DOMAIN A /\ k < L /\ k \in Nat /\ A[k] = q[k]
      /\ \A k \in DOMAIN A : k \in DOMAIN q \/ k = L
  BY Added
<1> HIDE DEF A, L
<1>2. SUFFICES ASSUME NEW j \in DOMAIN A, Numbered(A[j]), NEW n \in A[j].n .. d.n
      PROVE  /\ n # A[j].n => \E i \in DOMAIN A : i > j /\ A[i].type = "start" /\ A[i].n = n
             /\ \/ n = d.n /\ d.charging
                \/ \E i \in DOMAIN A : i >= j /\ A[i].type = "stop" /\ A[i].n = n
  BY DEF Complete, A
<1>3. CASE j = L
  <2>1. Metered(m) /\ m.n # None /\ m.n = d.n
    BY <1>1, <1>2, <1>3 DEF Posts, Notes, Begins, Finishes, Consumes, Idles, Numbered
  <2>2. n = d.n
    BY <1>1, <1>2, <1>3, <2>1, CarTypes
  <2>3. d.charging \/ m.type = "stop"
    BY <2>1 DEF Posts, Notes, Begins, Finishes, Consumes, Idles, Numbered
  <2> QED BY <1>1, <1>3, <2>1, <2>2, <2>3
<1>4. CASE j \in DOMAIN q
  <2>1. A[j] = q[j] /\ q[j].n \in Nat /\ q[j].n <= c.n /\ j < L
    BY <1>1, <1>2, <1>4, MessageTypes DEF WellNumbered, Numbered
  <2>2. ASSUME n <= c.n
        PROVE  /\ n # q[j].n => \E i \in DOMAIN q : i > j /\ q[i].type = "start" /\ q[i].n = n
               /\ \/ n = c.n /\ c.charging
                  \/ \E i \in DOMAIN q : i >= j /\ q[i].type = "stop" /\ q[i].n = n
    <3>1. n \in q[j].n .. c.n
      BY <1>2, <2>1, <2>2, CarTypes
    <3> QED BY <1>2, <1>4, <2>1, <3>1 DEF Complete
  <2>3. CASE n <= c.n
    <3>1. n # q[j].n => \E i \in DOMAIN A : i > j /\ A[i].type = "start" /\ A[i].n = n
      BY <1>1, <2>2, <2>3
    <3>2. \/ n = c.n /\ c.charging
          \/ \E i \in DOMAIN A : i >= j /\ A[i].type = "stop" /\ A[i].n = n
      BY <1>1, <2>2, <2>3
    <3>3. ASSUME n = c.n, c.charging
          PROVE  \/ n = d.n /\ d.charging
                 \/ m.type = "stop" /\ m.n = n
      BY <3>3, CarTypes DEF Posts, Notes, Begins, Finishes, Consumes, Idles, Same
    <3> QED BY <1>1, <2>1, <3>1, <3>2, <3>3
  <2>4. CASE n > c.n
    <3>1. d.charging /\ n = d.n /\ m.type = "start" /\ m.n = n
      BY <1>2, <2>1, <2>4, CarTypes DEF Posts, Notes, Begins, Finishes, Consumes, Idles, Same
    <3> QED BY <1>1, <2>1, <3>1
  <2> QED BY <1>2, <2>1, <2>3, <2>4, CarTypes
<1> QED BY <1>1, <1>3, <1>4

\* Energy flows only in a transaction whose start follows every stop.
LEMMA PostStill ==
  ASSUME NEW c \in Car, NEW d \in Car, NEW q \in Seq(Message), NEW m \in Message,
         Queue(c, q), Posts(c, d, m)
  PROVE  Still(d, Append(q, m))
<1> DEFINE A == Append(q, m)
           L == Len(q) + 1
<1>1. /\ L \in Nat /\ L \in DOMAIN A /\ A[L] = m
      /\ \A k \in DOMAIN q : k \in DOMAIN A /\ k < L /\ k \in Nat /\ A[k] = q[k]
      /\ \A k \in DOMAIN A : k \in DOMAIN q \/ k = L
  BY Added
<1> HIDE DEF A, L
<1>2. SUFFICES ASSUME NEW j \in DOMAIN A, A[j].type = "stop"
      PROVE  /\ \A k \in DOMAIN A : k > j /\ Metered(A[k]) =>
                  \/ A[k].meter <= A[j].meter
                  \/ \E i \in DOMAIN A : j < i /\ i <= k /\ A[i].type = "start"
             /\ \/ d.meter <= A[j].meter
                \/ \E i \in DOMAIN A : j < i /\ A[i].type = "start"
  BY DEF Still, A
<1>3. CASE j = L
  <2>1. d.meter <= m.meter
    BY <1>1, <1>2, <1>3, CarTypes DEF Posts, Notes, Metered, Begins, Finishes, Consumes, Idles
  <2> QED BY <1>1, <1>3, <2>1
<1>4. CASE j \in DOMAIN q
  <2>1. A[j] = q[j] /\ q[j].type = "stop" /\ q[j].n \in Nat /\ q[j].meter \in Nat /\ Numbered(q[j])
    BY <1>1, <1>2, <1>4, MessageTypes DEF Queue, WellNumbered, Metered, Numbered
  <2>2. /\ \A k \in DOMAIN q : k > j /\ Metered(q[k]) =>
             \/ q[k].meter <= q[j].meter
             \/ \E i \in DOMAIN q : j < i /\ i <= k /\ q[i].type = "start"
        /\ \/ c.meter <= q[j].meter
           \/ \E i \in DOMAIN q : j < i /\ q[i].type = "start"
    BY <1>4, <2>1 DEF Queue, Still
  <2>3. c.charging => \E i \in DOMAIN q : j < i /\ q[i].type = "start"
    <3>1. c.charging => q[j].n < c.n
      BY <1>4, <2>1 DEF Queue, WellNumbered, Metered
    <3>2. q[j].n < c.n => c.n \in q[j].n .. c.n
      BY <2>1, CarTypes
    <3> QED BY <1>4, <2>1, <3>1, <3>2, CarTypes DEF Queue, Complete
  <2>4. d.meter = c.meter \/ c.charging
    BY DEF Posts, Notes, Begins, Finishes, Consumes, Idles, Same
  <2>5. \/ d.meter <= q[j].meter
        \/ \E i \in DOMAIN q : j < i /\ q[i].type = "start"
    BY <2>2, <2>3, <2>4
  <2>6. Metered(m) => m.meter = d.meter
    BY DEF Posts, Notes, Begins, Finishes, Consumes, Idles
  <2>7. ASSUME NEW k \in DOMAIN A, k > j, Metered(A[k])
        PROVE  \/ A[k].meter <= A[j].meter
               \/ \E i \in DOMAIN A : j < i /\ i <= k /\ A[i].type = "start"
    BY <1>1, <2>1, <2>2, <2>5, <2>6, <2>7
  <2> QED BY <1>1, <2>1, <2>5, <2>7
<1> QED BY <1>1, <1>3, <1>4

LEMMA PostQueue ==
  ASSUME NEW c \in Car, NEW d \in Car, NEW q, NEW m \in Message, Queue(c, q), Posts(c, d, m)
  PROVE  Queue(d, Append(q, m))
  BY PostNumbered, PostOrdered, PostComplete, PostStill, Added DEF Queue

\* Messages that leave the queue take nothing away from what follows them.
LEMMA ThinQueue ==
  ASSUME NEW c \in Car, NEW q, Queue(c, q), NEW p \in Seq(Message), NEW h, Thins(p, q, h)
  PROVE  Queue(c, p)
<1>1. /\ \A k \in DOMAIN p : h[k] \in DOMAIN q /\ h[k] \in Nat /\ k \in Nat /\ p[k] = q[h[k]]
      /\ \A j, k \in DOMAIN p : j < k => h[j] < h[k]
      /\ \A k \in DOMAIN p, i \in DOMAIN q :
           h[k] <= i /\ Metered(q[i]) => \E m \in DOMAIN p : h[m] = i
  BY MessageTypes DEF Thins, Queue
<1>2. \A j, k \in DOMAIN p : h[j] < h[k] => j < k
  BY <1>1
<1>3. WellNumbered(c, p)
  BY <1>1 DEF Queue, WellNumbered
<1>4. Ordered(p)
  BY <1>1 DEF Queue, Ordered
<1>5. ASSUME NEW j \in DOMAIN p, NEW i \in DOMAIN q, h[j] <= i, Metered(q[i])
      PROVE  \E k \in DOMAIN p : h[k] = i /\ j <= k /\ p[k] = q[i] /\ (i # h[j] => j < k)
  <2>1. PICK k \in DOMAIN p : h[k] = i
    BY <1>1, <1>5
  <2> QED BY <1>1, <1>2, <1>5, <2>1
<1>6. Complete(c, p)
  <2> SUFFICES ASSUME NEW j \in DOMAIN p, Numbered(p[j]), NEW n \in p[j].n .. c.n
      PROVE  /\ n # p[j].n => \E i \in DOMAIN p : i > j /\ p[i].type = "start" /\ p[i].n = n
             /\ \/ n = c.n /\ c.charging
                \/ \E i \in DOMAIN p : i >= j /\ p[i].type = "stop" /\ p[i].n = n
    BY DEF Complete
  <2>1. /\ n # p[j].n => \E i \in DOMAIN q : i > h[j] /\ q[i].type = "start" /\ q[i].n = n
        /\ \/ n = c.n /\ c.charging
           \/ \E i \in DOMAIN q : i >= h[j] /\ q[i].type = "stop" /\ q[i].n = n
    <3>1. h[j] \in DOMAIN q /\ p[j] = q[h[j]]
      BY <1>1
    <3>2. Numbered(q[h[j]]) /\ n \in q[h[j]].n .. c.n
      BY <3>1
    <3>3. Complete(c, q)
      BY DEF Queue
    <3> QED BY <3>1, <3>2, <3>3 DEF Complete
  <2>2. \A i \in DOMAIN q : i \in Nat
    BY MessageTypes DEF Queue
  <2>3. n # p[j].n => \E i \in DOMAIN p : i > j /\ p[i].type = "start" /\ p[i].n = n
    <3> SUFFICES ASSUME n # p[j].n
                 PROVE  \E i \in DOMAIN p : i > j /\ p[i].type = "start" /\ p[i].n = n
      OBVIOUS
    <3>1. PICK i \in DOMAIN q : i > h[j] /\ q[i].type = "start" /\ q[i].n = n
      BY <2>1
    <3>2. h[j] \in Nat /\ i \in Nat
      BY <1>1, <2>2
    <3>3. h[j] <= i /\ Metered(q[i]) /\ i # h[j]
      BY <3>1, <3>2 DEF Metered
    <3>4. PICK k \in DOMAIN p : h[k] = i /\ j <= k /\ p[k] = q[i] /\ (i # h[j] => j < k)
      BY <1>5, <3>3
    <3>5. k \in Nat /\ j \in Nat /\ j < k
      BY <1>1, <3>3, <3>4
    <3> QED BY <3>1, <3>4, <3>5
  <2>4. ASSUME NEW i \in DOMAIN q, i >= h[j], q[i].type = "stop", q[i].n = n
        PROVE  \E k \in DOMAIN p : k >= j /\ p[k].type = "stop" /\ p[k].n = n
    <3>1. h[j] \in Nat /\ i \in Nat
      BY <1>1, <2>2
    <3>2. h[j] <= i /\ Metered(q[i])
      BY <2>4, <3>1 DEF Metered
    <3>3. PICK k \in DOMAIN p : h[k] = i /\ j <= k /\ p[k] = q[i] /\ (i # h[j] => j < k)
      BY <1>5, <3>2
    <3>4. k \in Nat /\ j \in Nat
      BY <1>1
    <3> QED BY <2>4, <3>3, <3>4
  <2> QED BY <2>1, <2>3, <2>4
<1>7. Still(c, p)
  <2> SUFFICES ASSUME NEW j \in DOMAIN p, p[j].type = "stop"
      PROVE  /\ \A k \in DOMAIN p : k > j /\ Metered(p[k]) =>
                  \/ p[k].meter <= p[j].meter
                  \/ \E i \in DOMAIN p : j < i /\ i <= k /\ p[i].type = "start"
             /\ \/ c.meter <= p[j].meter
                \/ \E i \in DOMAIN p : j < i /\ p[i].type = "start"
    BY DEF Still
  <2>1. /\ \A k \in DOMAIN q : k > h[j] /\ Metered(q[k]) =>
             \/ q[k].meter <= q[h[j]].meter
             \/ \E i \in DOMAIN q : h[j] < i /\ i <= k /\ q[i].type = "start"
        /\ \/ c.meter <= q[h[j]].meter
           \/ \E i \in DOMAIN q : h[j] < i /\ q[i].type = "start"
    BY <1>1 DEF Queue, Still
  <2>2. \A i \in DOMAIN q : i \in Nat
    BY MessageTypes DEF Queue
  <2>3. \/ c.meter <= p[j].meter
        \/ \E i \in DOMAIN p : j < i /\ p[i].type = "start"
    BY <1>1, <1>5, <2>1, <2>2 DEF Metered
  <2>4. ASSUME NEW k \in DOMAIN p, k > j, Metered(p[k])
        PROVE  \/ p[k].meter <= p[j].meter
               \/ \E i \in DOMAIN p : j < i /\ i <= k /\ p[i].type = "start"
    <3>1. \/ q[h[k]].meter <= q[h[j]].meter
          \/ \E i \in DOMAIN q : h[j] < i /\ i <= h[k] /\ q[i].type = "start"
      BY <1>1, <2>1, <2>4
    <3>2. ASSUME NEW i \in DOMAIN q, h[j] < i, i <= h[k], q[i].type = "start"
          PROVE  \E l \in DOMAIN p : j < l /\ l <= k /\ p[l].type = "start"
      <4>1. PICK l \in DOMAIN p : h[l] = i /\ j < l /\ p[l] = q[i]
        BY <1>1, <1>5, <2>2, <3>2 DEF Metered
      <4>2. ~(k < l)
        BY <1>1, <3>2, <4>1
      <4> QED BY <1>1, <3>2, <4>1, <4>2
    <3> QED BY <1>1, <3>1, <3>2
  <2> QED BY <2>3, <2>4
<1> QED BY <1>3, <1>4, <1>6, <1>7 DEF Queue

\* The last status stays the last.
LEMMA PostStatus ==
  ASSUME NEW c, NEW q \in Seq(Message), NEW m \in Message,
         IF Metered(m) THEN LastStatus(c, q) ELSE m.status = c.status
  PROVE  LastStatus(c, Append(q, m))
<1> DEFINE A == Append(q, m)
           L == Len(q) + 1
<1>1. /\ L \in DOMAIN A /\ A[L] = m
      /\ \A k \in DOMAIN q : k \in DOMAIN A /\ k < L /\ A[k] = q[k]
      /\ \A k \in DOMAIN A : k \in DOMAIN q \/ k = L
  BY Added
<1> HIDE DEF A, L
<1>2. SUFFICES ASSUME NEW k \in DOMAIN A, A[k].type = "status",
                      \A i \in DOMAIN A : i > k => A[i].type # "status"
      PROVE  A[k].status = c.status
  BY DEF LastStatus, A
<1>3. CASE k = L
  BY <1>1, <1>2, <1>3 DEF Metered
<1>4. CASE k \in DOMAIN q
  <2>1. Metered(m)
    <3>1. L > k
      BY <1>1, <1>4, Added DEF L
    <3> QED BY <1>1, <1>2, <3>1 DEF Metered
  <2> QED BY <1>1, <1>2, <1>4, <2>1 DEF LastStatus
<1> QED BY <1>1, <1>3, <1>4

LEMMA TailStatus ==
  ASSUME NEW c, NEW q \in Seq(Message), q # << >>, LastStatus(c, q)
  PROVE  /\ LastStatus(c, Tail(q))
         /\ (\A k \in DOMAIN Tail(q) : Tail(q)[k].type # "status") =>
              (\A k \in DOMAIN q : q[k].type # "status") \/ (~Metered(Head(q)) /\ Head(q).status = c.status)
<1>1. /\ \A i \in DOMAIN q : i \in Nat \ {0} /\ (i # 1 => i - 1 \in DOMAIN Tail(q) /\ Tail(q)[i - 1] = q[i])
      /\ \A k \in DOMAIN Tail(q) : k \in Nat /\ k + 1 \in DOMAIN q /\ Tail(q)[k] = q[k + 1]
      /\ 1 \in DOMAIN q /\ Head(q) = q[1]
  BY TailThins, MessageTypes
<1>2. LastStatus(c, Tail(q))
  <2> SUFFICES ASSUME NEW k \in DOMAIN Tail(q), Tail(q)[k].type = "status",
                      \A i \in DOMAIN Tail(q) : i > k => Tail(q)[i].type # "status"
      PROVE  Tail(q)[k].status = c.status
    BY DEF LastStatus
  <2>1. ASSUME NEW i \in DOMAIN q, i > k + 1 PROVE q[i].type # "status"
    <3>1. i - 1 \in DOMAIN Tail(q) /\ Tail(q)[i - 1] = q[i] /\ i - 1 > k
      BY <1>1, <2>1
    <3> QED BY <3>1
  <2>2. k + 1 \in DOMAIN q /\ q[k + 1].type = "status"
    BY <1>1
  <2>3. q[k + 1].status = c.status
    BY <2>1, <2>2 DEF LastStatus
  <2> QED BY <1>1, <2>3
<1>3. ASSUME \A k \in DOMAIN Tail(q) : Tail(q)[k].type # "status", q[1].type = "status"
      PROVE  q[1].status = c.status
  <2>1. \A i \in DOMAIN q : i > 1 => q[i].type # "status"
    <3> SUFFICES ASSUME NEW i \in DOMAIN q, i > 1 PROVE q[i].type # "status"
      OBVIOUS
    <3>1. i - 1 \in DOMAIN Tail(q) /\ Tail(q)[i - 1] = q[i]
      BY <1>1
    <3> QED BY <1>3, <3>1
  <2> QED BY <1>1, <1>3, <2>1 DEF LastStatus
<1>4. ASSUME \A k \in DOMAIN Tail(q) : Tail(q)[k].type # "status", q[1].type # "status"
      PROVE  \A k \in DOMAIN q : q[k].type # "status"
  <2> SUFFICES ASSUME NEW i \in DOMAIN q, i # 1 PROVE q[i].type # "status"
    BY <1>4
  <2>1. i - 1 \in DOMAIN Tail(q) /\ Tail(q)[i - 1] = q[i]
    BY <1>1
  <2> QED BY <1>4, <2>1
<1> QED BY <1>1, <1>2, <1>3, <1>4 DEF Metered

-----------------------------------------------------------------------------
(* A posted message and what has been heard, recorded and remembered *)

LEMMA HasTypes ==
  ASSUME NEW q \in Seq(Message), NEW m \in Message, NEW type \in {"start", "stop"}, NEW n,
         Has(q, type, n) \/ (m.type = type /\ m.n = n)
  PROVE  Has(Append(q, m), type, n)
<1> DEFINE A == Append(q, m)
<1>1. /\ Len(q) + 1 \in DOMAIN A /\ A[Len(q) + 1] = m
      /\ \A k \in DOMAIN q : k \in DOMAIN A /\ A[k] = q[k]
  BY Added
<1> HIDE DEF A
<1>2. Has(A, type, n)
  BY <1>1 DEF Has
<1> QED BY <1>2 DEF A

LEMMA PostPassed ==
  ASSUME NEW c \in Car, NEW d \in Car, NEW q \in Seq(Message), NEW m \in Message,
         Posts(c, d, m), NEW x \in Int, Passed(c, q, x)
  PROVE  Passed(d, Append(q, m), x)
<1>1. c.meter <= d.meter /\ (Metered(m) => m.meter = d.meter)
  BY CarTypes DEF Posts, Notes, Begins, Finishes, Consumes, Idles, Same
<1>2. x <= d.meter
  BY <1>1, CarTypes DEF Passed
<1>3. \A k \in DOMAIN q : Metered(q[k]) => x <= q[k].meter
  BY DEF Passed
<1> QED BY <1>1, <1>2, <1>3, Added DEF Passed

LEMMA HearingTypes ==
  ASSUME NEW h \in Hearing
  PROVE  h.n \in Nat /\ h.from \in Nat /\ h.to \in Nat \union {None}
  BY BoundsAssumption DEF Hearing, Reading, OrNone

LEMMA PostHeard ==
  ASSUME NEW c \in Car, NEW d \in Car, NEW q, NEW m \in Message, NEW h \in Hearing,
         Queue(c, q), Posts(c, d, m), Heard(c, q, h)
  PROVE  Heard(d, Append(q, m), h)
<1> DEFINE A == Append(q, m)
           L == Len(q) + 1
<1>0. q \in Seq(Message)
  BY DEF Queue
<1>1. /\ L \in Nat /\ L \in DOMAIN A /\ A[L] = m
      /\ \A k \in DOMAIN q : k \in DOMAIN A /\ k < L /\ k \in Nat /\ A[k] = q[k]
      /\ \A k \in DOMAIN A : k \in DOMAIN q \/ k = L
  BY <1>0, Added
<1>2. Passed(d, A, h.from)
  BY <1>0, PostPassed, HearingTypes DEF Heard
<1>3. \A type \in {"start", "stop"} : \A n : Has(q, type, n) \/ (m.type = type /\ m.n = n) => Has(A, type, n)
  BY <1>0, HasTypes
<1> HIDE DEF A, L
<1>4. h.n <= d.n
  BY CarTypes, HearingTypes DEF Heard, Posts, Notes, Begins, Finishes, Consumes, Idles, Same
<1>5. Numbered(m) => m.n >= h.n /\ (m.n = h.n /\ h.to # None => m.type = "stop")
  BY <1>4, CarTypes, HearingTypes
    DEF Heard, Posts, Notes, Begins, Finishes, Consumes, Idles, Same, Numbered
<1>6. \A k \in DOMAIN A : Numbered(A[k]) =>
        A[k].n >= h.n /\ (A[k].n = h.n /\ h.to # None => A[k].type = "stop")
  BY <1>1, <1>5 DEF Heard
<1>7. c.charging /\ ~d.charging => m.type = "stop" /\ m.n = c.n /\ d.n = c.n
  BY DEF Posts, Notes, Begins, Finishes, Consumes, Idles, Same
<1>8. /\ d.n = c.n \/ (d.n = c.n + 1 /\ ~c.charging /\ d.charging /\ m.type = "start" /\ m.n = d.n)
      /\ d.n = c.n /\ d.charging => c.charging
  BY CarTypes DEF Posts, Notes, Begins, Finishes, Consumes, Idles, Same
<1>9. ASSUME NEW n \in (h.n + 1) .. d.n
      PROVE  Has(A, "start", n) /\ ((n = d.n /\ d.charging) \/ Has(A, "stop", n))
  <2>1. CASE n \in (h.n + 1) .. c.n
    <3>1. Has(q, "start", n) /\ ((n = c.n /\ c.charging) \/ Has(q, "stop", n))
      BY <2>1 DEF Heard
    <3> QED BY <1>3, <1>7, <1>8, <3>1
  <2>2. CASE n \notin (h.n + 1) .. c.n
    <3>1. n = d.n /\ d.n # c.n
      BY <1>8, <2>2, CarTypes, HearingTypes
    <3> QED BY <1>3, <1>8, <3>1
  <2> QED BY <2>1, <2>2
<1>10. ASSUME h.to = None
       PROVE  h.n # 0 /\ ((h.n = d.n /\ d.charging) \/ Has(A, "stop", h.n))
  <2>1. h.n # 0 /\ ((h.n = c.n /\ c.charging) \/ Has(q, "stop", h.n))
    BY <1>10 DEF Heard
  <2> QED BY <1>3, <1>7, <1>8, <2>1
<1>11. ASSUME h.to # None
       PROVE  /\ h.from <= h.to
              /\ h.n = d.n => ~d.charging
              /\ \A k \in DOMAIN A : Metered(A[k]) =>
                   A[k].meter <= h.to \/ \E i \in DOMAIN A : i <= k /\ A[i].type = "start"
              /\ d.meter <= h.to \/ \E i \in DOMAIN A : A[i].type = "start"
  <2>1. /\ h.from <= h.to
        /\ h.n = c.n => ~c.charging
        /\ \A k \in DOMAIN q : Metered(q[k]) =>
             q[k].meter <= h.to \/ \E i \in DOMAIN q : i <= k /\ q[i].type = "start"
        /\ c.meter <= h.to \/ \E i \in DOMAIN q : q[i].type = "start"
    BY <1>11 DEF Heard
  <2>2. c.charging => \E i \in DOMAIN q : q[i].type = "start"
    <3>1. c.charging => c.n \in (h.n + 1) .. c.n
      BY <2>1, CarTypes, HearingTypes DEF Heard
    <3> QED BY <3>1 DEF Heard, Has
  <2>3. d.meter = c.meter \/ c.charging
    BY DEF Posts, Notes, Begins, Finishes, Consumes, Idles, Same
  <2>4. d.meter <= h.to \/ \E i \in DOMAIN q : q[i].type = "start"
    BY <2>1, <2>2, <2>3
  <2>5. Metered(m) => m.meter = d.meter
    BY DEF Posts, Notes, Begins, Finishes, Consumes, Idles
  <2>6. \A k \in DOMAIN A : Metered(A[k]) =>
          A[k].meter <= h.to \/ \E i \in DOMAIN A : i <= k /\ A[i].type = "start"
    BY <1>1, <2>1, <2>4, <2>5
  <2>7. h.n = d.n => ~d.charging
    BY <1>8, <2>1, CarTypes, HearingTypes DEF Heard
  <2> QED BY <1>1, <2>1, <2>4, <2>6, <2>7
<1>12. Heard(d, A, h)
  BY <1>2, <1>4, <1>6, <1>9, <1>10, <1>11 DEF Heard
<1> QED BY <1>12 DEF A

LEMMA RowTypes ==
  ASSUME NEW r \in Seq(Row), NEW i \in DOMAIN r
  PROVE  r[i] \in Row /\ r[i].n \in Nat \ {0} /\ r[i].from \in Nat /\ r[i].to \in Nat \union {None}
<1>1. r[i] \in Row
  OBVIOUS
<1> QED BY <1>1, BoundsAssumption DEF Row, Reading, OrNone, Tx

LEMMA PostRecorded ==
  ASSUME NEW c \in Car, NEW d \in Car, NEW q, NEW m \in Message, NEW r \in Seq(Row), NEW twice,
         Queue(c, q), Posts(c, d, m), Recorded(c, q, r, twice)
  PROVE  Recorded(d, Append(q, m), r, twice)
<1> DEFINE A == Append(q, m)
<1>0. q \in Seq(Message)
  BY DEF Queue
<1>1. /\ \A k \in DOMAIN q : k \in DOMAIN A /\ A[k] = q[k]
      /\ \A k \in DOMAIN A : k \in DOMAIN q \/ A[k] = m
  BY <1>0, Added
<1>2. \A x \in Int : Passed(c, q, x) => Passed(d, A, x)
  BY <1>0, PostPassed
<1>3. \A type \in {"start", "stop"} : \A n : Has(q, type, n) \/ (m.type = type /\ m.n = n) => Has(A, type, n)
  BY <1>0, HasTypes
<1> HIDE DEF A
<1>4. c.charging /\ ~d.charging => m.type = "stop" /\ m.n = c.n /\ d.n = c.n
  BY DEF Posts, Notes, Begins, Finishes, Consumes, Idles, Same
<1>5. /\ d.n = c.n \/ (d.n = c.n + 1 /\ ~c.charging /\ d.charging /\ m.type = "start" /\ m.n = d.n)
      /\ d.n = c.n /\ d.charging => c.charging
  BY CarTypes DEF Posts, Notes, Begins, Finishes, Consumes, Idles, Same
<1>6. Numbered(m) => m.n = d.n
  BY DEF Posts, Notes, Begins, Finishes, Consumes, Idles, Numbered
<1>7. ASSUME NEW i \in DOMAIN r
      PROVE  /\ r[i].n <= d.n
             /\ \A k \in DOMAIN A : Numbered(A[k]) => r[i].n <= A[k].n
             /\ r[i].to # None => Passed(d, A, r[i].to)
  <2>1. /\ r[i].n <= c.n
        /\ \A k \in DOMAIN q : Numbered(q[k]) => r[i].n <= q[k].n
        /\ r[i].to # None => Passed(c, q, r[i].to)
    BY DEF Recorded
  <2>2. r[i].n \in Nat /\ r[i].to \in Nat \union {None}
    BY RowTypes
  <2>3. r[i].n <= d.n
    BY <1>5, <2>1, <2>2, CarTypes
  <2> QED BY <1>1, <1>2, <1>6, <2>1, <2>2, <2>3
<1>8. ASSUME NEW n \in 1 .. d.n
      PROVE  /\ Has(A, "start", n) \/ \E i \in DOMAIN r : r[i].n = n
             /\ \/ n = d.n /\ d.charging
                \/ Has(A, "stop", n)
                \/ \E i \in DOMAIN r : r[i].n = n /\ r[i].to # None
  <2>1. CASE n \in 1 .. c.n
    <3>1. /\ Has(q, "start", n) \/ \E i \in DOMAIN r : r[i].n = n
          /\ \/ n = c.n /\ c.charging
             \/ Has(q, "stop", n)
             \/ \E i \in DOMAIN r : r[i].n = n /\ r[i].to # None
      BY <2>1 DEF Recorded
    <3> QED BY <1>3, <1>4, <1>5, <3>1
  <2>2. CASE n \notin 1 .. c.n
    <3>1. n = d.n /\ d.n # c.n
      BY <1>5, <2>2, CarTypes
    <3> QED BY <1>3, <1>5, <3>1
  <2> QED BY <2>1, <2>2
<1>9. Recorded(d, A, r, twice)
  BY <1>7, <1>8 DEF Recorded
<1> QED BY <1>9 DEF A

LEMMA StateTypes ==
  ASSUME NEW m \in State
  PROVE  /\ m.txId \in Nat \union {None} /\ m.ended \in BOOLEAN /\ m.active \in BOOLEAN
         /\ m.meterStart \in Nat \union {None} /\ m.session \in Int \union {None}
  BY DEF State, Reading, OrNone

LEMMA PostRemembers ==
  ASSUME NEW c \in Car, NEW d \in Car, NEW q, NEW x \in Message, NEW h \in Hearing, NEW ids_,
         NEW m \in State, Queue(c, q), Posts(c, d, x), Remembers(c, q, h, ids_, m)
  PROVE  Remembers(d, Append(q, x), h, ids_, m)
<1>0. q \in Seq(Message)
  BY DEF Queue
<1>1. \A y \in Int : Passed(c, q, y) => Passed(d, Append(q, x), y)
  BY <1>0, PostPassed
<1>2. Has(q, "start", h.n) => Has(Append(q, x), "start", h.n)
  BY <1>0, HasTypes
<1>3. /\ m.meterStart # None => m.meterStart \in Int
      /\ m.session # None => h.from + m.session \in Int
  BY StateTypes, HearingTypes
<1> QED BY <1>1, <1>2, <1>3 DEF Remembers

-----------------------------------------------------------------------------
(* A message that leaves the queue *)

LEMMA ThinPassed ==
  ASSUME NEW c, NEW q, NEW p, NEW h, Thins(p, q, h), NEW x, Passed(c, q, x)
  PROVE  Passed(c, p, x)
  BY DEF Thins, Passed

\* Heard h, the messages that leave the queue are not missed.
Dispensable(p, q, h) ==
  /\ \A n : n > h.n /\ Has(q, "start", n) => Has(p, "start", n)
  /\ \A n : (n > h.n \/ (n = h.n /\ h.to = None)) /\ Has(q, "stop", n) => Has(p, "stop", n)

LEMMA ThinHeard ==
  ASSUME NEW c \in Car, NEW q \in Seq(Message), NEW p \in Seq(Message), NEW f, Thins(p, q, f),
         NEW h \in Hearing, Heard(c, q, h), Dispensable(p, q, h),
         h.to # None => \A i \in DOMAIN q :
           q[i].type = "start" => \E k \in DOMAIN p : f[k] = i
  PROVE  Heard(c, p, h)
<1>1. /\ \A k \in DOMAIN p : f[k] \in DOMAIN q /\ f[k] \in Nat /\ k \in Nat /\ p[k] = q[f[k]]
      /\ \A j, k \in DOMAIN p : j < k => f[j] < f[k]
  BY MessageTypes DEF Thins
<1>2. Passed(c, p, h.from)
  BY ThinPassed DEF Heard
<1>3. \A k \in DOMAIN p : Numbered(p[k]) =>
        p[k].n >= h.n /\ (p[k].n = h.n /\ h.to # None => p[k].type = "stop")
  BY <1>1 DEF Heard
<1>4. \A n \in (h.n + 1) .. c.n : Has(p, "start", n) /\ ((n = c.n /\ c.charging) \/ Has(p, "stop", n))
  BY CarTypes, HearingTypes DEF Heard, Dispensable
<1>5. h.to = None => h.n # 0 /\ ((h.n = c.n /\ c.charging) \/ Has(p, "stop", h.n))
  BY DEF Heard, Dispensable
<1>6. ASSUME h.to # None
      PROVE  /\ \A k \in DOMAIN p : Metered(p[k]) =>
                  p[k].meter <= h.to \/ \E i \in DOMAIN p : i <= k /\ p[i].type = "start"
             /\ c.meter <= h.to \/ \E i \in DOMAIN p : p[i].type = "start"
  <2>1. ASSUME NEW i \in DOMAIN q, q[i].type = "start"
        PROVE  \E k \in DOMAIN p : f[k] = i /\ p[k].type = "start"
    BY <1>1, <1>6, <2>1
  <2>2. ASSUME NEW k \in DOMAIN p, NEW i \in DOMAIN q, i <= f[k], q[i].type = "start"
        PROVE  \E l \in DOMAIN p : l <= k /\ p[l].type = "start"
    <3>1. PICK l \in DOMAIN p : f[l] = i /\ p[l].type = "start"
      BY <2>1, <2>2
    <3>2. ~(k < l)
      BY <1>1, <2>2, <3>1
    <3> QED BY <1>1, <3>1, <3>2
  <2> QED BY <1>1, <1>6, <2>1, <2>2 DEF Heard
<1> QED BY <1>2, <1>3, <1>4, <1>5, <1>6 DEF Heard

LEMMA ThinRecorded ==
  ASSUME NEW c \in Car, NEW q \in Seq(Message), NEW p \in Seq(Message), NEW f, Thins(p, q, f),
         NEW r, NEW twice, Recorded(c, q, r, twice),
         \A n \in 1 .. c.n : Has(q, "start", n) =>
           Has(p, "start", n) \/ \E i \in DOMAIN r : r[i].n = n,
         \A n \in 1 .. c.n : Has(q, "stop", n) =>
           Has(p, "stop", n) \/ \E i \in DOMAIN r : r[i].n = n /\ r[i].to # None
  PROVE  Recorded(c, p, r, twice)
<1>1. \A k \in DOMAIN p : f[k] \in DOMAIN q /\ p[k] = q[f[k]]
  BY DEF Thins
<1>2. \A x : Passed(c, q, x) => Passed(c, p, x)
  BY ThinPassed
<1>3. \A i \in DOMAIN r :
        /\ r[i].n <= c.n
        /\ \A k \in DOMAIN p : Numbered(p[k]) => r[i].n <= p[k].n
        /\ r[i].to # None => Passed(c, p, r[i].to)
  BY <1>1, <1>2 DEF Recorded
<1>4. \A n \in 1 .. c.n :
        /\ Has(p, "start", n) \/ \E i \in DOMAIN r : r[i].n = n
        /\ \/ n = c.n /\ c.charging
           \/ Has(p, "stop", n)
           \/ \E i \in DOMAIN r : r[i].n = n /\ r[i].to # None
  BY DEF Recorded
<1> QED BY <1>3, <1>4 DEF Recorded

LEMMA ThinRemembers ==
  ASSUME NEW c, NEW q, NEW p, NEW f, Thins(p, q, f),
         NEW h, NEW ids_, NEW new, NEW m, Remembers(c, q, h, ids_, m),
         h.to = None => Has(p, "start", h.n) \/ m.txId = new[h.n]
  PROVE  Remembers(c, p, h, new, m)
<1>1. \A x : Passed(c, q, x) => Passed(c, p, x)
  BY ThinPassed
<1> QED BY <1>1 DEF Remembers

-----------------------------------------------------------------------------
(* The message handled *)

\* The head of the queue goes on with the transaction heard of, or starts one.
LEMMA HeadFacts ==
  ASSUME NEW c \in Car, NEW q, q # << >>, NEW h \in Hearing, Queue(c, q), Heard(c, q, h)
  PROVE  /\ q \in Seq(Message) /\ 1 \in DOMAIN q /\ Head(q) = q[1]
         /\ q[1].type \in {"start", "stop"} =>
              Numbered(q[1]) /\ q[1].n \in Tx /\ q[1].n \in 1 .. c.n /\ q[1].n \in h.n .. c.n
         /\ q[1].type = "start" => (q[1].n = h.n => h.to = None)
         /\ q[1].type = "stop" => q[1].n = h.n /\ ~Has(q, "start", h.n)
         /\ q[1].type = "meter" /\ q[1].n # None =>
              q[1].n = h.n /\ h.to = None /\ ~Has(q, "start", h.n)
         /\ Metered(q[1]) => q[1].meter \in Reading /\ Passed(c, q, q[1].meter) /\ h.from <= q[1].meter
         /\ \A k \in DOMAIN q : Numbered(q[1]) /\ Numbered(q[k]) => q[1].n <= q[k].n
<1>1. q \in Seq(Message) /\ 1 \in DOMAIN q /\ Head(q) = q[1]
  BY TailThins DEF Queue
<1>2. /\ \A k \in DOMAIN q : k \in Nat /\ (k # 1 => 1 < k)
      /\ \A k \in DOMAIN q : Metered(q[k]) => q[k].meter \in Nat /\ q[k].n \in Nat \union {None}
      /\ \A k \in DOMAIN q : Numbered(q[k]) => q[k].n \in Nat \ {0}
      /\ None \notin Nat
  BY <1>1, MessageTypes, Shape, BoundsAssumption
<1>3. \A k \in DOMAIN q : Numbered(q[1]) /\ Numbered(q[k]) =>
        q[1].n <= q[k].n /\ (k # 1 /\ q[1].n = q[k].n => q[1].type # "stop" /\ q[k].type # "start")
  BY <1>1, <1>2 DEF Queue, Ordered, Numbered
<1>4. ASSUME Numbered(q[1])
      PROVE  /\ q[1].n \in Tx /\ q[1].n \in 1 .. c.n /\ q[1].n \in h.n .. c.n
             /\ q[1].n = h.n /\ h.to # None => q[1].type = "stop"
  <2>1. q[1].n <= c.n /\ q[1].n >= h.n
    BY <1>1, <1>4 DEF Queue, WellNumbered, Numbered, Heard
  <2>2. q[1].n \in Tx
    BY <1>1, <1>4, Shape DEF Numbered, OrNone
  <2> QED BY <1>1, <1>2, <1>4, <2>1, <2>2, CarTypes, HearingTypes DEF Heard
<1>5. q[1].type \in {"start", "stop"} => Numbered(q[1])
  BY <1>1 DEF Queue, WellNumbered, Metered, Numbered
<1>6. ASSUME Numbered(q[1]), q[1].type # "start" PROVE q[1].n = h.n /\ ~Has(q, "start", h.n)
  <2>1. ~Has(q, "start", q[1].n)
    BY <1>2, <1>3, <1>6 DEF Has, Numbered, Metered
  <2>2. q[1].n \notin (h.n + 1) .. c.n
    BY <2>1 DEF Heard
  <2> QED BY <1>4, <1>6, <2>1, <2>2, CarTypes, HearingTypes
<1>7. ASSUME Metered(q[1])
      PROVE  q[1].meter \in Reading /\ Passed(c, q, q[1].meter) /\ h.from <= q[1].meter
  <2>1. q[1].meter \in Reading /\ q[1].meter <= c.meter
    BY <1>1, <1>7, Shape DEF Queue, WellNumbered
  <2>2. \A k \in DOMAIN q : Metered(q[k]) => q[1].meter <= q[k].meter
    BY <1>1, <1>2, <1>7 DEF Queue, Ordered
  <2> QED BY <1>1, <1>7, <2>1, <2>2 DEF Passed, Heard
<1>8. q[1].type = "meter" /\ q[1].n # None => Numbered(q[1])
  BY DEF Numbered, Metered
<1> QED BY <1>1, <1>3, <1>4, <1>5, <1>6, <1>7, <1>8

LEMMA StartHeard ==
  ASSUME NEW c \in Car, NEW q, q # << >>, NEW h \in Hearing, Queue(c, q), Heard(c, q, h),
         q[1].type = "start"
  PROVE  Heard(c, q, [n |-> q[1].n, from |-> q[1].meter, to |-> None])
<1> DEFINE g == [n |-> q[1].n, from |-> q[1].meter, to |-> None]
<1>1. g.n = q[1].n /\ g.from = q[1].meter /\ g.to = None
  OBVIOUS
<1> HIDE DEF g
<1>2. /\ q \in Seq(Message) /\ 1 \in DOMAIN q /\ Numbered(q[1]) /\ q[1].n \in 1 .. c.n
      /\ Passed(c, q, q[1].meter)
      /\ \A k \in DOMAIN q : Numbered(q[k]) => q[1].n <= q[k].n
  BY HeadFacts DEF Metered
<1>3. \A k \in DOMAIN q : Numbered(q[k]) => q[k].n \in Nat /\ q[k].n >= g.n
  BY <1>1, <1>2, MessageTypes
<1>4. \A n \in q[1].n .. c.n :
        /\ n # q[1].n => Has(q, "start", n)
        /\ (n = c.n /\ c.charging) \/ Has(q, "stop", n)
  BY <1>2 DEF Queue, Complete, Has
<1>5. \A n \in (g.n + 1) .. c.n : Has(q, "start", n) /\ ((n = c.n /\ c.charging) \/ Has(q, "stop", n))
  BY <1>1, <1>2, <1>4, CarTypes
<1>6. g.n # 0 /\ ((g.n = c.n /\ c.charging) \/ Has(q, "stop", g.n))
  BY <1>1, <1>2, <1>4, CarTypes
<1>7. Heard(c, q, g)
  BY <1>1, <1>2, <1>3, <1>5, <1>6, CarTypes DEF Heard
<1> QED BY <1>7 DEF g

LEMMA StopHeard ==
  ASSUME NEW c \in Car, NEW q, q # << >>, NEW h \in Hearing, Queue(c, q), Heard(c, q, h),
         q[1].type = "stop"
  PROVE  Heard(c, q, [h EXCEPT !.to = q[1].meter])
<1> DEFINE g == [h EXCEPT !.to = q[1].meter]
<1>1. g.n = h.n /\ g.from = h.from /\ g.to = q[1].meter
  BY DEF Hearing
<1> HIDE DEF g
<1>2. /\ q \in Seq(Message) /\ 1 \in DOMAIN q /\ Numbered(q[1]) /\ q[1].n = h.n
      /\ q[1].meter \in Nat /\ h.from <= q[1].meter /\ g.to # None
  BY <1>1, HeadFacts, BoundsAssumption DEF Metered, Reading
<1>3. \A k \in DOMAIN q : k \in Nat /\ (k # 1 => 1 < k)
  BY <1>2, Shape
<1>4. \A k \in DOMAIN q : Numbered(q[k]) => q[k].n >= g.n /\ (q[k].n = g.n => q[k].type = "stop")
  <2>1. \A k \in DOMAIN q : k # 1 /\ Numbered(q[k]) => q[k].n # q[1].n
    BY <1>2, <1>3 DEF Queue, Ordered, Numbered
  <2> QED BY <1>1, <1>2, <2>1 DEF Heard
<1>5. /\ \A k \in DOMAIN q : k > 1 /\ Metered(q[k]) =>
           \/ q[k].meter <= q[1].meter
           \/ \E i \in DOMAIN q : 1 < i /\ i <= k /\ q[i].type = "start"
      /\ \/ c.meter <= q[1].meter
         \/ \E i \in DOMAIN q : 1 < i /\ q[i].type = "start"
  BY <1>2 DEF Queue, Still
<1>6. h.n = c.n => ~c.charging
  BY <1>2, CarTypes DEF Queue, WellNumbered, Numbered
<1>7. Heard(c, q, g)
  BY <1>1, <1>2, <1>3, <1>4, <1>5, <1>6 DEF Heard
<1> QED BY <1>7 DEF g

\* A start is recorded once more for each time it is handled.
LEMMA StartRecorded ==
  ASSUME NEW c \in Car, NEW q, q # << >>, NEW h \in Hearing, Queue(c, q), Heard(c, q, h),
         NEW r \in Seq(Row), NEW twice, Recorded(c, q, r, twice), q[1].type = "start"
  PROVE  LET s == Append(r, [n |-> q[1].n, from |-> q[1].meter, to |-> None])
         IN  s \in Seq(Row) /\ Recorded(c, q, s, twice) /\ \E i \in DOMAIN s : s[i].n = q[1].n
<1> DEFINE x == [n |-> q[1].n, from |-> q[1].meter, to |-> None]
           s == Append(r, x)
           L == Len(r) + 1
<1>1. /\ q \in Seq(Message) /\ 1 \in DOMAIN q /\ Metered(q[1]) /\ q[1].n \in Tx /\ q[1].n \in 1 .. c.n
      /\ q[1].meter \in Reading /\ q[1].meter \in Nat
      /\ \A k \in DOMAIN q : Numbered(q[k]) => q[1].n <= q[k].n
  BY HeadFacts, BoundsAssumption DEF Metered, Numbered, Reading
<1>2. x \in Row /\ x.n = q[1].n /\ x.from = q[1].meter /\ x.to = None
  BY <1>1 DEF Row, OrNone
<1> HIDE DEF x
<1>3. /\ s \in Seq(Row) /\ L \in DOMAIN s /\ s[L] = x
      /\ \A i \in DOMAIN r : i \in DOMAIN s /\ s[i] = r[i] /\ i # L
      /\ \A i \in DOMAIN s : i \in DOMAIN r \/ i = L
  BY <1>2
<1> HIDE DEF s, L
<1>4. \A i \in DOMAIN s :
        /\ s[i].n <= c.n
        /\ \A k \in DOMAIN q : Numbered(q[k]) => s[i].n <= q[k].n
        /\ s[i].to # None => Passed(c, q, s[i].to)
  BY <1>1, <1>2, <1>3, CarTypes DEF Recorded
<1>5. \A n \in 1 .. c.n :
        /\ Has(q, "start", n) \/ \E i \in DOMAIN s : s[i].n = n
        /\ \/ n = c.n /\ c.charging
           \/ Has(q, "stop", n)
           \/ \E i \in DOMAIN s : s[i].n = n /\ s[i].to # None
  BY <1>3 DEF Recorded
<1>6. twice \/ \A i, j \in DOMAIN s : i # j /\ s[i].to # None =>
        /\ s[j].to # None => s[i].n # s[j].n
        /\ s[i].n < s[j].n => s[i].to <= s[j].from
  <2>1. \A i \in DOMAIN r : r[i].to # None => r[i].to <= x.from
    BY <1>1, <1>2 DEF Recorded, Passed
  <2>2. twice \/ \A i, j \in DOMAIN r : i # j /\ r[i].to # None =>
          /\ r[j].to # None => r[i].n # r[j].n
          /\ r[i].n < r[j].n => r[i].to <= r[j].from
    BY DEF Recorded
  <2> QED BY <1>2, <1>3, <2>1, <2>2
<1>7. Recorded(c, q, s, twice)
  BY <1>4, <1>5, <1>6 DEF Recorded
<1> QED BY <1>2, <1>3, <1>7 DEF s, x

\* The row a stop closes is one of its own transaction, unless that has one that
\* is closed already.
LEMMA StopRecorded ==
  ASSUME NEW c \in Car, NEW q, q # << >>, NEW h \in Hearing, Queue(c, q), Heard(c, q, h),
         rows \in Seq(Row), Recorded(c, q, rows, restopped), q[1].type = "stop",
         CloseRow(q[1].meter),
         NEW twice, twice = (restopped \/ \E i \in DOMAIN rows : rows[i].n = q[1].n /\ rows[i].to # None)
  PROVE  /\ rows' \in Seq(Row) /\ Recorded(c, q, rows', twice)
         /\ \E i \in DOMAIN rows' : rows'[i].n = q[1].n /\ rows'[i].to # None
         /\ \A i \in DOMAIN rows : i \in DOMAIN rows' /\ rows'[i].n = rows[i].n
<1> DEFINE N == q[1].n
           M == q[1].meter
<1>1. /\ q \in Seq(Message) /\ 1 \in DOMAIN q /\ Metered(q[1]) /\ Numbered(q[1])
      /\ N \in 1 .. c.n /\ ~Has(q, "start", N) /\ M \in Reading /\ M \in Nat /\ M # None
      /\ Passed(c, q, M)
  BY HeadFacts, BoundsAssumption DEF Metered, Reading
<1> HIDE DEF N, M
<1>2. /\ \A i \in DOMAIN rows : /\ rows[i] \in Row /\ rows[i].n \in Nat \ {0} /\ rows[i].from \in Nat
                                /\ rows[i].to \in Nat \union {None}
                                /\ rows[i].n <= N
      /\ N \in Nat
  BY <1>1, RowTypes DEF Recorded, N
<1>3. PICK own \in DOMAIN rows : rows[own].n = N
  BY <1>1 DEF Recorded
<1>4. rows[own].to = None => own \in LastOpened
  BY <1>2, <1>3 DEF LastOpened, OpenRows
<1>5. \A i \in LastOpened : i \in DOMAIN rows /\ rows[i].to = None /\ (rows[own].to = None => rows[i].n = N)
  <2> SUFFICES ASSUME NEW i \in LastOpened
      PROVE  i \in DOMAIN rows /\ rows[i].to = None /\ (rows[own].to = None => rows[i].n = N)
    OBVIOUS
  <2>1. i \in DOMAIN rows /\ rows[i].to = None
    BY DEF LastOpened, OpenRows
  <2>2. rows[own].to = None => rows[own].n <= rows[i].n
    BY <1>3 DEF LastOpened, OpenRows
  <2> QED BY <1>2, <1>3, <2>1, <2>2
<1>6. CASE LastOpened = {}
  <2>1. rows' = rows /\ rows[own].to # None
    BY <1>4, <1>6 DEF CloseRow
  <2>2. Recorded(c, q, rows, twice)
    BY DEF Recorded
  <2> QED BY <1>3, <2>1, <2>2 DEF N
<1>7. ASSUME NEW i \in LastOpened, rows' = [rows EXCEPT ![i].to = M]
      PROVE  /\ rows' \in Seq(Row) /\ Recorded(c, q, rows', twice)
             /\ \E k \in DOMAIN rows' : rows'[k].n = N /\ rows'[k].to # None
             /\ \A k \in DOMAIN rows : k \in DOMAIN rows' /\ rows'[k].n = rows[k].n
  <2>1. i \in DOMAIN rows /\ rows[i].to = None /\ (rows[own].to = None => rows[i].n = N)
    BY <1>5
  <2>2. /\ rows'[i] = [rows[i] EXCEPT !.to = M]
        /\ DOMAIN rows' = DOMAIN rows /\ \A k \in DOMAIN rows : k # i => rows'[k] = rows[k]
    BY <1>7, <2>1
  <2>3. [rows[i] EXCEPT !.to = M] \in Row
    BY <1>1, <1>2, <2>1 DEF Row, OrNone
  <2>4. rows'[i].n = rows[i].n /\ rows'[i].from = rows[i].from /\ rows'[i].to = M
    BY <1>2, <2>1, <2>2 DEF Row
  <2>5. rows' \in Seq(Row)
    BY <1>7, <2>1, <2>3
  <2>6. \A k \in DOMAIN rows : rows'[k].n = rows[k].n /\ rows'[k].from = rows[k].from
    BY <2>2, <2>4
  <2>7. \A k \in DOMAIN rows : rows[k].to # None => rows'[k] = rows[k]
    BY <2>1, <2>2
  <2>8. \E k \in DOMAIN rows' : rows'[k].n = N /\ rows'[k].to # None
    <3>1. CASE rows[own].to = None
      BY <1>1, <2>1, <2>2, <2>4, <3>1
    <3>2. CASE rows[own].to # None
      BY <1>3, <2>2, <2>7, <3>2
    <3> QED BY <3>1, <3>2
  <2>9. \A k \in DOMAIN rows' :
          /\ rows'[k].n <= c.n
          /\ \A l \in DOMAIN q : Numbered(q[l]) => rows'[k].n <= q[l].n
          /\ rows'[k].to # None => Passed(c, q, rows'[k].to)
    BY <1>1, <2>2, <2>4, <2>6 DEF Recorded
  <2>10. \A n \in 1 .. c.n :
           /\ Has(q, "start", n) \/ \E k \in DOMAIN rows' : rows'[k].n = n
           /\ \/ n = c.n /\ c.charging
              \/ Has(q, "stop", n)
              \/ \E k \in DOMAIN rows' : rows'[k].n = n /\ rows'[k].to # None
    BY <2>2, <2>6, <2>7 DEF Recorded
  <2>11. ASSUME ~twice, NEW k \in DOMAIN rows', NEW l \in DOMAIN rows', k # l, rows'[k].to # None
         PROVE  /\ rows'[l].to # None => rows'[k].n # rows'[l].n
                /\ rows'[k].n < rows'[l].n => rows'[k].to <= rows'[l].from
    <3>1. ~restopped /\ rows[own].to = None /\ \A j \in DOMAIN rows : rows[j].to # None => rows[j].n # N
      BY <1>3, <2>11 DEF N
    <3>2. rows[i].n = N
      BY <2>1, <3>1
    <3>3. CASE k = i
      BY <1>2, <2>2, <2>4, <2>6, <2>11, <3>1, <3>2, <3>3
    <3>4. CASE k # i
      <4>1. rows[k].to # None /\ rows'[k] = rows[k]
        BY <2>2, <2>11, <3>4
      <4>2. /\ rows[l].to # None => rows[k].n # rows[l].n
            /\ rows[k].n < rows[l].n => rows[k].to <= rows[l].from
        BY <2>2, <2>11, <3>1, <4>1 DEF Recorded
      <4>3. rows[k].n # N
        BY <2>2, <3>1, <4>1
      <4> QED BY <2>2, <2>4, <2>6, <3>2, <4>1, <4>2, <4>3
    <3> QED BY <3>3, <3>4
  <2>12. Recorded(c, q, rows', twice)
    BY <2>9, <2>10, <2>11 DEF Recorded
  <2> QED BY <2>2, <2>5, <2>6, <2>8, <2>12
<1>8. LastOpened # {} => \E i \in LastOpened : rows' = [rows EXCEPT ![i].to = M]
  BY DEF CloseRow, M
<1> QED BY <1>6, <1>7, <1>8 DEF N

LEMMA SnapshotRemembers ==
  ASSUME NEW c, NEW q, NEW h, NEW ids_, NEW m \in State, Remembers(c, q, h, ids_, m)
  PROVE  /\ Remembers(c, q, h, ids_, Snapshot(m)) /\ Snapshot(m) \in State
         /\ Snapshot(m).meterStart = None /\ Snapshot(m).pending = m.pending
<1>1. /\ Snapshot(m).txId = m.txId /\ Snapshot(m).ended = m.ended /\ Snapshot(m).session = m.session
      /\ Snapshot(m).meterStart = None /\ Snapshot(m).pending = m.pending
  BY DEF Snapshot, State
<1>2. Snapshot(m) \in State
  BY DEF Snapshot, State, OrNone, Charging
<1> QED BY <1>1, <1>2 DEF Remembers

\* What a handler leaves alone of a state does not change what it remembers.
LEMMA SameRemembers ==
  ASSUME NEW c, NEW q, NEW h, NEW ids_, NEW m, NEW w, Remembers(c, q, h, ids_, m),
         w.txId = m.txId, w.ended = m.ended, w.session = m.session, w.meterStart = m.meterStart
  PROVE  Remembers(c, q, h, ids_, w)
  BY DEF Remembers

LEMMA StartRemembers ==
  ASSUME NEW c \in Car, NEW q, q # << >>, Queue(c, q), NEW h \in Hearing, Heard(c, q, h),
         q[1].type = "start", NEW ids_, NEW m \in State, NEW id \in Nat
  PROVE  /\ Remembers(c, q, [n |-> q[1].n, from |-> q[1].meter, to |-> None], ids_,
                      OnStart(m, id, q[1].meter))
         /\ OnStart(m, id, q[1].meter) \in State
         /\ OnStart(m, id, q[1].meter).txId = id
<1> DEFINE w == OnStart(m, id, q[1].meter)
           g == [n |-> q[1].n, from |-> q[1].meter, to |-> None]
<1>1. /\ w.txId = id /\ w.ended = FALSE /\ w.meterStart = q[1].meter /\ w.session = None
  BY DEF OnStart, State
<1>2. g.n = q[1].n /\ g.from = q[1].meter /\ g.to = None
  OBVIOUS
<1>3. 1 \in DOMAIN q /\ q[1].meter \in Reading /\ q[1].meter \in Nat /\ Passed(c, q, q[1].meter) /\ None \notin Nat
  BY HeadFacts, BoundsAssumption DEF Metered, Reading
<1>4. w \in State
  BY <1>3 DEF OnStart, State, OrNone, Charging
<1> HIDE DEF w, g
<1>5. Has(q, "start", g.n)
  BY <1>2, <1>3 DEF Has
<1>6. Remembers(c, q, g, ids_, w)
  BY <1>1, <1>2, <1>3, <1>5 DEF Remembers
<1> QED BY <1>1, <1>4, <1>6 DEF w, g

LEMMA StopRemembers ==
  ASSUME NEW c \in Car, NEW q, q # << >>, Queue(c, q), NEW h \in Hearing, Heard(c, q, h),
         q[1].type = "stop", NEW ids_, NEW m \in State, NEW id \in OrNone(Nat),
         Remembers(c, q, h, ids_, m)
  PROVE  /\ Remembers(c, q, [h EXCEPT !.to = q[1].meter], ids_, OnStop(m, id, q[1].meter))
         /\ OnStop(m, id, q[1].meter) \in State
<1> DEFINE w == OnStop(m, id, q[1].meter)
           g == [h EXCEPT !.to = q[1].meter]
<1>1. /\ w.ended = TRUE /\ w.meterStart = m.meterStart
      /\ w.session = IF m.meterStart = None THEN m.session ELSE q[1].meter - m.meterStart
  BY DEF OnStop, State
<1>2. g.n = h.n /\ g.from = h.from /\ g.to = q[1].meter
  BY DEF Hearing
<1>3. /\ 1 \in DOMAIN q /\ Metered(q[1]) /\ q[1].meter \in Reading /\ q[1].meter \in Nat
      /\ Passed(c, q, q[1].meter) /\ None \notin Nat
  BY HeadFacts, BoundsAssumption DEF Metered, Reading
<1>4. (IF m.meterStart = None THEN m.session ELSE q[1].meter - m.meterStart) \in OrNone(Int)
  BY <1>3, StateTypes DEF OrNone
<1>5. w \in State
  <2>1. q[1].meter \in OrNone(Reading)
    BY <1>3 DEF OrNone
  <2> QED BY <1>4, <2>1 DEF OnStop, State
<1> HIDE DEF w, g
<1>6. m.meterStart # None =>
        m.meterStart \in Nat /\ h.from <= m.meterStart /\ Passed(c, q, m.meterStart) /\ m.meterStart <= q[1].meter
  BY <1>3, StateTypes DEF Remembers, Passed
<1>7. m.session # None =>
        m.session \in Int /\ 0 <= m.session /\ Passed(c, q, h.from + m.session) /\ h.from + m.session <= q[1].meter
  BY <1>3, StateTypes DEF Remembers, Passed
<1>8. w.session # None =>
        0 <= w.session /\ h.from + w.session <= q[1].meter /\ Passed(c, q, h.from + w.session)
  <2>1. CASE m.meterStart = None
    BY <1>1, <1>7, <2>1
  <2>2. CASE m.meterStart # None
    <3>1. 0 <= w.session /\ h.from + w.session <= q[1].meter /\ w.session \in Int
      BY <1>1, <1>3, <1>6, <2>2, HearingTypes
    <3>2. Passed(c, q, h.from + w.session)
      <4> DEFINE y == h.from + w.session
      <4>1. y \in Int /\ y <= q[1].meter /\ q[1].meter <= c.meter
        BY <1>3, <3>1, HearingTypes DEF Passed
      <4>2. \A k \in DOMAIN q : Metered(q[k]) => q[k].meter \in Nat /\ q[1].meter <= q[k].meter
        BY <1>3, MessageTypes DEF Passed, Queue
      <4> HIDE DEF y
      <4>3. Passed(c, q, y)
        BY <1>3, <4>1, <4>2, CarTypes DEF Passed
      <4> QED BY <4>3 DEF y
    <3> QED BY <3>1, <3>2
  <2> QED BY <2>1, <2>2
<1>9. Remembers(c, q, g, ids_, w)
  BY <1>1, <1>2, <1>3, <1>6, <1>8 DEF Remembers
<1> QED BY <1>5, <1>9 DEF w, g

LEMMA MeterRemembers ==
  ASSUME NEW c \in Car, NEW q, q # << >>, Queue(c, q), NEW h \in Hearing, Heard(c, q, h),
         q[1].type = "meter", NEW ids_ \in [Tx -> OrNone(Nat)], NEW m \in State,
         Remembers(c, q, h, ids_, m),
         NEW id, id = IF q[1].n = None THEN None ELSE ids_[q[1].n]
  PROVE  /\ Remembers(c, q, h, ids_, Measured(Restored(m, id), q[1].meter))
         /\ Measured(Restored(m, id), q[1].meter) \in State
         /\ Measured(Restored(m, id), q[1].meter).status = m.status
<1> DEFINE v == Restored(m, id)
           x == q[1].meter
           w == Measured(v, x)
<1>1. /\ 1 \in DOMAIN q /\ Metered(q[1]) /\ x \in Reading /\ x \in Nat
      /\ q \in Seq(Message)
      /\ Passed(c, q, x) /\ h.from <= x /\ None \notin Nat
      /\ h.from \in Nat /\ h.to \in Nat \union {None}
  BY HeadFacts, HearingTypes, BoundsAssumption DEF Metered, Reading
<1>2. q[1].n # None => q[1].n \in Tx /\ h.to = None /\ m.txId = ids_[q[1].n] /\ m.txId # None /\ ~m.ended
  <2>1. q[1].n # None => q[1].n = h.n /\ h.to = None /\ ~Has(q, "start", h.n)
    BY <1>1, HeadFacts
  <2>2. q[1].n # None => q[1].n \in Tx
    BY <1>1, Shape DEF OrNone
  <2> QED BY <2>1, <2>2 DEF Remembers
<1>3. /\ v \in State /\ v.txId = m.txId /\ v.ended = m.ended
      /\ v.session = m.session /\ v.meterStart = m.meterStart /\ v.status = m.status
  <2>1. CASE id = None
    BY <2>1, StateTypes DEF Restored
  <2>2. CASE id # None
    <3>1. q[1].n # None /\ id = m.txId /\ ~m.ended /\ m.txId \in Nat
      BY <1>2, <2>2, StateTypes
    <3>2. id \in OrNone(Nat) /\ Charging(m.status) \in BOOLEAN
      BY <3>1 DEF OrNone, Charging
    <3>3. v = [m EXCEPT !.txId = id, !.ended = FALSE, !.active = Charging(m.status)]
      BY <2>2 DEF Restored
    <3>4. v \in State
      BY <3>2, <3>3 DEF State
    <3> QED BY <3>1, <3>3, <3>4 DEF State
  <2> QED BY <2>1, <2>2
<1>4. Remembers(c, q, h, ids_, v)
  BY <1>3, SameRemembers
<1> HIDE DEF v, x
<1>5. /\ v.meterStart \in Nat \union {None} /\ v.session \in Int \union {None} /\ v.active \in BOOLEAN
  BY <1>3, StateTypes
<1>6. /\ w.txId = v.txId /\ w.ended = v.ended /\ w.status = v.status
      /\ w.meterStart = IF v.active /\ v.meterStart = None /\ x > 0 THEN x ELSE v.meterStart
      /\ w.session = IF v.meterStart # None
                     THEN IF x >= v.meterStart THEN x - v.meterStart ELSE v.session
                     ELSE IF v.active /\ x > 0 THEN 0 ELSE v.session
  BY <1>3 DEF Measured, State
<1>7. w \in State
  <2> DEFINE start == IF v.active /\ v.meterStart = None /\ x > 0 THEN x ELSE v.meterStart
             sum == IF v.meterStart # None
                    THEN IF x >= v.meterStart THEN x - v.meterStart ELSE v.session
                    ELSE IF v.active /\ x > 0 THEN 0 ELSE v.session
  <2>1. sum \in OrNone(Int)
    BY <1>1, <1>5 DEF OrNone
  <2>2. start \in OrNone(Reading) /\ x \in OrNone(Reading)
    BY <1>1, <1>3 DEF State, OrNone
  <2>3. w = [v EXCEPT !.total = x, !.meterStart = start, !.session = sum]
    BY DEF Measured
  <2> HIDE DEF start, sum, w
  <2> QED BY <1>3, <2>1, <2>2, <2>3 DEF State
<1> HIDE DEF w
<1>8. h.to # None => x <= h.to
  <2>1. h.to # None => x <= h.to \/ \E i \in DOMAIN q : i <= 1 /\ q[i].type = "start"
    BY <1>1 DEF Heard, x
  <2>2. \A i \in DOMAIN q : i <= 1 => i = 1
    BY <1>1, Shape
  <2> QED BY <2>1, <2>2
<1>9. w.meterStart # None =>
        /\ h.from <= w.meterStart /\ Passed(c, q, w.meterStart)
        /\ h.to # None => w.meterStart <= h.to
  BY <1>1, <1>4, <1>6, <1>8 DEF Remembers, x
<1>10. Passed(c, q, h.from)
  BY DEF Heard
<1>11. w.session # None =>
         /\ 0 <= w.session /\ Passed(c, q, h.from + w.session)
         /\ h.to # None => h.from + w.session <= h.to
  <2>1. CASE v.meterStart # None /\ x >= v.meterStart
    <3>1. h.from <= v.meterStart /\ w.session = x - v.meterStart /\ v.meterStart \in Nat
      BY <1>4, <1>5, <1>6, <2>1 DEF Remembers
    <3>2. 0 <= w.session /\ h.from + w.session <= x /\ w.session \in Int
      BY <1>1, <2>1, <3>1
    <3>3. h.to # None => h.from + w.session <= h.to
      BY <1>1, <1>8, <3>2
    <3> DEFINE y == h.from + w.session
    <3>4. y \in Int /\ y <= x /\ x <= c.meter
      BY <1>1, <3>2 DEF Passed
    <3>5. \A k \in DOMAIN q : Metered(q[k]) => q[k].meter \in Nat /\ x <= q[k].meter
      BY <1>1, MessageTypes DEF Passed
    <3> HIDE DEF y
    <3>6. Passed(c, q, y)
      BY <1>1, <3>4, <3>5, CarTypes DEF Passed
    <3> QED BY <3>2, <3>3, <3>6 DEF y
  <2>2. CASE w.session = 0
    <3>1. h.from + w.session = h.from
      BY <1>1, <2>2
    <3>2. h.to # None => h.from <= h.to
      BY DEF Heard
    <3> QED BY <1>10, <2>2, <3>1, <3>2
  <2>3. CASE w.session = v.session
    BY <1>4, <2>3 DEF Remembers
  <2> QED BY <1>6, <2>1, <2>2, <2>3
<1>12. Remembers(c, q, h, ids_, w)
  BY <1>4, <1>6, <1>9, <1>11 DEF Remembers
<1> QED BY <1>3, <1>6, <1>7, <1>12 DEF w, v, x

-----------------------------------------------------------------------------
(* The ledger and the queue *)

LEMMA TailHas ==
  ASSUME NEW q \in Seq(Message), q # << >>, NEW type \in {"start", "stop"}, NEW n, Has(q, type, n),
         ~(q[1].type = type /\ q[1].n = n)
  PROVE  Has(Tail(q), type, n)
<1>1. PICK k \in DOMAIN q : q[k].type = type /\ q[k].n = n
  BY DEF Has
<1>2. k - 1 \in DOMAIN Tail(q) /\ Tail(q)[k - 1] = q[k]
  BY <1>1, TailThins
<1> QED BY <1>1, <1>2 DEF Has

\* What has been handled may leave the queue: a start that was recorded and whose
\* id the charger has now, a stop that was recorded, or anything else.
LEMMA TailLedger ==
  ASSUME NEW c \in Car, NEW q, q # << >>, NEW h \in Hearing, NEW r \in Seq(Row), NEW twice,
         NEW ids_, NEW new, NEW m, NEW d, Ledger(c, q, h, r, twice, ids_, m, d),
         q[1].type = "start" =>
           /\ h.n = q[1].n /\ h.to = None /\ m.txId = new[h.n] /\ d.txId = new[h.n]
           /\ \E i \in DOMAIN r : r[i].n = q[1].n,
         q[1].type = "stop" =>
           /\ h.n = q[1].n /\ h.to # None
           /\ \E i \in DOMAIN r : r[i].n = q[1].n /\ r[i].to # None,
         q[1].type # "start" => new = ids_
  PROVE  Ledger(c, Tail(q), h, r, twice, new, m, d)
<1> DEFINE f == [k \in DOMAIN Tail(q) |-> k + 1]
<1>1. /\ q \in Seq(Message) /\ Tail(q) \in Seq(Message) /\ 1 \in DOMAIN q
      /\ Thins(Tail(q), q, f)
      /\ \A i \in DOMAIN q : i # 1 => i - 1 \in DOMAIN Tail(q) /\ Tail(q)[i - 1] = q[i]
  BY TailThins DEF Ledger, Queue
<1>2. \A i \in DOMAIN q : i # 1 => \E k \in DOMAIN Tail(q) : f[k] = i
  <2> SUFFICES ASSUME NEW i \in DOMAIN q, i # 1 PROVE f[i - 1] = i /\ i - 1 \in DOMAIN Tail(q)
    OBVIOUS
  <2>1. i - 1 \in DOMAIN Tail(q) /\ i \in Nat
    BY <1>1, Shape
  <2> QED BY <2>1
<1> HIDE DEF f
<1>3. \A type \in {"start", "stop"}, n \in Int :
        Has(q, type, n) => Has(Tail(q), type, n) \/ (q[1].type = type /\ q[1].n = n)
  BY <1>1, TailHas
<1>4. Queue(c, Tail(q))
  BY <1>1, ThinQueue DEF Ledger
<1>5. Dispensable(Tail(q), q, h)
  <2>1. \A type \in {"start", "stop"} : \A n : Has(q, type, n) /\ ~(q[1].type = type /\ q[1].n = n) => Has(Tail(q), type, n)
    BY <1>1, TailHas
  <2> QED BY <2>1, HearingTypes DEF Dispensable
<1>6. Heard(c, Tail(q), h)
  <2>1. ASSUME h.to # None, NEW i \in DOMAIN q, q[i].type = "start"
        PROVE  \E k \in DOMAIN Tail(q) : f[k] = i
    BY <1>2, <2>1
  <2> QED BY <1>1, <1>5, <2>1, ThinHeard DEF Ledger
<1>7. Recorded(c, Tail(q), r, twice)
  <2>1. \A n \in 1 .. c.n : Has(q, "start", n) => Has(Tail(q), "start", n) \/ \E i \in DOMAIN r : r[i].n = n
    BY <1>3
  <2>2. \A n \in 1 .. c.n : Has(q, "stop", n) =>
          Has(Tail(q), "stop", n) \/ \E i \in DOMAIN r : r[i].n = n /\ r[i].to # None
    BY <1>3
  <2> QED BY <1>1, <2>1, <2>2, ThinRecorded DEF Ledger
<1>8. ASSUME NEW w \in {m, d}
      PROVE  Remembers(c, Tail(q), h, new, w)
  <2>1. Remembers(c, q, h, ids_, w)
    BY <1>8 DEF Ledger
  <2>2. h.to = None => Has(Tail(q), "start", h.n) \/ w.txId = new[h.n]
    <3>1. CASE q[1].type = "start"
      BY <1>8, <3>1
    <3>2. CASE q[1].type # "start"
      BY <1>3, <2>1, <3>2, HearingTypes DEF Remembers
    <3> QED BY <3>1, <3>2
  <2> QED BY <1>1, <2>1, <2>2, ThinRemembers
<1> QED BY <1>4, <1>6, <1>7, <1>8 DEF Ledger

\* A reconnecting charger drops no message about a transaction.
LEMMA ResentLedger ==
  ASSUME NEW c \in Car, NEW q, NEW h \in Hearing, NEW r \in Seq(Row), NEW twice,
         NEW ids_, NEW m, NEW d, Ledger(c, q, h, r, twice, ids_, m, d)
  PROVE  Ledger(c, Resent(q), h, r, twice, ids_, m, d)
<1>1. q \in Seq(Message) /\ Resent(q) \in Seq(Message)
  BY ResentThins DEF Ledger, Queue
<1>2. PICK f : /\ Thins(Resent(q), q, f)
               /\ \A i \in DOMAIN q : Metered(q[i]) => \E k \in DOMAIN Resent(q) : f[k] = i
  BY <1>1, ResentThins
<1>3. \A type \in {"start", "stop"} : \A n : Has(q, type, n) => Has(Resent(q), type, n)
  BY <1>2 DEF Has, Thins, Metered
<1>4. Queue(c, Resent(q))
  BY <1>1, <1>2, ThinQueue DEF Ledger
<1>5. Heard(c, Resent(q), h)
  <2>1. \A i \in DOMAIN q : q[i].type = "start" => \E k \in DOMAIN Resent(q) : f[k] = i
    BY <1>2 DEF Metered
  <2>2. Dispensable(Resent(q), q, h)
    BY <1>3 DEF Dispensable
  <2> QED BY <1>1, <1>2, <2>1, <2>2, ThinHeard DEF Ledger
<1>6. Recorded(c, Resent(q), r, twice)
  BY <1>1, <1>2, <1>3, ThinRecorded DEF Ledger
<1>7. ASSUME NEW w \in {m, d} PROVE Remembers(c, Resent(q), h, ids_, w)
  <2>1. Remembers(c, q, h, ids_, w)
    BY <1>7 DEF Ledger
  <2>2. h.to = None => Has(Resent(q), "start", h.n) \/ w.txId = ids_[h.n]
    BY <1>3, <2>1 DEF Remembers
  <2> QED BY <1>2, <2>1, <2>2, ThinRemembers
<1> QED BY <1>4, <1>5, <1>6, <1>7 DEF Ledger

LEMMA PostLedger ==
  ASSUME NEW c \in Car, NEW e \in Car, NEW q, NEW x \in Message, NEW h \in Hearing,
         NEW r \in Seq(Row), NEW twice, NEW ids_, NEW m \in State, NEW d \in State,
         Ledger(c, q, h, r, twice, ids_, m, d), Posts(c, e, x)
  PROVE  Ledger(e, Append(q, x), h, r, twice, ids_, m, d)
  BY PostQueue, PostHeard, PostRecorded, PostRemembers DEF Ledger

-----------------------------------------------------------------------------
(* The steps of the charger *)

LEMMA Types ==
  ASSUME TypeOK
  PROVE  /\ car \in Car /\ heard \in Hearing /\ outbox \in Seq(Message) /\ rows \in Seq(Row)
         /\ mem \in State /\ disk \in State
  BY DEF TypeOK, Car, Hearing

LEMMA StatusMessage ==
  ASSUME NEW s \in Status
  PROVE  StatusMsg(s) \in Message /\ ~Metered(StatusMsg(s)) /\ StatusMsg(s).status = s
  BY DEF StatusMsg, Message, Metered

\* What a step of the charger changes, with the queue it leaves.
LEMMA CarStep ==
  ASSUME IInv, car' \in Car, CarInv', UNCHANGED <<ids, up, server, faults, toggles, history>>,
         Ledger(car', outbox', heard, rows, restopped, ids, mem, disk),
         LastStatus(car', outbox'),
         (\A k \in DOMAIN outbox' : outbox'[k].type # "status") =>
           (\A k \in DOMAIN outbox : outbox[k].type # "status") /\ car'.status = car.status
  PROVE  IInv'
<1>1. TypeOK'
  BY DEF IInv, TypeOK, Car, Ledger, Queue, server, history
<1>2. StatusShown'
  BY DEF IInv, StatusShown, server
<1> QED BY <1>1, <1>2 DEF IInv, server, history

\* One message, or two of which one is a status.
LEMMA OneMessage ==
  ASSUME IInv, NEW x \in Message, Posted(<<x>>)
  PROVE  outbox' = Append(outbox, x)
  BY Types DEF IInv, Posted

LEMMA TwoMessages ==
  ASSUME IInv, NEW x \in Message, NEW y \in Message, Posted(<<x, y>>)
  PROVE  outbox' = Append(Append(outbox, x), y)
  BY Types DEF IInv, Posted

LEMMA CarStatusStep ==
  ASSUME IInv, NEW s \in Status, NEW plugged \in BOOLEAN, CarStatus(s, plugged),
         car.charging <=> s \in {"Charging", "SuspendedEV"}, plugged <=> s # "Available"
  PROVE  IInv'
<1>1. /\ car \in Car /\ heard \in Hearing /\ outbox \in Seq(Message) /\ rows \in Seq(Row)
      /\ mem \in State /\ disk \in State
  BY Types DEF IInv
<1>2. StatusMsg(s) \in Message /\ ~Metered(StatusMsg(s)) /\ StatusMsg(s).status = s
  BY StatusMessage
<1>3. outbox' = Append(outbox, StatusMsg(s))
  BY <1>2, OneMessage DEF CarStatus
<1>4. car' \in Car /\ Same(car, car') /\ car'.status = s /\ car'.plugged = plugged
  BY <1>1 DEF CarStatus, Car, Same
<1>5. CarInv'
  BY <1>4 DEF IInv, CarInv, Same
<1>6. Ledger(car', outbox', heard, rows, restopped, ids, mem, disk)
  <2>1. Posts(car, car', StatusMsg(s))
    BY <1>2, <1>4 DEF Posts, Notes
  <2> QED BY <1>1, <1>2, <1>3, <1>4, <2>1, PostLedger DEF IInv
<1>7. LastStatus(car', outbox')
  BY <1>1, <1>2, <1>3, <1>4, PostStatus
<1>8. \E k \in DOMAIN outbox' : outbox'[k].type = "status"
  BY <1>1, <1>2, <1>3, Added DEF Metered
<1>9. UNCHANGED <<ids, up, server, faults, toggles, history>>
  BY DEF CarStatus
<1> QED BY <1>4, <1>5, <1>6, <1>7, <1>8, <1>9, CarStep

\* A start or a stop, and the status before or after it.
LEMMA CarTwoStep ==
  ASSUME IInv, NEW x \in Message, Metered(x), NEW s \in Status,
         Posted(<<x, StatusMsg(s)>>) \/ Posted(<<StatusMsg(s), x>>),
         Posts(car, car', x), car' \in Car, CarInv', car'.status = s,
         UNCHANGED <<ids, up, server, faults, toggles, history>>
  PROVE  IInv'
<1> DEFINE y == StatusMsg(s)
<1>1. /\ car \in Car /\ heard \in Hearing /\ outbox \in Seq(Message) /\ rows \in Seq(Row)
      /\ mem \in State /\ disk \in State
  BY Types DEF IInv
<1>2. y \in Message /\ ~Metered(y) /\ y.status = s
  BY StatusMessage
<1>3. Posts(car, car, y) /\ Posts(car', car', y)
  BY <1>2 DEF Posts, Notes, Same
<1>4. Append(outbox, x) \in Seq(Message) /\ Append(outbox, y) \in Seq(Message)
  BY <1>1, <1>2
<1> HIDE DEF y
<1>5. CASE outbox' = Append(Append(outbox, x), y)
  <2>1. Ledger(car', Append(outbox, x), heard, rows, restopped, ids, mem, disk)
    BY <1>1, PostLedger DEF IInv
  <2>2. Ledger(car', outbox', heard, rows, restopped, ids, mem, disk)
    BY <1>1, <1>2, <1>3, <1>5, <2>1, PostLedger
  <2>3. LastStatus(car', outbox')
    BY <1>2, <1>4, <1>5, PostStatus
  <2>4. \E k \in DOMAIN outbox' : outbox'[k].type = "status"
    BY <1>2, <1>4, <1>5, Added DEF Metered
  <2> QED BY <2>2, <2>3, <2>4, CarStep
<1>6. CASE outbox' = Append(Append(outbox, y), x)
  <2>1. Ledger(car, Append(outbox, y), heard, rows, restopped, ids, mem, disk)
    BY <1>1, <1>2, <1>3, PostLedger DEF IInv
  <2>2. Ledger(car', outbox', heard, rows, restopped, ids, mem, disk)
    BY <1>1, <1>6, <2>1, PostLedger
  <2>3. LastStatus(car', Append(outbox, y))
    BY <1>1, <1>2, PostStatus
  <2>4. LastStatus(car', outbox')
    BY <1>4, <1>6, <2>3, PostStatus
  <2>5. \E k \in DOMAIN outbox' : outbox'[k].type = "status"
    <3>1. \E k \in DOMAIN Append(outbox, y) : Append(outbox, y)[k].type = "status"
      <4>1. Len(outbox) + 1 \in DOMAIN Append(outbox, y) /\ Append(outbox, y)[Len(outbox) + 1] = y
        BY <1>1, <1>2, Added
      <4> QED BY <1>2, <4>1 DEF Metered
    <3> QED BY <1>4, <1>6, <3>1, Added
  <2> QED BY <2>2, <2>4, <2>5, CarStep
<1> QED BY <1>2, <1>5, <1>6, TwoMessages DEF y

LEMMA BeginStep ==
  ASSUME IInv, BeginCharging
  PROVE  IInv'
<1> DEFINE x == [type |-> "start", n |-> car.n + 1, meter |-> car.meter]
<1>1. car \in Car /\ MaxTx \in Nat /\ car.status = "Preparing" /\ car.n < MaxTx /\ ~car.charging
  BY Types, BoundsAssumption DEF IInv, BeginCharging, CarInv
<1>2. car' = [car EXCEPT !.status = "Charging", !.charging = TRUE, !.n = @ + 1]
  BY DEF BeginCharging
<1>3. /\ car' \in Car /\ car'.status = "Charging" /\ car'.charging /\ car'.n = car.n + 1
      /\ car'.meter = car.meter /\ car'.plugged = car.plugged
  <2>1. car.n \in 0 .. MaxTx
    BY <1>1 DEF Car
  <2>2. car.n + 1 \in 0 .. MaxTx
    BY <1>1, <2>1
  <2> QED BY <1>1, <1>2, <2>2 DEF Car, Status
<1>4. x \in Message /\ Metered(x) /\ x.type = "start" /\ x.n = car.n + 1 /\ x.meter = car.meter
  BY <1>1 DEF Message, Metered, Car, Tx, OrNone
<1>5. Posts(car, car', x)
  BY <1>1, <1>3, <1>4 DEF Posts, Begins
<1>6. CarInv'
  BY <1>1, <1>3, CarTypes DEF IInv, CarInv
<1>7. /\ Posted(<<x, StatusMsg("Charging")>>) \/ Posted(<<StatusMsg("Charging"), x>>)
      /\ UNCHANGED <<ids, up, server, faults, toggles, history>>
  BY DEF BeginCharging
<1> HIDE DEF x
<1> QED BY <1>3, <1>4, <1>5, <1>6, <1>7, CarTwoStep DEF Status

LEMMA EndStep ==
  ASSUME IInv, EndCharging
  PROVE  IInv'
<1> DEFINE x == [type |-> "stop", n |-> car.n, meter |-> car.meter]
<1>1. car \in Car /\ car.charging /\ car.n # 0
  BY Types DEF IInv, EndCharging, CarInv
<1>2. car' = [car EXCEPT !.status = "Finishing", !.charging = FALSE]
  BY DEF EndCharging
<1>3. /\ car' \in Car /\ car'.status = "Finishing" /\ ~car'.charging /\ car'.n = car.n
      /\ car'.meter = car.meter /\ car'.plugged = car.plugged
  BY <1>1, <1>2 DEF Car, Status
<1>4. x \in Message /\ Metered(x) /\ x.type = "stop" /\ x.n = car.n /\ x.meter = car.meter
  BY <1>1 DEF Message, Metered, Car, Tx, OrNone
<1>5. Posts(car, car', x)
  BY <1>1, <1>3, <1>4 DEF Posts, Finishes
<1>6. CarInv'
  BY <1>1, <1>3 DEF IInv, CarInv
<1>7. /\ Posted(<<x, StatusMsg("Finishing")>>) \/ Posted(<<StatusMsg("Finishing"), x>>)
      /\ UNCHANGED <<ids, up, server, faults, toggles, history>>
  BY DEF EndCharging
<1> HIDE DEF x
<1> QED BY <1>3, <1>4, <1>5, <1>6, <1>7, CarTwoStep DEF Status

\* A reading, with or without a transaction.
LEMMA ReadingStep ==
  ASSUME IInv, Consume \/ IdleReading
  PROVE  IInv'
<1>1. /\ car \in Car /\ heard \in Hearing /\ outbox \in Seq(Message) /\ rows \in Seq(Row)
      /\ mem \in State /\ disk \in State /\ (car.charging => car.n # 0)
  BY Types DEF IInv, CarInv
<1>2. PICK x \in Message : /\ Metered(x) /\ Posted(<<x>>)
                           /\ Posts(car, car', x) /\ car' \in Car
                           /\ car'.status = car.status /\ car'.plugged = car.plugged
                           /\ car'.charging = car.charging /\ car'.n = car.n
  <2>1. CASE Consume
    <3> DEFINE x == [type |-> "meter", n |-> car.n, meter |-> car.meter + 1]
    <3>1. car' = [car EXCEPT !.meter = @ + 1] /\ car.charging /\ car.meter < MaxMeter /\ Posted(<<x>>)
      BY <2>1 DEF Consume
    <3>2. car.meter + 1 \in Reading /\ car.n \in Tx
      BY <1>1, <3>1, BoundsAssumption DEF Car, Reading, Tx
    <3>3. /\ car' \in Car /\ car'.meter = car.meter + 1 /\ car'.charging /\ car'.n = car.n
          /\ car'.status = car.status /\ car'.plugged = car.plugged /\ car'.charging = car.charging
      BY <1>1, <3>1, <3>2 DEF Car
    <3>4. x \in Message /\ Metered(x) /\ x.type = "meter" /\ x.n = car.n /\ x.meter = car.meter + 1
      BY <3>2 DEF Message, Metered, OrNone
    <3>5. Posts(car, car', x)
      BY <1>1, <3>1, <3>3, <3>4 DEF Posts, Consumes
    <3> QED BY <3>1, <3>3, <3>4, <3>5
  <2>2. CASE IdleReading
    <3> DEFINE x == [type |-> "meter", n |-> None, meter |-> car.meter]
    <3>1. car' = car /\ ~car.charging /\ Posted(<<x>>)
      BY <2>2 DEF IdleReading, charger
    <3>2. x \in Message /\ Metered(x) /\ x.type = "meter" /\ x.n = None /\ x.meter = car.meter
      BY <1>1 DEF Message, Metered, OrNone, Car
    <3>3. Posts(car, car', x)
      BY <3>1, <3>2 DEF Posts, Idles, Same
    <3> QED BY <1>1, <3>1, <3>2, <3>3
  <2> QED BY <2>1, <2>2
<1>3. outbox' = Append(outbox, x)
  BY <1>2, OneMessage
<1>4. Ledger(car', outbox', heard, rows, restopped, ids, mem, disk)
  BY <1>1, <1>2, <1>3, PostLedger DEF IInv
<1>5. LastStatus(car', outbox')
  <2>1. LastStatus(car', outbox)
    BY <1>2 DEF IInv, LastStatus
  <2> QED BY <1>1, <1>2, <1>3, <2>1, PostStatus
<1>6. CarInv'
  BY <1>2 DEF IInv, CarInv
<1>7. (\A k \in DOMAIN outbox' : outbox'[k].type # "status") => \A k \in DOMAIN outbox : outbox[k].type # "status"
  <2>1. \A k \in DOMAIN outbox : k \in DOMAIN outbox' /\ outbox'[k] = outbox[k]
    BY <1>1, <1>3, Added
  <2> QED BY <2>1
<1>8. UNCHANGED <<ids, up, server, faults, toggles, history>>
  BY DEF Consume, IdleReading, charger
<1> QED BY <1>2, <1>4, <1>5, <1>6, <1>7, <1>8, CarStep

-----------------------------------------------------------------------------
(* The connection and the process *)

LEMMA OpenedStep ==
  ASSUME IInv, ConnectionOpened
  PROVE  IInv'
<1> DEFINE p == Resent(outbox)
           y == StatusMsg(car.status)
<1>1. /\ car \in Car /\ heard \in Hearing /\ outbox \in Seq(Message) /\ rows \in Seq(Row)
      /\ mem \in State /\ disk \in State /\ car.status \in Status
  BY Types DEF IInv, Car
<1>2. y \in Message /\ ~Metered(y) /\ y.status = car.status
  BY <1>1, StatusMessage
<1>3. outbox' = Append(p, y) /\ disk' = OpenedSnapshot(Snapshot(mem))
      /\ UNCHANGED <<charger, mem, counter, tasks, rows, faults, toggles, history>> /\ up'
  BY DEF ConnectionOpened
<1>4. /\ Snapshot(mem) \in State /\ Snapshot(mem).meterStart = None
      /\ disk'.txId = Snapshot(mem).txId /\ disk'.ended = Snapshot(mem).ended
      /\ disk'.session = Snapshot(mem).session
      /\ disk'.meterStart = Snapshot(mem).meterStart /\ disk' \in State
  <2>1. PICK w \in State : w = Snapshot(mem) /\ w.meterStart = None
    BY SnapshotRemembers, <1>1 DEF IInv, Ledger
  <2>2. disk' = [w EXCEPT !.status = None, !.plugged = None, !.active = FALSE]
    BY <1>3, <2>1 DEF OpenedSnapshot
  <2>3. /\ disk'.txId = w.txId /\ disk'.ended = w.ended /\ disk'.session = w.session
        /\ disk'.meterStart = w.meterStart
    BY <2>2 DEF State
  <2>4. disk' \in State
    BY <2>2 DEF State, OrNone
  <2> QED BY <2>1, <2>3, <2>4
<1>5. p \in Seq(Message) /\ Ledger(car, p, heard, rows, restopped, ids, mem, disk)
  BY <1>1, ResentThins, ResentLedger DEF IInv
<1> HIDE DEF p, y
<1>6. Ledger(car, outbox', heard, rows, restopped, ids, mem, disk)
  <2>1. Posts(car, car, y)
    BY <1>2 DEF Posts, Notes, Same
  <2> QED BY <1>1, <1>2, <1>3, <1>5, <2>1, PostLedger
<1>7. Ledger(car, outbox', heard, rows, restopped, ids, mem, disk')
  <2>1. Remembers(car, outbox', heard, ids, Snapshot(mem))
    BY <1>1, <1>6, SnapshotRemembers DEF Ledger
  <2>2. Remembers(car, outbox', heard, ids, disk')
    BY <1>4, <2>1, SameRemembers
  <2> QED BY <1>6, <2>2 DEF Ledger
<1>8. LastStatus(car, outbox')
  BY <1>2, <1>3, <1>5, PostStatus
<1>9. \E k \in DOMAIN outbox' : outbox'[k].type = "status"
  <2>1. Len(p) + 1 \in DOMAIN Append(p, y) /\ Append(p, y)[Len(p) + 1] = y
    BY <1>2, <1>5, Added
  <2> QED BY <1>2, <1>3, <2>1 DEF Metered
<1>10. TypeOK'
  BY <1>3, <1>4, <1>7 DEF IInv, TypeOK, Ledger, Queue, charger, history, ConnectionOpened
<1>11. CarInv' /\ StatusShown'
  BY <1>3, <1>9 DEF IInv, CarInv, StatusShown, charger
<1> QED BY <1>3, <1>4, <1>7, <1>8, <1>10, <1>11 DEF IInv, charger, history

\* The snapshot is written, or the server's fields that nothing here depends on
\* change.
LEMMA SnapshotStep ==
  ASSUME IInv, UNCHANGED <<charger, outbox, rows, heard, restopped>>,
         up' \in {up, FALSE},
         mem' \in State, mem'.txId = mem.txId, mem'.ended = mem.ended,
         mem'.session = mem.session, mem'.meterStart = mem.meterStart, mem'.status = mem.status,
         disk' \in {disk, Snapshot(mem')},
         counter' \in Nat, tasks' \in Nat, faults' \in Nat, toggles' \in Nat, orphan' \in BOOLEAN
  PROVE  IInv'
<1>1. /\ car \in Car /\ heard \in Hearing /\ outbox \in Seq(Message) /\ rows \in Seq(Row)
      /\ mem \in State /\ disk \in State
  BY Types DEF IInv
<1>2. Remembers(car, outbox, heard, ids, mem')
  BY SameRemembers DEF IInv, Ledger
<1>3. Remembers(car, outbox, heard, ids, disk') /\ disk' \in State /\ disk'.meterStart = None
  <2>1. CASE disk' = disk
    BY <1>1, <2>1 DEF IInv, Ledger
  <2>2. CASE disk' = Snapshot(mem')
    BY <1>2, <2>2, SnapshotRemembers
  <2> QED BY <2>1, <2>2
<1>4. Ledger(car, outbox, heard, rows, restopped, ids, mem', disk')
  BY <1>2, <1>3 DEF IInv, Ledger
<1>5. TypeOK'
  BY <1>3 DEF IInv, TypeOK, charger
<1>6. CarInv' /\ LastStatus(car, outbox)
  BY DEF IInv, CarInv, charger
<1>7. StatusShown'
  <2>1. up' => up
    OBVIOUS
  <2> QED BY <2>1 DEF IInv, StatusShown, charger
<1> QED BY <1>3, <1>4, <1>5, <1>6, <1>7 DEF IInv, charger

\* The process starts again from what it has persisted.
LEMMA RestartStep ==
  ASSUME IInv, NEW d \in State, Restart(d), d.meterStart = None, heard' \in Hearing,
         UNCHANGED <<charger, outbox, rows, toggles, restopped>>,
         Heard(car, outbox, heard'), Remembers(car, outbox, heard', ids, d)
  PROVE  IInv'
<1>1. /\ disk' = d /\ mem' = d /\ up' = FALSE /\ counter' = 1 /\ tasks' = 0
      /\ orphan' = d.pending /\ faults' = faults + 1
  BY DEF Restart
<1>2. d.pending \in BOOLEAN
  BY DEF State
<1>3. TypeOK'
  <2>1. faults' \in Nat
    BY <1>1 DEF IInv, TypeOK
  <2>2. heard' \in [n : 0 .. MaxTx, from : Reading, to : OrNone(Reading)]
    BY DEF Hearing
  <2>3. mem' \in State /\ disk' \in State /\ up' \in BOOLEAN /\ counter' \in Nat /\ tasks' \in Nat
        /\ orphan' \in BOOLEAN
    BY <1>1, <1>2
  <2>4. /\ car' \in [plugged : BOOLEAN, status : Status, n : 0 .. MaxTx,
                      charging : BOOLEAN, meter : Reading]
        /\ ids' \in [Tx -> OrNone(Nat)] /\ outbox' \in Seq(Message) /\ rows' \in Seq(Row)
        /\ toggles' \in Nat /\ restopped' \in BOOLEAN
    BY DEF IInv, TypeOK, charger
  <2> QED BY <2>1, <2>2, <2>3, <2>4 DEF TypeOK
<1>4. Ledger(car, outbox, heard', rows, restopped, ids, mem', disk')
  BY <1>1 DEF IInv, Ledger
<1>5. CarInv' /\ StatusShown' /\ LastStatus(car, outbox)
  BY <1>1 DEF IInv, CarInv, StatusShown, charger
<1> QED BY <1>1, <1>3, <1>4, <1>5 DEF IInv, charger

\* A crash, a lost connection, a heartbeat and Plug and Go.
LEMMA QuietSteps ==
  ASSUME IInv,
         \/ ConnectionClosed \/ Heartbeat \/ Crash
         \/ PlugAndGoEnds \/ \E enabled \in BOOLEAN : SetPlugAndGo(enabled)
  PROVE  IInv'
<1>1. /\ mem \in State /\ disk \in State /\ heard \in Hearing
      /\ {counter, tasks, faults, toggles} \subseteq Nat /\ orphan \in BOOLEAN
  BY Types DEF IInv, TypeOK
<1>2. CASE ConnectionClosed
  <2>1. faults' \in Nat
    BY <1>1, <1>2 DEF ConnectionClosed
  <2>2. /\ up' = FALSE /\ disk' = Snapshot(mem') /\ mem' = mem
        /\ UNCHANGED <<charger, outbox, counter, tasks, rows, toggles, heard, restopped, orphan>>
    BY <1>2 DEF ConnectionClosed, history
  <2> QED BY <1>1, <2>1, <2>2, SnapshotStep
<1>3. CASE Heartbeat
  BY <1>1, <1>3, SnapshotStep DEF Heartbeat, charger, history
<1>4. CASE Crash
  <2>1. disk.meterStart = None /\ Heard(car, outbox, heard) /\ Remembers(car, outbox, heard, ids, disk)
    BY DEF IInv, Ledger
  <2> QED BY <1>1, <1>4, <2>1, RestartStep DEF Crash
<1>5. CASE PlugAndGoEnds
  <2>1. mem' = [mem EXCEPT !.pending = FALSE]
    BY <1>5 DEF PlugAndGoEnds
  <2>2. /\ mem' \in State /\ mem'.txId = mem.txId /\ mem'.ended = mem.ended
        /\ mem'.session = mem.session /\ mem'.meterStart = mem.meterStart /\ mem'.status = mem.status
    BY <1>1, <2>1 DEF State
  <2>3. tasks' \in Nat
    BY <1>1, <1>5 DEF PlugAndGoEnds
  <2> QED BY <1>1, <1>5, <2>2, <2>3, SnapshotStep DEF PlugAndGoEnds
<1>6. ASSUME NEW enabled \in BOOLEAN, SetPlugAndGo(enabled)
      PROVE  IInv'
  <2>1. mem' = [mem EXCEPT !.png = enabled, !.pending = @ /\ enabled]
    BY <1>6 DEF SetPlugAndGo
  <2>2. /\ mem' \in State /\ mem'.txId = mem.txId /\ mem'.ended = mem.ended
        /\ mem'.session = mem.session /\ mem'.meterStart = mem.meterStart /\ mem'.status = mem.status
    BY <1>1, <2>1 DEF State
  <2>3. toggles' \in Nat
    <3>1. toggles \in Nat /\ toggles' = toggles + 1
      BY <1>1, <1>6 DEF SetPlugAndGo
    <3> QED BY <3>1
  <2>4. orphan' \in BOOLEAN
    BY <1>1, <1>6, Zenon DEF SetPlugAndGo
  <2> QED BY <1>1, <1>6, <2>2, <2>3, <2>4, SnapshotStep DEF SetPlugAndGo
<1> QED BY <1>2, <1>3, <1>4, <1>5, <1>6

-----------------------------------------------------------------------------
(* The handlers *)

LEMMA TailDiffers ==
  ASSUME NEW q \in Seq(Message), q # << >>
  PROVE  Tail(q) # q
<1>1. Len(q) \in Nat /\ Len(Tail(q)) = Len(q) - 1
  OBVIOUS
<1>2. ASSUME Tail(q) = q PROVE Len(q) = Len(q) - 1
  BY <1>1, <1>2
<1>3. \A n \in Nat : n # n - 1
  OBVIOUS
<1> QED BY <1>1, <1>2, <1>3

\* The handler's effect on the ledger holds with the message in the queue; then
\* the reply takes the message out, or the connection ends.
LEMMA RepliedStep ==
  ASSUME IInv, Replied, up, outbox # << >>, UNCHANGED <<car, toggles>>,
         mem' \in State, disk' \in State, disk'.meterStart = None,
         rows' \in Seq(Row), heard' \in Hearing, ids' \in [Tx -> OrNone(Nat)],
         counter' \in Nat, tasks' \in Nat, orphan' \in BOOLEAN, restopped' \in BOOLEAN,
         Ledger(car, outbox, heard', rows', restopped', ids, mem', disk'),
         Msg.type = "start" =>
           /\ heard'.n = Msg.n /\ heard'.to = None
           /\ \E i \in DOMAIN rows' : rows'[i].n = Msg.n
           /\ Answered => mem'.txId = ids'[Msg.n] /\ disk'.txId = ids'[Msg.n],
         Msg.type = "stop" =>
           /\ heard'.n = Msg.n /\ heard'.to # None
           /\ \E i \in DOMAIN rows' : rows'[i].n = Msg.n /\ rows'[i].to # None,
         Msg.type # "start" \/ ~Answered => ids' = ids,
         mem'.status = IF Msg.type = "status" THEN Msg.status ELSE mem.status
  PROVE  IInv'
<1>1. /\ car \in Car /\ outbox \in Seq(Message) /\ Msg = outbox[1] /\ Tail(outbox) \in Seq(Message)
  BY Types, TailThins DEF IInv, Msg
<1>2. CarInv'
  BY DEF IInv, CarInv
<1>3. outbox' \in Seq(Message) /\ up' \in BOOLEAN /\ faults' \in Nat
  <2>1. faults \in Nat /\ faults + 1 \in Nat
    BY DEF IInv, TypeOK
  <2> QED BY <1>1, <2>1 DEF Replied
<1>4. TypeOK'
  <2>1. car' \in [plugged : BOOLEAN, status : Status, n : 0 .. MaxTx,
                  charging : BOOLEAN, meter : Reading] /\ toggles' \in Nat
    BY DEF IInv, TypeOK
  <2> QED BY <1>3, <2>1 DEF TypeOK, Hearing
<1>5. CASE outbox' = Tail(outbox) /\ up' = up
  <2>1. Answered
    BY <1>1, <1>5, TailDiffers DEF Answered
  <2>2. Ledger(car, outbox', heard', rows', restopped', ids', mem', disk')
    <3>1. /\ outbox[1].type = "start" =>
               /\ heard'.n = outbox[1].n /\ heard'.to = None
               /\ mem'.txId = ids'[heard'.n] /\ disk'.txId = ids'[heard'.n]
               /\ \E i \in DOMAIN rows' : rows'[i].n = outbox[1].n
          /\ outbox[1].type = "stop" =>
               /\ heard'.n = outbox[1].n /\ heard'.to # None
               /\ \E i \in DOMAIN rows' : rows'[i].n = outbox[1].n /\ rows'[i].to # None
          /\ outbox[1].type # "start" => ids' = ids
      BY <1>1, <2>1
    <3>2. Ledger(car, Tail(outbox), heard', rows', restopped', ids', mem', disk')
      BY <1>1, <3>1, TailLedger
    <3> QED BY <1>5, <3>2
  <2>3. /\ LastStatus(car, outbox')
        /\ (\A k \in DOMAIN outbox' : outbox'[k].type # "status") =>
             \/ \A k \in DOMAIN outbox : outbox[k].type # "status"
             \/ Msg.type = "status" /\ Msg.status = car.status
    BY <1>1, <1>5, TailStatus DEF IInv, Msg, Metered
  <2>4. StatusShown'
    <3>1. 1 \in DOMAIN outbox
      BY <1>1, TailThins
    <3> QED BY <1>1, <1>5, <2>3, <3>1 DEF IInv, StatusShown
  <2> QED BY <1>2, <1>4, <2>2, <2>3, <2>4 DEF IInv
<1>6. CASE outbox' = outbox /\ up' = FALSE
  <2>1. ids' = ids
    BY <1>6 DEF Answered
  <2> QED BY <1>2, <1>4, <1>6, <2>1 DEF IInv, StatusShown
<1> QED BY <1>5, <1>6 DEF Replied

LEMMA RecordStatusStep ==
  ASSUME IInv, RecordStatus
  PROVE  IInv'
<1>1. /\ car \in Car /\ heard \in Hearing /\ outbox \in Seq(Message) /\ rows \in Seq(Row)
      /\ mem \in State /\ disk \in State
      /\ up /\ outbox # << >> /\ Msg.type = "status" /\ Msg = outbox[1] /\ Msg \in Message
  <2>1. 1 \in DOMAIN outbox /\ Head(outbox) = outbox[1] /\ outbox[1] \in Message
    BY Types, TailThins, MessageTypes DEF IInv, RecordStatus, Receives
  <2> QED BY <2>1, Types DEF IInv, RecordStatus, Receives, Msg
<1>2. mem' = OnStatus(mem, Msg.status) /\ Msg.status \in Status
  BY <1>1 DEF RecordStatus, Message
<1>3. /\ mem'.txId = mem.txId /\ mem'.ended = mem.ended /\ mem'.session = mem.session
      /\ mem'.meterStart = mem.meterStart /\ mem'.status = Msg.status
  BY <1>1, <1>2 DEF OnStatus, State
<1>4. mem' \in State
  <2> DEFINE p == mem.pending \/ PlugEdge(mem, Msg.status)
  <2>1. p \in BOOLEAN
    BY Zenon
  <2>2. Plugged(Msg.status) \in OrNone(BOOLEAN) /\ Charging(Msg.status) \in BOOLEAN
    BY <1>2 DEF Plugged, Charging, OrNone
  <2>3. mem' = [mem EXCEPT !.status = Msg.status, !.plugged = Plugged(Msg.status),
                           !.active = Charging(Msg.status), !.pending = p]
    BY <1>1, <1>2 DEF OnStatus, State
  <2> HIDE DEF p
  <2> QED BY <1>1, <1>2, <2>1, <2>2, <2>3 DEF State, OrNone
<1>5. Remembers(car, outbox, heard, ids, mem')
  BY <1>3, SameRemembers DEF IInv, Ledger
<1>6. Remembers(car, outbox, heard, ids, disk') /\ disk' \in State /\ disk'.meterStart = None
  BY <1>4, <1>5, SnapshotRemembers DEF RecordStatus
<1>7. Ledger(car, outbox, heard, rows, restopped, ids, mem', disk')
  BY <1>5, <1>6 DEF IInv, Ledger
<1>8. UNCHANGED <<car, ids, counter, rows, toggles, heard, restopped>> /\ Replied
      /\ ids \in [Tx -> OrNone(Nat)] /\ counter \in Nat /\ restopped \in BOOLEAN
      /\ tasks' \in Nat
  BY DEF RecordStatus, charger, IInv, TypeOK
<1>9. orphan' \in BOOLEAN
  BY <1>4 DEF RecordStatus, IInv, TypeOK, State
<1> QED BY <1>1, <1>3, <1>4, <1>6, <1>7, <1>8, <1>9, RepliedStep

LEMMA MeterStep ==
  ASSUME IInv, MeterValues
  PROVE  IInv'
<1> DEFINE id == IF Msg.n = None THEN None ELSE ids[Msg.n]
<1>1. /\ car \in Car /\ heard \in Hearing /\ outbox \in Seq(Message) /\ rows \in Seq(Row)
      /\ mem \in State /\ disk \in State /\ ids \in [Tx -> OrNone(Nat)]
      /\ up /\ outbox # << >> /\ Msg.type = "meter" /\ Msg = outbox[1]
  <2>1. Head(outbox) = outbox[1]
    BY Types, TailThins DEF IInv, MeterValues, Receives
  <2> QED BY <2>1, Types DEF IInv, TypeOK, MeterValues, Receives, Msg
<1>2. mem' = Measured(Restored(mem, id), Msg.meter)
      /\ disk' = (IF mem'.total # mem.total THEN Snapshot(mem') ELSE disk)
      /\ Replied /\ UNCHANGED <<charger, counter, tasks, rows, toggles, history>>
  BY DEF MeterValues
<1>3. Queue(car, outbox) /\ Heard(car, outbox, heard) /\ Remembers(car, outbox, heard, ids, mem)
  BY DEF IInv, Ledger
<1>4. /\ Remembers(car, outbox, heard, ids, mem') /\ mem' \in State /\ mem'.status = mem.status
  <2>1. id = IF outbox[1].n = None THEN None ELSE ids[outbox[1].n]
    BY <1>1
  <2> HIDE DEF id
  <2> QED BY <1>1, <1>2, <1>3, <2>1, MeterRemembers
<1>5. Remembers(car, outbox, heard, ids, disk') /\ disk' \in State /\ disk'.meterStart = None
  <2>1. CASE disk' = disk
    BY <1>1, <2>1 DEF IInv, Ledger
  <2>2. CASE disk' = Snapshot(mem')
    BY <1>4, <2>2, SnapshotRemembers
  <2> QED BY <1>2, <2>1, <2>2
<1>6. Ledger(car, outbox, heard, rows, restopped, ids, mem', disk')
  BY <1>4, <1>5 DEF IInv, Ledger
<1>7. UNCHANGED <<car, ids, counter, tasks, rows, toggles, heard, restopped, orphan>> /\ Replied
      /\ counter \in Nat /\ tasks \in Nat /\ restopped \in BOOLEAN /\ orphan \in BOOLEAN
  BY <1>2 DEF charger, history, IInv, TypeOK
<1> HIDE DEF id
<1> QED BY <1>1, <1>4, <1>5, <1>6, <1>7, RepliedStep

LEMMA StartStep ==
  ASSUME IInv, StartTransaction \/ StartInterrupted
  PROVE  IInv'
<1> DEFINE g == [n |-> Msg.n, from |-> Msg.meter, to |-> None]
<1>1. /\ car \in Car /\ heard \in Hearing /\ outbox \in Seq(Message) /\ rows \in Seq(Row)
      /\ mem \in State /\ disk \in State /\ ids \in [Tx -> OrNone(Nat)] /\ counter \in Nat
      /\ up /\ outbox # << >> /\ Msg.type = "start" /\ Msg = outbox[1]
  <2>1. Head(outbox) = outbox[1]
    BY Types, TailThins DEF IInv, StartTransaction, StartInterrupted, Receives
  <2> QED BY <2>1, Types DEF IInv, TypeOK, StartTransaction, StartInterrupted, Receives, Msg
<1>2. /\ Queue(car, outbox) /\ Heard(car, outbox, heard) /\ Recorded(car, outbox, rows, restopped)
  BY DEF IInv, Ledger
<1>3. Msg.n \in Tx /\ Msg.meter \in Reading
  BY <1>1, <1>2, HeadFacts DEF Metered
<1>4. g \in Hearing /\ g.n = Msg.n /\ g.to = None
  <2>1. Msg.n \in 0 .. MaxTx
    BY <1>3, BoundsAssumption DEF Tx
  <2> QED BY <1>3, <2>1 DEF Hearing, OrNone
<1>5. Heard(car, outbox, g)
  BY <1>1, <1>2, StartHeard
<1>6. ASSUME NEW i \in [Tx -> OrNone(Nat)]
      PROVE  /\ Remembers(car, outbox, g, i, StartPersisted)
             /\ Remembers(car, outbox, g, i, Snapshot(StartPersisted))
             /\ StartPersisted \in State /\ Snapshot(StartPersisted) \in State
             /\ Snapshot(StartPersisted).meterStart = None
             /\ StartPersisted.txId = counter /\ Snapshot(StartPersisted).txId = counter
             /\ StartPersisted.status = mem.status
  <2>1. StartPersisted = OnStart(mem, counter, outbox[1].meter)
    BY <1>1 DEF StartPersisted
  <2>2. Remembers(car, outbox, g, i, StartPersisted) /\ StartPersisted \in State /\ StartPersisted.txId = counter
    BY <1>1, <1>2, <2>1, StartRemembers
  <2>3. StartPersisted.status = mem.status /\ Snapshot(StartPersisted).txId = StartPersisted.txId
    BY <1>1, <2>1, <2>2 DEF OnStart, Snapshot, State
  <2> QED BY <2>2, <2>3, SnapshotRemembers
<1>7. CASE StartInterrupted
  <2>1. Restart(Snapshot(StartPersisted)) /\ heard' = g /\ UNCHANGED <<charger, outbox, rows, toggles, restopped>>
    BY <1>7 DEF StartInterrupted
  <2> HIDE DEF g
  <2> QED BY <1>1, <1>4, <1>5, <1>6, <2>1, RestartStep
<1>8. CASE StartTransaction
  <2>1. /\ mem' = StartPersisted /\ disk' = Snapshot(StartPersisted) /\ counter' = counter + 1
        /\ rows' = Append(rows, g) /\ heard' = g /\ orphan' = FALSE /\ Replied
        /\ ids' = (IF Answered THEN [ids EXCEPT ![Msg.n] = counter] ELSE ids)
        /\ UNCHANGED <<car, tasks, toggles, restopped>>
    BY <1>8 DEF StartTransaction, Inserted
  <2>2. rows' \in Seq(Row) /\ Recorded(car, outbox, rows', restopped) /\ \E i \in DOMAIN rows' : rows'[i].n = Msg.n
    BY <1>1, <1>2, <2>1, StartRecorded
  <2> HIDE DEF g
  <2>3. Ledger(car, outbox, heard', rows', restopped', ids, mem', disk')
    BY <1>1, <1>2, <1>5, <1>6, <2>1, <2>2 DEF Ledger
  <2>4. ids' \in [Tx -> OrNone(Nat)] /\ (Answered => ids'[Msg.n] = counter) /\ (~Answered => ids' = ids)
    BY <1>1, <1>3, <2>1 DEF OrNone
  <2>5. counter' \in Nat /\ tasks' \in Nat /\ orphan' \in BOOLEAN /\ restopped' \in BOOLEAN
    <3>1. tasks \in Nat /\ restopped \in BOOLEAN
      BY DEF IInv, TypeOK
    <3>2. counter + 1 \in Nat
      BY <1>1
    <3>3. counter' = counter + 1 /\ tasks' = tasks /\ restopped' = restopped /\ orphan' = FALSE
      BY <2>1
    <3> QED BY <3>1, <3>2, <3>3
  <2> QED BY <1>1, <1>4, <1>6, <2>1, <2>2, <2>3, <2>4, <2>5, RepliedStep
<1> QED BY <1>7, <1>8

LEMMA StopStep ==
  ASSUME IInv, StopTransaction \/ StopInterrupted
  PROVE  IInv'
<1> DEFINE g == [heard EXCEPT !.to = Msg.meter]
<1>1. /\ car \in Car /\ heard \in Hearing /\ outbox \in Seq(Message) /\ rows \in Seq(Row)
      /\ mem \in State /\ disk \in State /\ ids \in [Tx -> OrNone(Nat)]
      /\ up /\ outbox # << >> /\ Msg.type = "stop" /\ Msg = outbox[1]
  <2>1. Head(outbox) = outbox[1]
    BY Types, TailThins DEF IInv, StopTransaction, StopInterrupted, Receives
  <2> QED BY <2>1, Types DEF IInv, TypeOK, StopTransaction, StopInterrupted, Receives, Msg
<1>2. /\ Queue(car, outbox) /\ Heard(car, outbox, heard) /\ Recorded(car, outbox, rows, restopped)
      /\ Remembers(car, outbox, heard, ids, mem)
  BY DEF IInv, Ledger
<1>3. Msg.n \in Tx /\ Msg.meter \in Reading /\ Msg.n = heard.n /\ Msg.meter # None
  BY <1>1, <1>2, HeadFacts, BoundsAssumption DEF Metered, Reading
<1>4. g \in Hearing /\ g.n = Msg.n /\ g.to # None
  BY <1>1, <1>3 DEF Hearing, OrNone
<1>5. Heard(car, outbox, g)
  BY <1>1, <1>2, StopHeard
<1>6. /\ Remembers(car, outbox, g, ids, StopPersisted)
      /\ Remembers(car, outbox, g, ids, Snapshot(StopPersisted))
      /\ StopPersisted \in State /\ Snapshot(StopPersisted) \in State
      /\ Snapshot(StopPersisted).meterStart = None
      /\ StopPersisted.status = mem.status
  <2>1. StopPersisted = OnStop(mem, ids[outbox[1].n], outbox[1].meter) /\ ids[outbox[1].n] \in OrNone(Nat)
    BY <1>1, <1>3 DEF StopPersisted
  <2>2. Remembers(car, outbox, g, ids, StopPersisted) /\ StopPersisted \in State
    BY <1>1, <1>2, <2>1, StopRemembers
  <2>3. StopPersisted.status = mem.status
    BY <1>1, <2>1 DEF OnStop, State
  <2> QED BY <2>2, <2>3, SnapshotRemembers
<1>7. CASE StopInterrupted
  <2>1. Restart(Snapshot(StopPersisted)) /\ heard' = g /\ UNCHANGED <<charger, outbox, rows, toggles, restopped>>
    BY <1>7 DEF StopInterrupted
  <2> HIDE DEF g
  <2> QED BY <1>1, <1>4, <1>5, <1>6, <2>1, RestartStep
<1>8. CASE StopTransaction
  <2>1. /\ mem' = StopPersisted /\ disk' = Snapshot(StopPersisted) /\ CloseRow(Msg.meter)
        /\ heard' = g /\ orphan' = FALSE /\ Replied
        /\ restopped' = (restopped \/ \E i \in DOMAIN rows : rows[i].n = Msg.n /\ rows[i].to # None)
        /\ UNCHANGED <<car, ids, counter, tasks, toggles>>
    BY <1>8 DEF StopTransaction, charger
  <2>2. /\ rows' \in Seq(Row) /\ Recorded(car, outbox, rows', restopped')
        /\ \E i \in DOMAIN rows' : rows'[i].n = Msg.n /\ rows'[i].to # None
    BY <1>1, <1>2, <2>1, StopRecorded
  <2> HIDE DEF g
  <2>3. Ledger(car, outbox, heard', rows', restopped', ids, mem', disk')
    BY <1>2, <1>5, <1>6, <2>1, <2>2 DEF Ledger
  <2>4. restopped' \in BOOLEAN
    <3>1. (restopped \/ \E i \in DOMAIN rows : rows[i].n = Msg.n /\ rows[i].to # None) \in BOOLEAN
      BY Zenon
    <3> QED BY <2>1, <3>1
  <2>5. ids' \in [Tx -> OrNone(Nat)] /\ counter' \in Nat /\ tasks' \in Nat /\ orphan' \in BOOLEAN
    <3>1. tasks \in Nat /\ counter \in Nat
      BY DEF IInv, TypeOK
    <3> QED BY <1>1, <2>1, <3>1
  <2> QED BY <1>1, <1>4, <1>6, <2>1, <2>2, <2>3, <2>4, <2>5, RepliedStep
<1> QED BY <1>7, <1>8

-----------------------------------------------------------------------------
(* The invariant *)

LEMMA Initially ==
  ASSUME Init
  PROVE  IInv
<1>1. /\ {MaxTx, MaxMeter} \subseteq Nat /\ None \notin Nat /\ None \notin BOOLEAN
      /\ 0 \in 0 .. MaxTx /\ 0 \in Reading /\ 1 .. 0 = {}
  BY BoundsAssumption DEF Reading
<1>2. TypeOK
  <2>1. New \in State
    BY DEF New, State, OrNone
  <2>2. << >> \in Seq(Message) /\ << >> \in Seq(Row)
    OBVIOUS
  <2>3. car \in [plugged : BOOLEAN, status : Status, n : 0 .. MaxTx, charging : BOOLEAN, meter : Reading]
    BY <1>1 DEF Init, Status
  <2>4. heard \in [n : 0 .. MaxTx, from : Reading, to : OrNone(Reading)]
    BY <1>1 DEF Init, OrNone
  <2>5. ids \in [Tx -> OrNone(Nat)]
    BY DEF Init, OrNone
  <2> QED BY <2>1, <2>2, <2>3, <2>4, <2>5 DEF Init, TypeOK
<1>3. /\ car.n = 0 /\ ~car.charging /\ car.status = "Available" /\ ~car.plugged /\ car.meter = 0
      /\ outbox = << >> /\ DOMAIN outbox = {} /\ DOMAIN rows = {}
      /\ heard.n = 0 /\ heard.from = 0 /\ heard.to = 0 /\ ~up
      /\ disk = mem /\ mem.txId = None /\ mem.meterStart = None /\ mem.session = None
  BY DEF Init, New
<1>4. CarInv /\ LastStatus(car, outbox) /\ StatusShown
  BY <1>3 DEF CarInv, LastStatus, StatusShown
<1>5. Queue(car, outbox)
  BY <1>2, <1>3 DEF Queue, TypeOK, WellNumbered, Ordered, Complete, Still
<1>6. Heard(car, outbox, heard)
  BY <1>1, <1>3 DEF Heard, Passed
<1>7. Recorded(car, outbox, rows, restopped)
  BY <1>1, <1>3 DEF Recorded
<1>8. Remembers(car, outbox, heard, ids, mem) /\ Remembers(car, outbox, heard, ids, disk)
  BY <1>1, <1>3 DEF Remembers
<1> QED BY <1>2, <1>3, <1>4, <1>5, <1>6, <1>7, <1>8 DEF IInv, Ledger

LEMMA Inductive ==
  ASSUME IInv, [Next]_vars
  PROVE  IInv'
<1>1. car \in Car /\ {"Preparing", "Available", "SuspendedEV", "Charging"} \subseteq Status
  BY Types DEF IInv, Status
<1>2. CASE PlugIn
  BY <1>1, <1>2, CarStatusStep DEF PlugIn, IInv, CarInv
<1>3. CASE Unplug
  BY <1>1, <1>3, CarStatusStep DEF Unplug
<1>4. CASE Suspend
  BY <1>1, <1>4, CarStatusStep DEF Suspend
<1>5. CASE Resume
  BY <1>1, <1>5, CarStatusStep DEF Resume
<1>6. CASE BeginCharging
  BY <1>6, BeginStep
<1>7. CASE EndCharging
  BY <1>7, EndStep
<1>8. CASE Consume \/ IdleReading
  BY <1>8, ReadingStep
<1>9. CASE ConnectionOpened
  BY <1>9, OpenedStep
<1>10. CASE ConnectionClosed \/ Heartbeat \/ Crash \/ PlugAndGoEnds \/ \E enabled \in BOOLEAN : SetPlugAndGo(enabled)
  BY <1>10, QuietSteps
<1>11. CASE RecordStatus
  BY <1>11, RecordStatusStep
<1>12. CASE StartTransaction \/ StartInterrupted
  BY <1>12, StartStep
<1>13. CASE StopTransaction \/ StopInterrupted
  BY <1>13, StopStep
<1>14. CASE MeterValues
  BY <1>14, MeterStep
<1>15. CASE UNCHANGED vars
  BY <1>15 DEF IInv, TypeOK, CarInv, StatusShown, vars
<1> QED BY <1>2, <1>3, <1>4, <1>5, <1>6, <1>7, <1>8, <1>9, <1>10, <1>11, <1>12, <1>13, <1>14, <1>15
        DEF Next

\* For any number of transactions, faults and messages held: what a restart and
\* a resent message leave of memory, snapshot, rows and queue fits together.
THEOREM Invariance == Spec => []IInv
  BY Initially, Inductive, PTL DEF Spec

\* The state keeps its shape.
THEOREM TypeCorrect == Spec => []TypeOK
<1>1. IInv => TypeOK
  BY DEF IInv
<1> QED BY <1>1, Invariance, PTL

\* Once the charger's messages are answered the server knows whether a
\* transaction is open, would name the right one in a remote stop, and the
\* portal's button stops exactly what runs.
THEOREM OpenIsRight == Spec => []OpenAgrees
<1>1. ASSUME IInv, Quiet, car.n > 0
      PROVE  /\ Open <=> car.charging
             /\ car.charging => mem.txId = ids[car.n]
             /\ Toggle = "stop" <=> car.charging
  <2>1. /\ car \in Car /\ heard \in Hearing /\ outbox = << >> /\ DOMAIN outbox = {} /\ up
        /\ heard.n \in Nat /\ car.n \in Nat
    BY <1>1, Types, BoundsAssumption DEF IInv, Quiet, Car, Hearing
  <2>2. heard.n = car.n
    BY <1>1, <2>1 DEF IInv, Ledger, Heard, Has
  <2>3. heard.to = None <=> car.charging
    BY <1>1, <2>1, <2>2 DEF IInv, Ledger, Heard, Has
  <2>4. Open <=> car.charging
    BY <1>1, <2>1, <2>3 DEF IInv, Ledger, Remembers, Has, Open
  <2>5. car.charging => mem.txId = ids[car.n]
    BY <1>1, <2>1, <2>2, <2>3 DEF IInv, Ledger, Remembers, Has
  <2>6. mem.status = car.status
    BY <1>1, <2>1 DEF IInv, StatusShown
  <2>7. Toggle = "stop" <=> car.charging
    BY <1>1, <2>4, <2>6 DEF IInv, CarInv, Toggle
  <2> QED BY <2>4, <2>5, <2>7
<1>2. IInv => OpenAgrees
  BY <1>1 DEF OpenAgrees
<1> QED BY <1>2, Invariance, PTL

\* No answered stop is missing from the charging sessions: every transaction
\* over has a closed row, with its energy.
THEOREM StopsAreRecorded == Spec => []EveryStopRecorded
<1>1. IInv => EveryStopRecorded
  <2> SUFFICES ASSUME IInv, Quiet PROVE EveryStopRecorded
    BY DEF EveryStopRecorded
  <2>1. DOMAIN outbox = {}
    BY DEF Quiet
  <2> QED BY <2>1 DEF IInv, Ledger, Recorded, Has, EveryStopRecorded
<1> QED BY <1>1, Invariance, PTL

\* The closed rows of different transactions are disjoint, and of one transaction
\* at most one is closed, until a stop is handled twice.
THEOREM EnergyIsCountedOnce == Spec => []EnergyCountedOnce
<1>1. ASSUME IInv, ~restopped, NEW i \in DOMAIN rows, NEW j \in DOMAIN rows,
             i # j, rows[i].to # None, rows[j].to # None
      PROVE  rows[i].n # rows[j].n /\ (rows[i].n < rows[j].n => rows[i].to <= rows[j].from)
  BY <1>1 DEF IInv, Ledger, Recorded
<1>2. IInv => EnergyCountedOnce
  BY <1>1 DEF EnergyCountedOnce
<1> QED BY <1>2, Invariance, PTL

\* The session energy shown is never more than the transaction has consumed,
\* however often the server forgot its first reading.
THEOREM SessionIsNotOverstated == Spec => []SessionNeverOverstated
<1>1. ASSUME IInv, mem.session # None
      PROVE  /\ mem.session >= 0
             /\ mem.session <= (IF heard.to = None THEN car.meter ELSE heard.to) - heard.from
  <2>1. /\ mem.session \in Int /\ heard.from \in Nat /\ car.meter \in Nat
        /\ (heard.to # None => heard.to \in Nat)
    BY <1>1, Types, StateTypes, HearingTypes, CarTypes DEF IInv
  <2>2. /\ 0 <= mem.session /\ heard.from + mem.session <= car.meter
        /\ (heard.to # None => heard.from + mem.session <= heard.to)
    BY <1>1 DEF IInv, Ledger, Remembers, Passed
  <2>3. CASE heard.to = None
    BY <2>1, <2>2, <2>3
  <2>4. CASE heard.to # None
    BY <2>1, <2>2, <2>4
  <2> QED BY <2>3, <2>4
<1>2. IInv => SessionNeverOverstated
  BY <1>1 DEF SessionNeverOverstated
<1> QED BY <1>2, Invariance, PTL
=============================================================================
