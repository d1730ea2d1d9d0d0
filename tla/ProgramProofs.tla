---------------------------- MODULE ProgramProofs ----------------------------
(***************************************************************************)
(* Proofs about the programs that use the queue classes: the concurrent    *)
(* test (Correctness) for any numbers of threads and items, and the sweep  *)
(* (Sweep) with the benchmark processes it starts (Benchmark) for any      *)
(* queues, thread counts, trials and operations.                           *)
(*                                                                         *)
(* The invariant of the test (TestInv) follows the items and the markers:  *)
(* each item that has been enqueued is in the queue or has been received   *)
(* by one consumer, those of a producer in their order (Delivery), and the *)
(* markers stand behind all items (Termination), so that a consumer that   *)
(* ends leaves none behind.                                                *)
(*                                                                         *)
(* The invariant of the sweep (SweepInv) has a part for the process that   *)
(* runs (BenchInv: the queue holds as many items as workers owe it a       *)
(* dequeue, and each item is in it, held, or measured) and one for the     *)
(* files (FilesInv: the cells of a queue are filled in order, and what the *)
(* script has passed is marked or has its file).                           *)
(***************************************************************************)
EXTENDS Correctness, Sweep, FiniteSetTheorems, FunctionTheorems, TLAPS

----------------------------------------------------------------------------
(* Sections of a range, and sequences *)

LEMMA Divide ==
  ASSUME NEW e \in Nat \ {0}, NEW p \in Nat, NEW k \in 0..(e - 1)
  PROVE  (p * e + k) \div e = p
BY SMT

LEMMA InSection ==
  ASSUME NEW e \in Nat \ {0}, NEW m \in Nat \ {0}, NEW p \in 0..(m - 1), NEW k \in 0..(e - 1)
  PROVE  p * e + k \in 0..(m * e - 1)
BY SMT

LEMMA Section ==
  ASSUME NEW e \in Nat \ {0}, NEW m \in Nat \ {0}, NEW x \in 0..(m * e - 1)
  PROVE  \E p \in 0..(m - 1), k \in 0..(e - 1) : x = p * e + k
<1>1. x = ((x \div e) * e) + (x % e) /\ x % e \in 0..(e - 1)
  BY SMT
<1>2. x \div e \in 0..(m - 1)
  BY SMT
<1> QED
  BY <1>1, <1>2

LEMMA AppendShape ==
  ASSUME NEW S, NEW s \in Seq(S), NEW x \in S
  PROVE  /\ Append(s, x) \in Seq(S) /\ Len(s) \in Nat /\ Len(Append(s, x)) = Len(s) + 1
         /\ Append(s, x)[Len(s) + 1] = x
         /\ \A j \in 1..Len(s) : Append(s, x)[j] = s[j]
OBVIOUS

LEMMA TailShape ==
  ASSUME NEW S, NEW s \in Seq(S), s # <<>>
  PROVE  /\ Tail(s) \in Seq(S) /\ Len(s) \in Nat \ {0} /\ Len(Tail(s)) = Len(s) - 1
         /\ Head(s) = s[1] /\ s[1] \in S
         /\ \A j \in 1..(Len(s) - 1) : Tail(s)[j] = s[j + 1]
OBVIOUS

----------------------------------------------------------------------------
(* Each item in one place, and in order *)

\* Item x is in the sequence s.  The items of each producer stand in s in
\* their order; those in s come before those in u; s has only items that
\* producers have enqueued, m[p] of producer p; s and u have no item in common.
In(s, x) == \E j \in 1..Len(s) : s[j] = x
Before(x, y) == x # End /\ y # End /\ ProducerId(x) = ProducerId(y) => x < y
Sorted(s) == \A j, k \in 1..Len(s) : j < k => Before(s[j], s[k])
Ahead(s, u) == \A j \in 1..Len(s), k \in 1..Len(u) : Before(s[j], u[k])
Issued(s, m) ==
  \A j \in 1..Len(s) : s[j] # End =>
    \A p \in Producers : ProducerId(s[j]) = p[2] => s[j] < start(p) + m[p]
Apart(s, u) == \A j \in 1..Len(s), k \in 1..Len(u) : s[j] # u[k]

\* The queue s and what each consumer has got, g[c], when m[p] items of each
\* producer have been enqueued: each of them is in one place, and in order.
Delivery(g, s, m) ==
  /\ Sorted(s) /\ Issued(s, m)
  /\ \A c \in Consumers : Sorted(g[c]) /\ Issued(g[c], m) /\ Ahead(g[c], s)
  /\ \A c, d \in Consumers : c # d => Apart(g[c], g[d])
  /\ \A p \in Producers : \A k \in 0..(m[p] - 1) :
       In(s, start(p) + k) \/ \E c \in Consumers : In(g[c], start(p) + k)

Entries == Items \union {End}

LEMMA ItemsNat ==
  /\ Items \subseteq Nat /\ End \notin Nat /\ End \notin Items
  /\ \A p \in Producers : p[2] \in 0..(NProducers - 1) /\ start(p) \in Nat /\ p = <<"producer", p[2]>>
BY CountsAssumption, MarkersAssumption DEF Items, Producers, start

LEMMA OwnItem ==
  ASSUME NEW p \in Producers, NEW k \in 0..(ItemsPerProducer - 1)
  PROVE  /\ start(p) + k \in Items /\ ProducerId(start(p) + k) = p[2]
         /\ start(p) + k # End
<1>1. p[2] \in 0..(NProducers - 1) /\ p[2] \in Nat
  BY CountsAssumption, ItemsNat
<1>2. start(p) + k \in Items
  BY <1>1, CountsAssumption, InSection DEF Items, start
<1>3. ProducerId(start(p) + k) = p[2]
  BY <1>1, CountsAssumption, Divide DEF ProducerId, start
<1> QED
  BY <1>2, <1>3, ItemsNat

LEMMA ItemOwner ==
  ASSUME NEW x \in Items
  PROVE  \E p \in Producers : \E k \in 0..(ItemsPerProducer - 1) : x = start(p) + k
<1>1. PICK a \in 0..(NProducers - 1), k \in 0..(ItemsPerProducer - 1) : x = a * ItemsPerProducer + k
  BY CountsAssumption, Section DEF Items
<1>2. <<"producer", a>> \in Producers /\ start(<<"producer", a>>) = a * ItemsPerProducer
  BY DEF Producers, start
<1> QED
  BY <1>1, <1>2

\* What a sequence keeps when an entry is appended.
LEMMA AppendOrder ==
  ASSUME NEW s \in Seq(Entries), NEW x \in Entries
  PROVE  /\ Sorted(s) /\ (\A j \in 1..Len(s) : Before(s[j], x)) => Sorted(Append(s, x))
         /\ \A u : Ahead(u, s) /\ (\A j \in 1..Len(u) : Before(u[j], x)) => Ahead(u, Append(s, x))
         /\ \A u : Ahead(s, u) /\ (\A j \in 1..Len(u) : Before(x, u[j])) => Ahead(Append(s, x), u)
         /\ \A m : Issued(s, m) /\ (x # End => \A p \in Producers : ProducerId(x) = p[2] => x < start(p) + m[p])
                     => Issued(Append(s, x), m)
<1> DEFINE w == Append(s, x)
<1>1. /\ Len(s) \in Nat /\ Len(w) = Len(s) + 1 /\ w[Len(s) + 1] = x
      /\ \A j \in 1..Len(s) : w[j] = s[j]
  BY AppendShape
<1> HIDE DEF w
<1>2. \A j \in 1..Len(w) : j \in 1..Len(s) \/ (j = Len(s) + 1 /\ w[j] = x)
  BY <1>1
<1>3. \A j, k \in 1..Len(w) : j < k => j \in 1..Len(s)
  BY <1>1
<1>4. Sorted(s) /\ (\A j \in 1..Len(s) : Before(s[j], x)) => Sorted(w)
  BY <1>1, <1>2, <1>3 DEF Sorted
<1>5. \A u : Ahead(u, s) /\ (\A j \in 1..Len(u) : Before(u[j], x)) => Ahead(u, w)
  BY <1>1, <1>2 DEF Ahead
<1>6. \A u : Ahead(s, u) /\ (\A j \in 1..Len(u) : Before(x, u[j])) => Ahead(w, u)
  BY <1>1, <1>2 DEF Ahead
<1>7. \A m : Issued(s, m) /\ (x # End => \A p \in Producers : ProducerId(x) = p[2] => x < start(p) + m[p])
               => Issued(w, m)
  BY <1>1, <1>2 DEF Issued
<1> QED
  BY <1>4, <1>5, <1>6, <1>7 DEF w

\* What a sequence keeps when its first entry is removed.
LEMMA TailOrder ==
  ASSUME NEW s \in Seq(Entries), s # <<>>
  PROVE  /\ Sorted(s) => Sorted(Tail(s)) /\ \A j \in 1..Len(Tail(s)) : Before(s[1], Tail(s)[j])
         /\ \A u : Ahead(u, s) => Ahead(u, Tail(s)) /\ \A j \in 1..Len(u) : Before(u[j], s[1])
         /\ \A m : Issued(s, m) => Issued(Tail(s), m)
         /\ \A y : In(s, y) => y = s[1] \/ In(Tail(s), y)
<1> DEFINE w == Tail(s)
<1>1. /\ Len(s) \in Nat \ {0} /\ Len(w) = Len(s) - 1
      /\ \A j \in 1..(Len(s) - 1) : w[j] = s[j + 1]
  BY TailShape
<1> HIDE DEF w
<1>2. /\ 1 \in 1..Len(s)
      /\ \A j \in 1..Len(w) : j + 1 \in 1..Len(s) /\ w[j] = s[j + 1] /\ 1 < j + 1
      /\ \A j, k \in 1..Len(w) : j < k => j + 1 < k + 1
      /\ \A j \in 1..Len(s) : j # 1 => j - 1 \in 1..Len(w) /\ w[j - 1] = s[j]
  BY <1>1
<1>3. Sorted(s) => Sorted(w) /\ \A j \in 1..Len(w) : Before(s[1], w[j])
  BY <1>2 DEF Sorted
<1>4. \A u : Ahead(u, s) => Ahead(u, w) /\ \A j \in 1..Len(u) : Before(u[j], s[1])
  BY <1>2 DEF Ahead
<1>5. \A m : Issued(s, m) => Issued(w, m)
  BY <1>2 DEF Issued
<1>6. \A y : In(s, y) => y = s[1] \/ In(w, y)
  BY <1>2 DEF In
<1> QED
  BY <1>3, <1>4, <1>5, <1>6 DEF w

\* An enqueue of producer p takes effect.
LEMMA PutItem ==
  ASSUME NEW g \in [Consumers -> Seq(Items)], NEW s \in Seq(Entries),
         NEW m \in [Producers -> Nat], Delivery(g, s, m),
         NEW p \in Producers, m[p] < ItemsPerProducer
  PROVE  Delivery(g, Append(s, start(p) + m[p]), [m EXCEPT ![p] = @ + 1])
<1> DEFINE x == start(p) + m[p]
           u == Append(s, x)
           l == [m EXCEPT ![p] = @ + 1]
<1>1. x \in Items /\ ProducerId(x) = p[2] /\ x # End /\ x \in Entries
  BY CountsAssumption, OwnItem DEF Entries
<1>2. /\ u \in Seq(Entries) /\ Len(s) \in Nat /\ Len(u) = Len(s) + 1 /\ u[Len(s) + 1] = x
      /\ \A j \in 1..Len(s) : u[j] = s[j]
  BY <1>1, AppendShape
<1>3. /\ l \in [Producers -> Nat] /\ l[p] = m[p] + 1 /\ \A r \in Producers : r # p => l[r] = m[r]
      /\ \A r \in Producers : m[r] <= l[r]
  OBVIOUS
<1>4. x \in Nat /\ x < start(p) + l[p] /\ \A r \in Producers : start(r) \in Nat
  BY <1>1, <1>3, ItemsNat
<1>5. \A r \in Producers : r[2] = p[2] => r = p
  BY ItemsNat
<1>6. x \in Entries /\ u = Append(s, x)
  BY <1>1
<1> HIDE DEF x, u, l
<1>7. ASSUME NEW w \in Seq(Entries), Issued(w, m)
      PROVE  Issued(w, l) /\ \A j \in 1..Len(w) : Before(w[j], x)
  <2>1. \A j \in 1..Len(w) : w[j] # End => w[j] \in Nat
    <3>1. \A j \in 1..Len(w) : w[j] \in Entries
      OBVIOUS
    <3> QED
      BY <3>1, ItemsNat DEF Entries
  <2>2. \A y \in Nat, r \in Producers : y < start(r) + m[r] => y < start(r) + l[r]
    BY <1>3, <1>4
  <2>3. Issued(w, l)
    BY <1>7, <2>1, <2>2 DEF Issued
  <2>4. x = start(p) + m[p]
    BY DEF x
  <2>5. \A j \in 1..Len(w) : Before(w[j], x)
    BY <1>1, <1>7, <2>4 DEF Issued, Before
  <2> QED
    BY <2>3, <2>5
<1>8. Sorted(u)
  BY <1>7, <1>6, AppendOrder DEF Delivery
<1>9. Issued(u, l)
  <2>1. Issued(s, l)
    BY <1>7 DEF Delivery
  <2> QED
    BY <1>1, <1>4, <1>5, <1>6, <2>1, AppendOrder
<1>10. ASSUME NEW c \in Consumers
      PROVE  Sorted(g[c]) /\ Issued(g[c], l) /\ Ahead(g[c], u)
  <2>1. g[c] \in Seq(Entries)
    BY DEF Entries
  <2>2. Issued(g[c], l) /\ \A j \in 1..Len(g[c]) : Before(g[c][j], x)
    BY <1>7, <2>1 DEF Delivery
  <2>3. Ahead(g[c], u)
    BY <1>6, <2>2, AppendOrder DEF Delivery
  <2> QED
    BY <2>2, <2>3 DEF Delivery
<1>11. ASSUME NEW r \in Producers, NEW k \in 0..(l[r] - 1)
      PROVE  In(u, start(r) + k) \/ \E c \in Consumers : In(g[c], start(r) + k)
  <2>1. CASE r = p /\ k = m[p]
    <3>1. u[Len(s) + 1] = start(r) + k /\ Len(s) + 1 \in 1..Len(u)
      BY <1>2, <2>1 DEF x
    <3> QED
      BY <3>1 DEF In
  <2>2. CASE ~(r = p /\ k = m[p])
    <3>1. k \in 0..(m[r] - 1)
      BY <1>3, <2>2
    <3>2. In(s, start(r) + k) => In(u, start(r) + k)
      BY <1>2 DEF In
    <3> QED
      BY <3>1, <3>2 DEF Delivery
  <2> QED
    BY <2>1, <2>2
<1> QED
  BY <1>8, <1>9, <1>10, <1>11 DEF Delivery, x, u, l

\* An enqueue of a marker takes effect.
LEMMA PutMarker ==
  ASSUME NEW g \in [Consumers -> Seq(Items)], NEW s \in Seq(Entries),
         NEW m \in [Producers -> Nat], Delivery(g, s, m)
  PROVE  Delivery(g, Append(s, End), m)
<1> DEFINE u == Append(s, End)
<1>1. /\ u \in Seq(Entries) /\ Len(s) \in Nat /\ Len(u) = Len(s) + 1 /\ u[Len(s) + 1] = End
      /\ \A j \in 1..Len(s) : u[j] = s[j]
  BY AppendShape DEF Entries
<1> HIDE DEF u
<1>2. End \in Entries /\ (\A y : Before(y, End)) /\ u = Append(s, End)
  BY DEF Entries, Before, u
<1>3. Sorted(u) /\ Issued(u, m)
  BY <1>2, AppendOrder DEF Delivery
<1>4. \A c \in Consumers : Ahead(g[c], u)
  BY <1>2, AppendOrder DEF Delivery
<1>5. \A x : In(s, x) => In(u, x)
  BY <1>1 DEF In
<1> QED
  BY <1>3, <1>4, <1>5 DEF Delivery, u

\* A dequeue of consumer c takes effect and removes an item.
LEMMA TakeItem ==
  ASSUME NEW g \in [Consumers -> Seq(Items)], NEW s \in Seq(Entries),
         NEW m \in [Producers -> Nat], Delivery(g, s, m), s # <<>>, Head(s) # End,
         NEW c \in Consumers
  PROVE  Delivery([g EXCEPT ![c] = Append(@, Head(s))], Tail(s), m)
<1> DEFINE x == Head(s)
           u == Tail(s)
           h == [g EXCEPT ![c] = Append(@, Head(s))]
           w == Append(g[c], x)
<1>1. /\ u \in Seq(Entries) /\ Len(s) \in Nat \ {0} /\ Len(u) = Len(s) - 1
      /\ x = s[1] /\ x \in Items
      /\ \A j \in 1..(Len(s) - 1) : u[j] = s[j + 1]
  BY TailShape DEF Entries
<1>2. /\ h[c] = w /\ w \in Seq(Items) /\ Len(g[c]) \in Nat /\ Len(w) = Len(g[c]) + 1
      /\ w[Len(g[c]) + 1] = x /\ \A j \in 1..Len(g[c]) : w[j] = g[c][j]
      /\ \A d \in Consumers : d # c => h[d] = g[d]
  BY <1>1, AppendShape
<1>3. /\ u = Tail(s) /\ w = Append(g[c], x) /\ g[c] \in Seq(Entries) /\ x \in Entries
      /\ 1 \in 1..Len(s) /\ s[1] = x
  BY <1>1 DEF Entries
<1> HIDE DEF x, u, h, w
<1>4. Sorted(u) /\ Issued(u, m) /\ \A j \in 1..Len(u) : Before(x, u[j])
  BY <1>3, TailOrder DEF Delivery
<1>5. \A d \in Consumers : Ahead(g[d], u) /\ \A j \in 1..Len(g[d]) : Before(g[d][j], x)
  BY <1>3, TailOrder DEF Delivery
<1>6. Sorted(w) /\ Ahead(w, u)
  BY <1>3, <1>4, <1>5, AppendOrder DEF Delivery
<1>7. Issued(w, m)
  <2>1. x # End => \A p \in Producers : ProducerId(x) = p[2] => x < start(p) + m[p]
    BY <1>3 DEF Delivery, Issued
  <2> QED
    BY <1>3, <2>1, AppendOrder DEF Delivery
<1>8. ASSUME NEW d \in Consumers, d # c PROVE Apart(w, g[d]) /\ Apart(g[d], w)
  <2>1. \A j \in 1..Len(g[d]) : g[d][j] \in Items /\ Before(g[d][j], x)
    BY <1>5
  <2>2. \A j \in 1..Len(g[d]) : g[d][j] # x
    BY <1>1, <2>1, ItemsNat DEF Before
  <2>3. Apart(g[c], g[d]) /\ Apart(g[d], g[c])
    BY <1>8 DEF Delivery
  <2>4. \A j \in 1..Len(w) : j \in 1..Len(g[c]) \/ w[j] = x
    BY <1>2
  <2> QED
    BY <1>2, <2>2, <2>3, <2>4 DEF Apart
<1>9. ASSUME NEW y, In(s, y) PROVE In(u, y) \/ In(w, y)
  <2>1. Len(g[c]) + 1 \in 1..Len(w) /\ w[Len(g[c]) + 1] = x
    BY <1>2
  <2>2. In(w, x)
    BY <2>1 DEF In
  <2> QED
    BY <1>3, <1>9, <2>2, TailOrder
<1>10. \A y : In(g[c], y) => In(w, y)
  BY <1>2 DEF In
<1>11. ASSUME NEW p \in Producers, NEW k \in 0..(m[p] - 1)
       PROVE  In(u, start(p) + k) \/ \E d \in Consumers : In(h[d], start(p) + k)
  BY <1>2, <1>9, <1>10 DEF Delivery
<1>12. ASSUME NEW d \in Consumers
       PROVE  Sorted(h[d]) /\ Issued(h[d], m) /\ Ahead(h[d], u)
  BY <1>2, <1>5, <1>6, <1>7 DEF Delivery
<1>13. ASSUME NEW d \in Consumers, NEW e \in Consumers, d # e
       PROVE  Apart(h[d], h[e])
  BY <1>2, <1>8, <1>13 DEF Delivery
<1> QED
  BY <1>4, <1>11, <1>12, <1>13 DEF Delivery, x, u, h

\* A dequeue takes effect and removes a marker.
LEMMA TakeMarker ==
  ASSUME NEW g \in [Consumers -> Seq(Items)], NEW s \in Seq(Entries),
         NEW m \in [Producers -> Nat], Delivery(g, s, m), s # <<>>, Head(s) = End
  PROVE  Delivery(g, Tail(s), m)
<1> DEFINE u == Tail(s)
<1>1. /\ u \in Seq(Entries) /\ Len(s) \in Nat \ {0} /\ Len(u) = Len(s) - 1
      /\ Head(s) = s[1]
      /\ \A j \in 1..(Len(s) - 1) : u[j] = s[j + 1]
  BY TailShape
<1> HIDE DEF u
<1>2. s[1] = End /\ u = Tail(s)
  BY <1>1 DEF u
<1>3. Sorted(u) /\ Issued(u, m)
  BY <1>2, TailOrder DEF Delivery
<1>4. \A d \in Consumers : Ahead(g[d], u)
  BY <1>2, TailOrder DEF Delivery
<1>5. ASSUME NEW y, y # End, In(s, y) PROVE In(u, y)
  BY <1>2, <1>5, TailOrder
<1>6. \A p \in Producers : \A k \in 0..(m[p] - 1) : start(p) + k # End
  BY ItemsNat
<1> QED
  BY <1>3, <1>4, <1>5, <1>6 DEF Delivery, u

----------------------------------------------------------------------------
(* The markers *)

\* The queue s holds items and behind them markers; of k markers enqueued,
\* those not in s were received by the consumers e, and once one has been
\* received no item is in front of the others.
Termination(s, e, k) ==
  \E b \in 0..Len(s) :
    /\ \A j \in 1..Len(s) : s[j] = End <=> j > b
    /\ k = (Len(s) - b) + Cardinality(e)
    /\ e # {} => b = 0

LEMMA PutBeforeMarkers ==
  ASSUME NEW s \in Seq(Entries), NEW e, IsFiniteSet(e), Termination(s, e, 0),
         NEW x \in Entries, x # End
  PROVE  Termination(Append(s, x), e, 0)
<1>1. PICK b \in 0..Len(s) : /\ \A j \in 1..Len(s) : s[j] = End <=> j > b
                             /\ 0 = (Len(s) - b) + Cardinality(e)
                             /\ e # {} => b = 0
  BY DEF Termination
<1>2. Cardinality(e) \in Nat /\ (Cardinality(e) = 0 <=> e = {})
  BY FS_CardinalityType, FS_EmptySet
<1>3. Len(s) \in Nat /\ \A l, r \in Nat : \A a \in 0..l : 0 = (l - a) + r => a = l /\ r = 0
  OBVIOUS
<1>4. b = Len(s) /\ Cardinality(e) = 0 /\ e = {}
  BY <1>1, <1>2, <1>3
<1>5. /\ Len(Append(s, x)) = Len(s) + 1 /\ Append(s, x)[Len(s) + 1] = x
      /\ \A j \in 1..Len(s) : Append(s, x)[j] = s[j]
  BY AppendShape
<1>6. \A j \in 1..(Len(s) + 1) : Append(s, x)[j] = End <=> j > Len(s) + 1
  BY <1>1, <1>4, <1>5, <1>3
<1>7. Len(s) + 1 \in 0..(Len(s) + 1) /\ 0 = ((Len(s) + 1) - (Len(s) + 1)) + Cardinality(e)
  BY <1>4, <1>3
<1> QED
  BY <1>4, <1>5, <1>6, <1>7 DEF Termination

LEMMA PutNextMarker ==
  ASSUME NEW s \in Seq(Entries), NEW e, IsFiniteSet(e), NEW k \in Nat, Termination(s, e, k)
  PROVE  Termination(Append(s, End), e, k + 1)
<1>1. PICK b \in 0..Len(s) : /\ \A j \in 1..Len(s) : s[j] = End <=> j > b
                             /\ k = (Len(s) - b) + Cardinality(e)
                             /\ e # {} => b = 0
  BY DEF Termination
<1>2. Cardinality(e) \in Nat
  BY FS_CardinalityType
<1>3. /\ Len(Append(s, End)) = Len(s) + 1 /\ Append(s, End)[Len(s) + 1] = End
      /\ Len(s) \in Nat
      /\ \A j \in 1..Len(s) : Append(s, End)[j] = s[j]
  BY AppendShape DEF Entries
<1>4. \A j \in 1..(Len(s) + 1) : Append(s, End)[j] = End <=> j > b
  BY <1>1, <1>3
<1>5. b \in 0..(Len(s) + 1) /\ k + 1 = ((Len(s) + 1) - b) + Cardinality(e)
  BY <1>1, <1>2, <1>3
<1> QED
  BY <1>1, <1>3, <1>4, <1>5 DEF Termination

LEMMA TakeFromFront ==
  ASSUME NEW s \in Seq(Entries), s # <<>>, Head(s) # End,
         NEW e, IsFiniteSet(e), NEW k \in Nat, Termination(s, e, k)
  PROVE  Termination(Tail(s), e, k) /\ e = {}
<1>1. PICK b \in 0..Len(s) : /\ \A j \in 1..Len(s) : s[j] = End <=> j > b
                             /\ k = (Len(s) - b) + Cardinality(e)
                             /\ e # {} => b = 0
  BY DEF Termination
<1>2. Cardinality(e) \in Nat
  BY FS_CardinalityType
<1>3. /\ Len(s) \in Nat \ {0} /\ Len(Tail(s)) = Len(s) - 1 /\ Head(s) = s[1]
      /\ \A j \in 1..(Len(s) - 1) : Tail(s)[j] = s[j + 1]
  BY TailShape
<1>4. 1 \in 1..Len(s) /\ b >= 1 /\ e = {}
  BY <1>1, <1>3
<1>5. \A j \in 1..(Len(s) - 1) : Tail(s)[j] = End <=> j > b - 1
  BY <1>1, <1>3, <1>4
<1>6. b - 1 \in 0..(Len(s) - 1) /\ k = ((Len(s) - 1) - (b - 1)) + Cardinality(e)
  BY <1>1, <1>2, <1>3, <1>4
<1> QED
  BY <1>1, <1>3, <1>4, <1>5, <1>6 DEF Termination

LEMMA TakeFirstMarker ==
  ASSUME NEW s \in Seq(Entries), s # <<>>, Head(s) = End,
         NEW e, IsFiniteSet(e), NEW k \in Nat, Termination(s, e, k), NEW c, c \notin e
  PROVE  Termination(Tail(s), e \union {c}, k)
<1>1. PICK b \in 0..Len(s) : /\ \A j \in 1..Len(s) : s[j] = End <=> j > b
                             /\ k = (Len(s) - b) + Cardinality(e)
                             /\ e # {} => b = 0
  BY DEF Termination
<1>2. Cardinality(e) \in Nat /\ Cardinality(e \union {c}) = Cardinality(e) + 1
  BY FS_CardinalityType, FS_AddElement
<1>3. /\ Len(s) \in Nat \ {0} /\ Len(Tail(s)) = Len(s) - 1 /\ Head(s) = s[1]
      /\ \A j \in 1..(Len(s) - 1) : Tail(s)[j] = s[j + 1]
  BY TailShape
<1>4. 1 \in 1..Len(s) /\ b = 0
  BY <1>1, <1>3
<1>5. \A j \in 1..(Len(s) - 1) : j + 1 \in 1..Len(s) /\ j > 0 /\ j + 1 > 0
  BY <1>3
<1>6. \A j \in 1..(Len(s) - 1) : Tail(s)[j] = End
  BY <1>1, <1>3, <1>4, <1>5
<1>7. 0 \in 0..(Len(s) - 1) /\ k = ((Len(s) - 1) - 0) + Cardinality(e \union {c})
  BY <1>1, <1>2, <1>3, <1>4
<1> QED
  BY <1>3, <1>5, <1>6, <1>7 DEF Termination

----------------------------------------------------------------------------
(* The inductive invariant *)

\* How many calls of enqueue of t have taken effect; what consumer c has got;
\* the consumers for which a marker was removed.
Put(t) == pos[t] + (IF stage[t] = "enqDone" THEN 1 ELSE 0)
Got(c) ==
  IF stage[c] = "deqDone" /\ val[c] # End THEN Append(consumedItems[c], val[c])
  ELSE consumedItems[c]
Met == {c \in Consumers : c \in ended \/ (stage[c] = "deqDone" /\ val[c] = End)}

Produced == [p \in Producers |-> Put(p)]
Received == [c \in Consumers |-> Got(c)]

ProducerCalls ==
  \A p \in Producers :
    /\ stage[p] \in {"idle", "enq", "enqDone"} /\ pos[p] <= ItemsPerProducer
    /\ stage[p] # "idle" => pos[p] < ItemsPerProducer /\ val[p] = start(p) + pos[p]

ConsumerCalls ==
  \A c \in Consumers :
    /\ stage[c] \in {"idle", "deq", "deqDone", "deqEmpty"} /\ pos[c] = 0
    /\ c \in ended => stage[c] = "idle"
    /\ stage[c] = "deqDone" => val[c] \in Entries

MainCalls ==
  /\ stage[Main] \in {"idle", "enq", "enqDone"} /\ pos[Main] <= NConsumers
  /\ stage[Main] # "idle" => pos[Main] < NConsumers /\ val[Main] = End
  /\ stage[Main] # "idle" \/ pos[Main] > 0 => \A p \in Producers : pos[p] = ItemsPerProducer

TestInv ==
  /\ TypeOK /\ ProducerCalls /\ ConsumerCalls /\ MainCalls
  /\ Delivery(Received, queue, Produced)
  /\ Termination(queue, Met, Put(Main))
  /\ verified => pos[Main] = NConsumers /\ ended = Consumers

LEMMA ThreadKinds ==
  /\ Producers \subseteq Threads /\ Consumers \subseteq Threads /\ Main \in Threads
  /\ \A p \in Producers : p \notin Consumers /\ p # Main
  /\ \A c \in Consumers : c \notin Producers /\ c # Main
BY DEF Threads, Producers, Consumers, Main

LEMMA ConsumersFinite == IsFiniteSet(Consumers) /\ Cardinality(Consumers) = NConsumers
<1> DEFINE f == [k \in 0..(NConsumers - 1) |-> <<"consumer", k>>]
<1>1. f \in Bijection(0..(NConsumers - 1), Consumers)
  <2>1. f \in Surjection(0..(NConsumers - 1), Consumers)
    BY Fun_IsSurj DEF Consumers
  <2>2. f \in Injection(0..(NConsumers - 1), Consumers)
    BY Fun_IsInj DEF Consumers
  <2> QED
    BY <2>1, <2>2 DEF Bijection
<1>2. IsFiniteSet(0..(NConsumers - 1)) /\ Cardinality(0..(NConsumers - 1)) = NConsumers
  BY CountsAssumption, FS_Interval
<1> QED
  BY <1>1, <1>2, FS_Bijection DEF ExistsBijection

LEMMA TestTypes ==
  ASSUME TestInv
  PROVE  /\ queue \in Seq(Entries)
         /\ stage \in [Threads -> Queue!Stages] /\ val \in [Threads -> Entries \union {None}]
         /\ pos \in [Threads -> 0..(ItemsPerProducer + NConsumers)]
         /\ \A t \in Threads : pos[t] \in Nat /\ Put(t) \in Nat
         /\ ended \subseteq Consumers /\ consumedItems \in [Consumers -> Seq(Items)]
         /\ verified \in BOOLEAN
         /\ Received \in [Consumers -> Seq(Items)] /\ Produced \in [Producers -> Nat]
         /\ IsFiniteSet(Met)
<1>1. /\ queue \in Seq(Entries)
      /\ stage \in [Threads -> Queue!Stages] /\ val \in [Threads -> Entries \union {None}]
      /\ pos \in [Threads -> 0..(ItemsPerProducer + NConsumers)]
      /\ ended \subseteq Consumers /\ consumedItems \in [Consumers -> Seq(Items)]
      /\ verified \in BOOLEAN
  BY DEF TestInv, TypeOK, Queue!TypeOK, Entries
<1>2. \A t \in Threads : pos[t] \in Nat /\ Put(t) \in Nat
  BY <1>1 DEF Put
<1>3. Produced \in [Producers -> Nat]
  BY <1>2, ThreadKinds DEF Produced
<1>4. ASSUME NEW c \in Consumers PROVE Got(c) \in Seq(Items)
  <2>1. stage[c] = "deqDone" /\ val[c] # End => val[c] \in Items
    BY DEF TestInv, ConsumerCalls, Entries
  <2>2. consumedItems[c] \in Seq(Items)
    BY <1>1
  <2> QED
    BY <2>1, <2>2, AppendShape DEF Got
<1>5. Received \in [Consumers -> Seq(Items)]
  BY <1>4 DEF Received
<1>6. IsFiniteSet(Met)
  BY ConsumersFinite, FS_Subset DEF Met
<1> QED
  BY <1>1, <1>2, <1>3, <1>5, <1>6

\* Delivery and Termination after a step, from the new values of the state.
LEMMA DeliveryAfter ==
  ASSUME NEW g, NEW s, NEW m, Received' = g, queue' = s, Produced' = m, Delivery(g, s, m)
  PROVE  Delivery(Received, queue, Produced)'
BY DEF Delivery, Issued, Ahead, Sorted, Apart, In, Before

LEMMA TerminationAfter ==
  ASSUME NEW s, NEW e, NEW k, queue' = s, Met' = e, Put(Main)' = k, Termination(s, e, k)
  PROVE  Termination(queue, Met, Put(Main))'
BY DEF Termination

\* A step that moves no item and no marker.
LEMMA QuietStep ==
  ASSUME TestInv, TypeOK', ProducerCalls', ConsumerCalls', MainCalls',
         queue' = queue, \A t \in Threads : Put(t)' = Put(t),
         \A c \in Consumers : Got(c)' = Got(c), Met' = Met,
         verified' = verified, verified => pos'[Main] = pos[Main] /\ ended' = ended
  PROVE  TestInv'
<1>1. Produced' = Produced
  BY ThreadKinds DEF Produced
<1>2. Received' = Received
  BY DEF Received
<1>3. Put(Main)' = Put(Main)
  BY ThreadKinds
<1>4. Delivery(Received, queue, Produced)'
  BY <1>1, <1>2, DeliveryAfter DEF TestInv
<1>5. Termination(queue, Met, Put(Main))'
  BY <1>3 DEF TestInv, Termination
<1> QED
  BY <1>4, <1>5 DEF TestInv

----------------------------------------------------------------------------
(* The calls *)

\* A step of thread t changes the calls of t alone.
LEMMA OneCall ==
  ASSUME TestInv, NEW t \in Threads,
         stage' \in [Threads -> Queue!Stages], val' \in [Threads -> Entries \union {None}],
         pos' \in [Threads -> 0..(ItemsPerProducer + NConsumers)],
         queue' \in Seq(Entries), ended' \subseteq Consumers,
         consumedItems' \in [Consumers -> Seq(Items)], verified' \in BOOLEAN,
         \A r \in Threads : r # t => stage'[r] = stage[r] /\ val'[r] = val[r] /\ pos'[r] = pos[r],
         \A c \in Consumers : c # t => (c \in ended' <=> c \in ended),
         t \in Producers =>
           /\ stage'[t] \in {"idle", "enq", "enqDone"} /\ pos'[t] <= ItemsPerProducer
           /\ stage'[t] # "idle" => pos'[t] < ItemsPerProducer /\ val'[t] = start(t) + pos'[t],
         t \in Consumers =>
           /\ stage'[t] \in {"idle", "deq", "deqDone", "deqEmpty"} /\ pos'[t] = 0
           /\ t \in ended' => stage'[t] = "idle"
           /\ stage'[t] = "deqDone" => val'[t] \in Entries,
         t = Main =>
           /\ stage'[t] \in {"idle", "enq", "enqDone"} /\ pos'[t] <= NConsumers
           /\ stage'[t] # "idle" => pos'[t] < NConsumers /\ val'[t] = End,
         stage'[Main] # "idle" \/ pos'[Main] > 0 => \A p \in Producers : pos'[p] = ItemsPerProducer
  PROVE  TypeOK' /\ ProducerCalls' /\ ConsumerCalls' /\ MainCalls'
<1>1. TypeOK'
  BY DEF TypeOK, Queue!TypeOK, Entries
<1>2. ProducerCalls'
  BY ThreadKinds DEF TestInv, ProducerCalls
<1>3. ConsumerCalls'
  BY ThreadKinds DEF TestInv, ConsumerCalls
<1>4. MainCalls'
  BY ThreadKinds DEF TestInv, MainCalls
<1> QED
  BY <1>1, <1>2, <1>3, <1>4

\* What holds of the thread that is in a call.
LEMMA CallOwner ==
  ASSUME TestInv, NEW t \in Threads
  PROVE  /\ stage[t] \in {"enq", "enqDone"} => t \in Producers \/ t = Main
         /\ stage[t] \in {"deq", "deqDone", "deqEmpty"} => t \in Consumers /\ t \notin ended
BY DEF TestInv, ProducerCalls, ConsumerCalls, MainCalls, Threads

LEMMA ProduceKeeps ==
  ASSUME TestInv, NEW p \in Producers, Produce(p)
  PROVE  TestInv'
<1>1. /\ pos[p] < ItemsPerProducer /\ stage[p] = "idle" /\ p \in Threads /\ p \notin Consumers /\ p # Main
      /\ stage' = [stage EXCEPT ![p] = "enq"] /\ val' = [val EXCEPT ![p] = start(p) + pos[p]]
      /\ UNCHANGED <<queue, pos, ended, consumedItems, verified>>
  BY ThreadKinds DEF Produce, Queue!CallEnqueue, Queue!Pass
<1>2. start(p) + pos[p] \in Entries
  BY <1>1, TestTypes, CountsAssumption, OwnItem DEF Entries
<1>3. stage' \in [Threads -> Queue!Stages] /\ val' \in [Threads -> Entries \union {None}]
  BY <1>1, <1>2, TestTypes DEF Queue!Stages
<1>4. ~(stage[Main] # "idle" \/ pos[Main] > 0)
  BY <1>1, CountsAssumption DEF TestInv, MainCalls
<1>5. /\ stage'[p] = "enq" /\ val'[p] = start(p) + pos[p]
      /\ \A r \in Threads : r # p => stage'[r] = stage[r] /\ val'[r] = val[r]
  BY <1>1, TestTypes
<1>6. TypeOK' /\ ProducerCalls' /\ ConsumerCalls' /\ MainCalls'
  <2>1. /\ pos' \in [Threads -> 0..(ItemsPerProducer + NConsumers)] /\ queue' \in Seq(Entries)
        /\ ended' \subseteq Consumers /\ consumedItems' \in [Consumers -> Seq(Items)]
        /\ verified' \in BOOLEAN
    BY <1>1, TestTypes
  <2>2. /\ \A r \in Threads : r # p => stage'[r] = stage[r] /\ val'[r] = val[r] /\ pos'[r] = pos[r]
        /\ \A c \in Consumers : c # p => (c \in ended' <=> c \in ended)
    BY <1>1, <1>5
  <2>3. /\ stage'[p] \in {"idle", "enq", "enqDone"} /\ pos'[p] <= ItemsPerProducer
        /\ stage'[p] # "idle" => pos'[p] < ItemsPerProducer /\ val'[p] = start(p) + pos'[p]
    BY <1>1, <1>5 DEF TestInv, ProducerCalls
  <2>4. ~(stage'[Main] # "idle" \/ pos'[Main] > 0)
    BY <1>1, <1>4, <1>5, ThreadKinds
  <2> QED
    BY <1>1, <1>3, <2>1, <2>2, <2>3, <2>4, OneCall
<1>7. /\ \A t \in Threads : Put(t)' = Put(t)
      /\ \A c \in Consumers : Got(c)' = Got(c) /\ Met' = Met
  BY <1>1, <1>5, ThreadKinds DEF Put, Got, Met
<1>8. Met' = Met
  BY <1>1, <1>5, ThreadKinds DEF Met
<1> QED
  BY <1>1, <1>6, <1>7, <1>8, QuietStep

LEMMA SendEndKeeps ==
  ASSUME TestInv, SendEnd
  PROVE  TestInv'
<1>1. /\ pos[Main] < NConsumers /\ stage[Main] = "idle" /\ Main \in Threads
      /\ Main \notin Producers /\ Main \notin Consumers
      /\ \A p \in Producers : pos[p] = ItemsPerProducer
      /\ stage' = [stage EXCEPT ![Main] = "enq"] /\ val' = [val EXCEPT ![Main] = End]
      /\ UNCHANGED <<queue, pos, ended, consumedItems, verified>>
  BY ThreadKinds DEF SendEnd, Queue!CallEnqueue, Queue!Pass
<1>2. stage' \in [Threads -> Queue!Stages] /\ val' \in [Threads -> Entries \union {None}]
  BY <1>1, TestTypes DEF Queue!Stages, Entries
<1>3. /\ stage'[Main] = "enq" /\ val'[Main] = End
      /\ \A r \in Threads : r # Main => stage'[r] = stage[r] /\ val'[r] = val[r]
  BY <1>1, TestTypes
<1>4. TypeOK' /\ ProducerCalls' /\ ConsumerCalls' /\ MainCalls'
  <2>1. /\ pos' \in [Threads -> 0..(ItemsPerProducer + NConsumers)] /\ queue' \in Seq(Entries)
        /\ ended' \subseteq Consumers /\ consumedItems' \in [Consumers -> Seq(Items)]
        /\ verified' \in BOOLEAN
    BY <1>1, TestTypes
  <2>2. /\ \A r \in Threads : r # Main => stage'[r] = stage[r] /\ val'[r] = val[r] /\ pos'[r] = pos[r]
        /\ \A c \in Consumers : c # Main => (c \in ended' <=> c \in ended)
    BY <1>1, <1>3
  <2>3. /\ stage'[Main] \in {"idle", "enq", "enqDone"} /\ pos'[Main] <= NConsumers
        /\ stage'[Main] # "idle" => pos'[Main] < NConsumers /\ val'[Main] = End
    BY <1>1, <1>3 DEF TestInv, MainCalls
  <2>4. \A p \in Producers : pos'[p] = ItemsPerProducer
    BY <1>1
  <2> QED
    BY <1>1, <1>2, <2>1, <2>2, <2>3, <2>4, OneCall
<1>5. /\ \A t \in Threads : Put(t)' = Put(t)
      /\ \A c \in Consumers : Got(c)' = Got(c)
  BY <1>1, <1>3, ThreadKinds DEF Put, Got
<1>6. Met' = Met
  BY <1>1, <1>3, ThreadKinds DEF Met
<1> QED
  BY <1>1, <1>4, <1>5, <1>6, QuietStep

LEMMA EnqueuedKeeps ==
  ASSUME TestInv, NEW t \in Threads, Enqueued(t)
  PROVE  TestInv'
<1>1. /\ stage[t] = "enqDone" /\ (t \in Producers \/ t = Main) /\ t \notin Consumers
      /\ stage' = [stage EXCEPT ![t] = "idle"] /\ val' = [val EXCEPT ![t] = None]
      /\ pos' = [pos EXCEPT ![t] = @ + 1]
      /\ UNCHANGED <<queue, ended, consumedItems, verified>>
  BY CallOwner, ThreadKinds DEF Enqueued, Queue!ReturnEnqueue, Queue!Pass
<1>2. /\ t \in Producers => pos[t] < ItemsPerProducer
      /\ t = Main => pos[t] < NConsumers /\ \A p \in Producers : pos[p] = ItemsPerProducer
  BY <1>1 DEF TestInv, ProducerCalls, MainCalls
<1>3. /\ stage'[t] = "idle" /\ val'[t] = None /\ pos'[t] = pos[t] + 1
      /\ \A r \in Threads : r # t => stage'[r] = stage[r] /\ val'[r] = val[r] /\ pos'[r] = pos[r]
  BY <1>1, TestTypes
<1>4. stage' \in [Threads -> Queue!Stages] /\ val' \in [Threads -> Entries \union {None}]
  BY <1>1, TestTypes DEF Queue!Stages
<1>5. pos' \in [Threads -> 0..(ItemsPerProducer + NConsumers)]
  <2>1. pos[t] + 1 \in 0..(ItemsPerProducer + NConsumers)
    BY <1>1, <1>2, TestTypes, CountsAssumption
  <2> QED
    BY <1>1, <2>1, TestTypes
<1>6. t \in Producers => stage[Main] = "idle" /\ pos[Main] = 0 /\ t # Main
  BY <1>2, CountsAssumption, ThreadKinds, TestTypes DEF TestInv, MainCalls
<1>7. pos'[t] \in Nat /\ pos[t] \in Nat /\ pos'[t] = pos[t] + 1
  BY <1>3, TestTypes
<1>8. stage'[Main] # "idle" \/ pos'[Main] > 0 => \A p \in Producers : pos'[p] = ItemsPerProducer
  <2>1. CASE t \in Producers
    BY <1>3, <1>6, <2>1, ThreadKinds
  <2>2. CASE t = Main
    BY <1>2, <1>3, <2>2, ThreadKinds
  <2> QED
    BY <1>1, <2>1, <2>2
<1>9. TypeOK' /\ ProducerCalls' /\ ConsumerCalls' /\ MainCalls'
  <2>1. t \in Producers =>
          /\ stage'[t] \in {"idle", "enq", "enqDone"} /\ pos'[t] <= ItemsPerProducer
          /\ stage'[t] # "idle" => pos'[t] < ItemsPerProducer /\ val'[t] = start(t) + pos'[t]
    BY <1>2, <1>3, <1>7, CountsAssumption
  <2>2. t = Main =>
          /\ stage'[t] \in {"idle", "enq", "enqDone"} /\ pos'[t] <= NConsumers
          /\ stage'[t] # "idle" => pos'[t] < NConsumers /\ val'[t] = End
    BY <1>2, <1>3, <1>7, CountsAssumption
  <2> QED
    BY <1>1, <1>3, <1>4, <1>5, <1>8, <2>1, <2>2, TestTypes, OneCall
<1>10. \A r \in Threads : Put(r)' = Put(r)
  <2>1. Put(t)' = Put(t)
    BY <1>1, <1>3, <1>7 DEF Put
  <2>2. ASSUME NEW r \in Threads, r # t PROVE Put(r)' = Put(r)
    BY <1>3, <2>2 DEF Put
  <2> QED
    BY <2>1, <2>2
<1>11. \A c \in Consumers : Got(c)' = Got(c)
  BY <1>1, <1>3, ThreadKinds DEF Got
<1>12. Met' = Met
  BY <1>1, <1>3, ThreadKinds DEF Met
<1>13. verified => pos'[Main] = pos[Main] /\ ended' = ended
  <2>1. verified => pos[Main] = NConsumers /\ t # Main
    BY <1>2, CountsAssumption DEF TestInv
  <2> QED
    BY <1>1, <1>3, <2>1, ThreadKinds
<1> QED
  BY <1>1, <1>9, <1>10, <1>11, <1>12, <1>13, QuietStep

\* The steps of a dequeue that leave the queue alone.
LEMMA DequeueStepKeeps ==
  ASSUME TestInv, NEW c \in Consumers, c \notin ended, stage[c] # "deqDone",
         stage' = [stage EXCEPT ![c] = stage'[c]], stage'[c] \in {"idle", "deq", "deqEmpty"},
         UNCHANGED <<queue, val, pos, ended, consumedItems, verified>>
  PROVE  TestInv'
<1>1. c \in Threads /\ c \notin Producers /\ c # Main
  BY ThreadKinds
<1>2. /\ stage' \in [Threads -> Queue!Stages]
      /\ \A r \in Threads : r # c => stage'[r] = stage[r]
  BY <1>1, TestTypes DEF Queue!Stages
<1>3. TypeOK' /\ ProducerCalls' /\ ConsumerCalls' /\ MainCalls'
  <2>1. /\ pos' \in [Threads -> 0..(ItemsPerProducer + NConsumers)] /\ queue' \in Seq(Entries)
        /\ val' \in [Threads -> Entries \union {None}]
        /\ ended' \subseteq Consumers /\ consumedItems' \in [Consumers -> Seq(Items)]
        /\ verified' \in BOOLEAN
    BY TestTypes
  <2>2. /\ \A r \in Threads : r # c => stage'[r] = stage[r] /\ val'[r] = val[r] /\ pos'[r] = pos[r]
        /\ \A d \in Consumers : d # c => (d \in ended' <=> d \in ended)
    BY <1>2
  <2>3. /\ stage'[c] \in {"idle", "deq", "deqDone", "deqEmpty"} /\ pos'[c] = 0
        /\ c \notin ended' /\ stage'[c] # "deqDone"
    BY DEF TestInv, ConsumerCalls
  <2>4. stage'[Main] # "idle" \/ pos'[Main] > 0 => \A p \in Producers : pos'[p] = ItemsPerProducer
    BY <1>1, <1>2, ThreadKinds DEF TestInv, MainCalls
  <2> QED
    BY <1>1, <1>2, <2>1, <2>2, <2>3, <2>4, OneCall
<1>4. \A r \in Threads : Put(r)' = Put(r)
  <2>1. stage[c] # "enqDone"
    BY DEF TestInv, ConsumerCalls
  <2> QED
    BY <1>2, <2>1 DEF Put
<1>5. \A d \in Consumers : Got(d)' = Got(d)
  BY <1>2, ThreadKinds DEF Got
<1>6. Met' = Met
  BY <1>2, ThreadKinds DEF Met
<1> QED
  BY <1>3, <1>4, <1>5, <1>6, QuietStep

LEMMA ConsumedKeeps ==
  ASSUME TestInv, NEW c \in Consumers, Consumed(c)
  PROVE  TestInv'
<1>1. c \in Threads /\ c \notin Producers /\ c # Main
  BY ThreadKinds
<1>2. /\ stage[c] = "deqDone" /\ c \notin ended /\ val[c] \in Entries
      /\ stage' = [stage EXCEPT ![c] = "idle"] /\ val' = [val EXCEPT ![c] = None]
      /\ UNCHANGED <<queue, pos, verified>>
      /\ val[c] = End => ended' = ended \union {c} /\ consumedItems' = consumedItems
      /\ val[c] # End => /\ consumedItems' = [consumedItems EXCEPT ![c] = Append(@, val[c])]
                         /\ ended' = ended
  BY <1>1, CallOwner DEF Consumed, Queue!ReturnDequeue, Queue!Pass, TestInv, ConsumerCalls
<1>3. /\ stage' \in [Threads -> Queue!Stages] /\ val' \in [Threads -> Entries \union {None}]
      /\ stage'[c] = "idle" /\ val'[c] = None
      /\ \A r \in Threads : r # c => stage'[r] = stage[r] /\ val'[r] = val[r]
  BY <1>1, <1>2, TestTypes DEF Queue!Stages
<1>4. /\ consumedItems' \in [Consumers -> Seq(Items)] /\ ended' \subseteq Consumers
      /\ \A d \in Consumers : d # c => consumedItems'[d] = consumedItems[d]
      /\ val[c] # End => consumedItems'[c] = Append(consumedItems[c], val[c])
  <2>1. CASE val[c] = End
    BY <1>2, <2>1, TestTypes
  <2>2. CASE val[c] # End
    <3>1. val[c] \in Items /\ consumedItems[c] \in Seq(Items)
      BY <1>2, <2>2, TestTypes DEF Entries
    <3>2. Append(consumedItems[c], val[c]) \in Seq(Items)
      BY <3>1, AppendShape
    <3> QED
      BY <1>2, <2>2, <3>2, TestTypes
  <2> QED
    BY <2>1, <2>2
<1>5. TypeOK' /\ ProducerCalls' /\ ConsumerCalls' /\ MainCalls'
  <2>1. /\ pos' \in [Threads -> 0..(ItemsPerProducer + NConsumers)] /\ queue' \in Seq(Entries)
        /\ verified' \in BOOLEAN
    BY <1>2, TestTypes
  <2>2. /\ \A r \in Threads : r # c => stage'[r] = stage[r] /\ val'[r] = val[r] /\ pos'[r] = pos[r]
        /\ \A d \in Consumers : d # c => (d \in ended' <=> d \in ended)
    BY <1>2, <1>3
  <2>3. /\ stage'[c] \in {"idle", "deq", "deqDone", "deqEmpty"} /\ pos'[c] = 0
        /\ stage'[c] = "idle"
    BY <1>2, <1>3 DEF TestInv, ConsumerCalls
  <2>4. stage'[Main] # "idle" \/ pos'[Main] > 0 => \A p \in Producers : pos'[p] = ItemsPerProducer
    BY <1>1, <1>2, <1>3, ThreadKinds DEF TestInv, MainCalls
  <2> QED
    BY <1>1, <1>3, <1>4, <2>1, <2>2, <2>3, <2>4, OneCall
<1>6. \A r \in Threads : Put(r)' = Put(r)
  BY <1>2, <1>3 DEF Put
<1>7. ASSUME NEW d \in Consumers PROVE Got(d)' = Got(d)
  <2>1. CASE d = c
    BY <1>2, <1>3, <1>4, <2>1 DEF Got
  <2>2. CASE d # c
    BY <1>3, <1>4, <2>2, ThreadKinds DEF Got
  <2> QED
    BY <2>1, <2>2
<1>8. Met' = Met
  <2>1. \A d \in Consumers : d \in Met' <=> d \in Met
    BY <1>2, <1>3, ThreadKinds DEF Met
  <2> QED
    BY <2>1 DEF Met
<1>9. ~verified
  BY <1>2 DEF TestInv
<1> QED
  BY <1>2, <1>5, <1>6, <1>7, <1>8, <1>9, QuietStep

LEMMA CommitEnqueuePuts ==
  ASSUME TestInv, NEW t \in Threads, Queue!CommitEnqueue(t),
         UNCHANGED <<pos, ended, consumedItems, verified>>
  PROVE  TestInv'
<1>1. /\ stage[t] = "enq" /\ (t \in Producers \/ t = Main) /\ t \notin Consumers
      /\ stage' = [stage EXCEPT ![t] = "enqDone"] /\ queue' = Append(queue, val[t]) /\ val' = val
  BY CallOwner, ThreadKinds DEF Queue!CommitEnqueue, Queue!Pass
<1>2. /\ t \in Producers => pos[t] < ItemsPerProducer /\ val[t] = start(t) + pos[t]
      /\ t = Main => /\ pos[t] < NConsumers /\ val[t] = End
                     /\ \A p \in Producers : pos[p] = ItemsPerProducer
  BY <1>1 DEF TestInv, ProducerCalls, MainCalls
<1>3. /\ stage' \in [Threads -> Queue!Stages] /\ stage'[t] = "enqDone"
      /\ \A r \in Threads : r # t => stage'[r] = stage[r]
  BY <1>1, TestTypes DEF Queue!Stages
<1>4. t \in Producers => stage[Main] = "idle" /\ pos[Main] = 0
  BY <1>2, CountsAssumption, ThreadKinds, TestTypes DEF TestInv, MainCalls
<1>5. val[t] \in Entries
  <2>1. t \in Producers => val[t] \in Items
    BY <1>2, TestTypes, CountsAssumption, OwnItem, ThreadKinds
  <2> QED
    BY <1>1, <1>2, <2>1 DEF Entries
<1>6. queue' \in Seq(Entries)
  BY <1>1, <1>5, TestTypes, AppendShape
<1>7. TypeOK' /\ ProducerCalls' /\ ConsumerCalls' /\ MainCalls'
  <2>1. /\ pos' \in [Threads -> 0..(ItemsPerProducer + NConsumers)]
        /\ val' \in [Threads -> Entries \union {None}]
        /\ ended' \subseteq Consumers /\ consumedItems' \in [Consumers -> Seq(Items)]
        /\ verified' \in BOOLEAN
    BY <1>1, TestTypes
  <2>2. /\ \A r \in Threads : r # t => stage'[r] = stage[r] /\ val'[r] = val[r] /\ pos'[r] = pos[r]
        /\ \A c \in Consumers : c # t => (c \in ended' <=> c \in ended)
    BY <1>1, <1>3
  <2>3. t \in Producers =>
          /\ stage'[t] \in {"idle", "enq", "enqDone"} /\ pos'[t] <= ItemsPerProducer
          /\ stage'[t] # "idle" => pos'[t] < ItemsPerProducer /\ val'[t] = start(t) + pos'[t]
    BY <1>1, <1>2, <1>3 DEF TestInv, ProducerCalls
  <2>4. t = Main =>
          /\ stage'[t] \in {"idle", "enq", "enqDone"} /\ pos'[t] <= NConsumers
          /\ stage'[t] # "idle" => pos'[t] < NConsumers /\ val'[t] = End
    BY <1>1, <1>2, <1>3 DEF TestInv, MainCalls
  <2>5. stage'[Main] # "idle" \/ pos'[Main] > 0 => \A p \in Producers : pos'[p] = ItemsPerProducer
    BY <1>1, <1>2, <1>3, <1>4, ThreadKinds
  <2> QED
    BY <1>1, <1>3, <1>6, <2>1, <2>2, <2>3, <2>4, <2>5, OneCall
<1>8. /\ \A c \in Consumers : Got(c)' = Got(c)
      /\ Met' = Met
  BY <1>1, <1>3, ThreadKinds DEF Got, Met
<1>9. Received' = Received
  BY <1>8 DEF Received
<1>10. /\ pos[t] \in Nat /\ Put(t) = pos[t] /\ Put(t)' = pos[t] + 1
       /\ \A r \in Threads : r # t => Put(r)' = Put(r)
  BY <1>1, <1>3, TestTypes DEF Put
<1>11. Delivery(Received, queue, Produced)' /\ Termination(queue, Met, Put(Main))'
  <2>1. CASE t \in Producers
    <3>1. /\ Produced \in [Producers -> Nat] /\ Produced[t] = pos[t]
          /\ Produced' = [Produced EXCEPT ![t] = @ + 1]
      <4>1. /\ Produced[t] = pos[t] /\ t \in Producers
            /\ Produced' = [p \in Producers |-> Put(p)']
            /\ \A p \in Producers : Produced[p] = Put(p)
        BY <1>10, <2>1 DEF Produced
      <4>2. \A p \in Producers : Put(p)' = IF p = t THEN Produced[t] + 1 ELSE Produced[p]
        BY <1>10, <4>1, ThreadKinds
      <4>3. Produced \in [Producers -> Nat]
        BY TestTypes
      <4> QED
        BY <4>1, <4>2, <4>3
    <3>2. queue' = Append(queue, start(t) + Produced[t]) /\ Produced[t] < ItemsPerProducer
      BY <1>1, <1>2, <2>1, <3>1
    <3>3. Delivery(Received, Append(queue, start(t) + Produced[t]), [Produced EXCEPT ![t] = @ + 1])
      BY <2>1, <3>1, <3>2, TestTypes, PutItem DEF TestInv
    <3>4. Delivery(Received, queue, Produced)'
      BY <1>9, <3>1, <3>2, <3>3, DeliveryAfter
    <3>5. Put(Main) = 0 /\ Put(Main)' = 0
      BY <1>4, <1>10, <2>1, ThreadKinds DEF Put
    <3>6. val[t] # End
      BY <1>2, <2>1, TestTypes, CountsAssumption, OwnItem, ThreadKinds
    <3>7. Termination(queue', Met, 0)
      BY <1>1, <1>5, <3>5, <3>6, TestTypes, PutBeforeMarkers DEF TestInv
    <3> QED
      BY <1>8, <3>4, <3>5, <3>7 DEF Termination
  <2>2. CASE t = Main
    <3>1. Produced' = Produced
      BY <1>10, <2>2, ThreadKinds DEF Produced
    <3>2. queue' = Append(queue, End)
      BY <1>1, <1>2, <2>2
    <3>3. Delivery(Received, queue', Produced)
      BY <3>2, TestTypes, PutMarker DEF TestInv
    <3>4. Delivery(Received, queue, Produced)'
      BY <1>9, <3>1, <3>3, DeliveryAfter
    <3>5. Put(Main) \in Nat /\ Put(Main)' = Put(Main) + 1
      BY <1>10, <2>2
    <3>6. Termination(queue', Met, Put(Main) + 1)
      BY <3>2, <3>5, TestTypes, PutNextMarker DEF TestInv
    <3> QED
      BY <1>8, <3>4, <3>5, <3>6 DEF Termination
  <2> QED
    BY <1>1, <2>1, <2>2
<1> QED
  BY <1>7, <1>11 DEF TestInv

LEMMA CommitDequeueTakes ==
  ASSUME TestInv, NEW c \in Threads, Queue!CommitDequeue(c),
         UNCHANGED <<pos, ended, consumedItems, verified>>
  PROVE  TestInv'
<1>1. /\ stage[c] = "deq" /\ c \in Consumers /\ c \notin ended /\ queue # <<>>
      /\ c \notin Producers /\ c # Main
      /\ stage' = [stage EXCEPT ![c] = "deqDone"] /\ queue' = Tail(queue)
      /\ val' = [val EXCEPT ![c] = Head(queue)]
  BY CallOwner, ThreadKinds DEF Queue!CommitDequeue, Queue!Pass
<1>2. Head(queue) \in Entries /\ queue' \in Seq(Entries)
  BY <1>1, TestTypes, TailShape
<1>3. /\ stage' \in [Threads -> Queue!Stages] /\ val' \in [Threads -> Entries \union {None}]
      /\ stage'[c] = "deqDone" /\ val'[c] = Head(queue)
      /\ \A r \in Threads : r # c => stage'[r] = stage[r] /\ val'[r] = val[r]
  BY <1>1, <1>2, TestTypes DEF Queue!Stages
<1>4. TypeOK' /\ ProducerCalls' /\ ConsumerCalls' /\ MainCalls'
  <2>1. /\ pos' \in [Threads -> 0..(ItemsPerProducer + NConsumers)]
        /\ ended' \subseteq Consumers /\ consumedItems' \in [Consumers -> Seq(Items)]
        /\ verified' \in BOOLEAN
    BY TestTypes
  <2>2. /\ \A r \in Threads : r # c => stage'[r] = stage[r] /\ val'[r] = val[r] /\ pos'[r] = pos[r]
        /\ \A d \in Consumers : d # c => (d \in ended' <=> d \in ended)
    BY <1>3
  <2>3. /\ stage'[c] \in {"idle", "deq", "deqDone", "deqEmpty"} /\ pos'[c] = 0
        /\ c \notin ended' /\ val'[c] \in Entries
    BY <1>1, <1>2, <1>3 DEF TestInv, ConsumerCalls
  <2>4. stage'[Main] # "idle" \/ pos'[Main] > 0 => \A p \in Producers : pos'[p] = ItemsPerProducer
    BY <1>1, <1>3, ThreadKinds DEF TestInv, MainCalls
  <2> QED
    BY <1>1, <1>2, <1>3, <2>1, <2>2, <2>3, <2>4, OneCall
<1>5. \A r \in Threads : Put(r)' = Put(r)
  BY <1>1, <1>3 DEF Put
<1>6. Produced' = Produced /\ Put(Main)' = Put(Main)
  BY <1>5, ThreadKinds DEF Produced
<1>7. \A d \in Consumers : d # c => Got(d)' = Got(d)
  BY <1>3, ThreadKinds DEF Got
<1>8. Got(c) = consumedItems[c] /\ c \notin Met
  BY <1>1 DEF Got, Met
<1>9. Delivery(Received, queue, Produced)' /\ Termination(queue, Met, Put(Main))'
  <2>1. CASE Head(queue) # End
    <3>1. Got(c)' = Append(Got(c), Head(queue))
      BY <1>3, <1>8, <2>1 DEF Got
    <3>2. Received' = [Received EXCEPT ![c] = Append(@, Head(queue))]
      <4>1. \A d \in Consumers : Got(d)' = IF d = c THEN Append(Received[c], Head(queue)) ELSE Received[d]
        BY <1>7, <3>1, <1>1 DEF Received
      <4>2. Received \in [Consumers -> Seq(Items)] /\ Received' = [d \in Consumers |-> Got(d)']
        BY TestTypes DEF Received
      <4> QED
        BY <4>1, <4>2
    <3>3. Delivery([Received EXCEPT ![c] = Append(@, Head(queue))], Tail(queue), Produced)
      BY <1>1, <2>1, TestTypes, TakeItem DEF TestInv
    <3>4. Met' = Met
      BY <1>1, <1>3, <2>1, ThreadKinds DEF Met
    <3>5. Termination(Tail(queue), Met, Put(Main))
      BY <1>1, <2>1, TestTypes, ThreadKinds, TakeFromFront DEF TestInv
    <3>6. Delivery(Received, queue, Produced)'
      BY <1>1, <1>6, <3>2, <3>3, DeliveryAfter
    <3> QED
      BY <1>1, <1>6, <3>4, <3>5, <3>6, TerminationAfter
  <2>2. CASE Head(queue) = End
    <3>1. Got(c)' = Got(c)
      BY <1>3, <1>8, <2>2 DEF Got
    <3>2. Received' = Received
      BY <1>7, <3>1 DEF Received
    <3>3. Delivery(Received, Tail(queue), Produced)
      BY <1>1, <2>2, TestTypes, TakeMarker DEF TestInv
    <3>4. Met' = Met \union {c}
      BY <1>1, <1>3, <2>2, ThreadKinds DEF Met
    <3>5. Termination(Tail(queue), Met \union {c}, Put(Main))
      BY <1>1, <1>8, <2>2, TestTypes, ThreadKinds, TakeFirstMarker DEF TestInv
    <3>6. Delivery(Received, queue, Produced)'
      BY <1>1, <1>6, <3>2, <3>3, DeliveryAfter
    <3> QED
      BY <1>1, <1>6, <3>4, <3>5, <3>6, TerminationAfter
  <2> QED
    BY <2>1, <2>2
<1> QED
  BY <1>4, <1>9 DEF TestInv

LEMMA VerifyKeeps ==
  ASSUME TestInv, Verify
  PROVE  TestInv'
<1>1. /\ pos[Main] = NConsumers /\ ended = Consumers /\ verified' = TRUE
      /\ UNCHANGED <<queue, stage, val, pos, ended, consumedItems>>
  BY DEF Verify, q
<1>2. TypeOK' /\ ProducerCalls' /\ ConsumerCalls' /\ MainCalls'
  BY <1>1 DEF TestInv, TypeOK, Queue!TypeOK, ProducerCalls, ConsumerCalls, MainCalls
<1>3. Received' = Received /\ Produced' = Produced /\ Met' = Met /\ Put(Main)' = Put(Main)
  BY <1>1 DEF Received, Produced, Met, Put, Got
<1>4. Delivery(Received, queue, Produced)'
  BY <1>1, <1>3, DeliveryAfter DEF TestInv
<1>5. Termination(queue, Met, Put(Main))'
  BY <1>1, <1>3, TerminationAfter DEF TestInv
<1> QED
  BY <1>1, <1>2, <1>4, <1>5 DEF TestInv

LEMMA TestIdle ==
  ASSUME TestInv, UNCHANGED test
  PROVE  TestInv'
<1>1. UNCHANGED <<queue, stage, val, pos, ended, consumedItems, verified>>
  BY DEF test, q
<1>2. TypeOK' /\ ProducerCalls' /\ ConsumerCalls' /\ MainCalls'
  BY <1>1 DEF TestInv, TypeOK, Queue!TypeOK, ProducerCalls, ConsumerCalls, MainCalls
<1>3. Met' = Met /\ \A t \in Threads : Put(t)' = Put(t)
  BY <1>1 DEF Met, Put
<1>4. \A c \in Consumers : Got(c)' = Got(c)
  BY <1>1 DEF Got
<1> QED
  BY <1>1, <1>2, <1>3, <1>4, QuietStep

LEMMA TestStep ==
  ASSUME TestInv, [TestNext]_test
  PROVE  TestInv'
<1>1. ASSUME NEW t \in Threads, Step(t) PROVE TestInv'
  <2>1. CASE QueueStep(t)
    <3>1. CASE Queue!CommitEnqueue(t)
      BY <2>1, <3>1, CommitEnqueuePuts DEF QueueStep
    <3>2. CASE Queue!CommitDequeue(t)
      BY <2>1, <3>2, CommitDequeueTakes DEF QueueStep
    <3>3. CASE Queue!ObserveEmpty(t)
      <4>1. /\ stage[t] = "deq" /\ t \in Consumers /\ t \notin ended
            /\ stage' = [stage EXCEPT ![t] = "deqEmpty"]
            /\ UNCHANGED <<queue, val, pos, ended, consumedItems, verified>>
        BY <2>1, <3>3, CallOwner DEF QueueStep, Queue!ObserveEmpty, Queue!Pass
      <4>2. stage'[t] = "deqEmpty"
        BY <4>1, TestTypes
      <4> QED
        BY <4>1, <4>2, DequeueStepKeeps
    <3>4. CASE Queue!Retry(t)
      <4>1. /\ stage[t] = "deqEmpty" /\ t \in Consumers /\ t \notin ended
            /\ stage' = [stage EXCEPT ![t] = "deq"]
            /\ UNCHANGED <<queue, val, pos, ended, consumedItems, verified>>
        BY <2>1, <3>4, CallOwner DEF QueueStep, Queue!Retry, Queue!Pass
      <4>2. stage'[t] = "deq"
        BY <4>1, TestTypes
      <4> QED
        BY <4>1, <4>2, DequeueStepKeeps
    <3> QED
      BY <2>1, <3>1, <3>2, <3>3, <3>4 DEF QueueStep
  <2>2. CASE Enqueued(t)
    BY <2>2, EnqueuedKeeps
  <2>3. CASE t \in Producers /\ Produce(t)
    BY <2>3, ProduceKeeps
  <2>4. CASE t \in Consumers /\ Consume(t)
    <3>1. /\ stage[t] = "idle" /\ t \notin ended /\ stage' = [stage EXCEPT ![t] = "deq"]
          /\ UNCHANGED <<queue, val, pos, ended, consumedItems, verified>>
      BY <2>4 DEF Consume, Queue!CallDequeue, Queue!Pass
    <3>2. stage'[t] = "deq"
      BY <3>1, TestTypes
    <3> QED
      BY <2>4, <3>1, <3>2, DequeueStepKeeps
  <2>5. CASE t \in Consumers /\ ConsumeNothing(t)
    <3>1. /\ stage[t] = "deqEmpty" /\ t \notin ended /\ stage' = [stage EXCEPT ![t] = "idle"]
          /\ UNCHANGED <<queue, val, pos, ended, consumedItems, verified>>
      BY <2>5, CallOwner DEF ConsumeNothing, Queue!ReturnEmpty, Queue!Pass
    <3>2. stage'[t] = "idle"
      BY <3>1, TestTypes
    <3> QED
      BY <2>5, <3>1, <3>2, DequeueStepKeeps
  <2>6. CASE t \in Consumers /\ Consumed(t)
    BY <2>6, ConsumedKeeps
  <2>7. CASE SendEnd
    BY <2>7, SendEndKeeps
  <2>8. CASE Verify
    BY <2>8, VerifyKeeps
  <2> QED
    BY <1>1, <2>1, <2>2, <2>3, <2>4, <2>5, <2>6, <2>7, <2>8 DEF Step
<1>2. CASE UNCHANGED test
  BY <1>2, TestIdle
<1> QED
  BY <1>1, <1>2 DEF TestNext, TestFinished

LEMMA TestStart ==
  ASSUME TestInit
  PROVE  TestInv
<1>1. /\ queue = <<>> /\ stage = [t \in Threads |-> "idle"] /\ val = [t \in Threads |-> None]
      /\ pos = [t \in Threads |-> 0] /\ ended = {} /\ verified = FALSE
      /\ consumedItems = [c \in Consumers |-> <<>>]
  BY DEF TestInit, Queue!Init
<1>2. TypeOK
  <2>1. 0 \in 0..(ItemsPerProducer + NConsumers)
    BY CountsAssumption
  <2>2. \A S : <<>> \in Seq(S)
    OBVIOUS
  <2>3. Queue!TypeOK
    BY <1>1, <2>2 DEF Queue!TypeOK, Queue!Stages
  <2>4. consumedItems \in [Consumers -> Seq(Items)]
    BY <1>1, <2>2
  <2> QED
    BY <1>1, <2>1, <2>3, <2>4 DEF TypeOK
<1>3. ProducerCalls /\ ConsumerCalls /\ MainCalls
  BY <1>1, ThreadKinds, CountsAssumption DEF ProducerCalls, ConsumerCalls, MainCalls
<1>4. /\ \A c \in Consumers : Received[c] = <<>>
      /\ \A p \in Producers : Produced[p] = 0
      /\ Met = {} /\ Put(Main) = 0
  BY <1>1, ThreadKinds DEF Received, Produced, Got, Put, Met
<1>5. Len(<<>>) = 0 /\ 1..0 = {} /\ 0..(0 - 1) = {} /\ 0 \in 0..0
  OBVIOUS
<1>6. Delivery(Received, queue, Produced)
  BY <1>1, <1>4, <1>5 DEF Delivery, Sorted, Issued, Ahead, Apart
<1>7. Termination(queue, Met, Put(Main))
  <2>1. Cardinality({}) = 0
    BY FS_EmptySet
  <2>2. Termination(<<>>, {}, 0)
    BY <1>5, <2>1 DEF Termination
  <2> QED
    BY <1>1, <1>4, <2>2
<1> QED
  BY <1>1, <1>2, <1>3, <1>6, <1>7 DEF TestInv

----------------------------------------------------------------------------
(* What the invariant implies *)

\* A vector holds no item twice, so it is no longer than all items together.
LEMMA VectorLength ==
  ASSUME NEW s \in Seq(Items), Sorted(s)
  PROVE  /\ Len(s) <= Cardinality(Items) /\ Cardinality(Items) \in Nat
         /\ \A j, k \in 1..Len(s) : s[j] = s[k] => j = k
<1>1. \A j \in 1..Len(s) : s[j] \in Items
  OBVIOUS
<1>2. \A j \in 1..Len(s) : s[j] \in Items /\ s[j] \in Nat /\ s[j] # End
  BY <1>1, ItemsNat
<1>3. \A j, k \in 1..Len(s) : j < k => s[j] < s[k] \/ ProducerId(s[j]) # ProducerId(s[k])
  BY <1>2 DEF Sorted, Before
<1>4. \A j, k \in 1..Len(s) : j < k \/ k < j \/ j = k
  OBVIOUS
<1>5. \A j, k \in 1..Len(s) : s[j] = s[k] => j = k
  BY <1>2, <1>3, <1>4
<1>6. s \in Injection(1..Len(s), Items)
  BY <1>2, <1>5, Fun_IsInj
<1>7. IsFiniteSet(Items)
  BY CountsAssumption, FS_Interval DEF Items
<1>8. Cardinality(1..Len(s)) = Len(s)
  <2>1. \A l \in Nat : Cardinality(1..l) = IF 1 > l THEN 0 ELSE l - 1 + 1
    BY FS_Interval
  <2>2. \A l \in Nat : (IF 1 > l THEN 0 ELSE l - 1 + 1) = l
    OBVIOUS
  <2>3. Len(s) \in Nat
    OBVIOUS
  <2> QED
    BY <2>1, <2>2, <2>3
<1> QED
  BY <1>5, <1>6, <1>7, <1>8, FS_Injection, FS_CardinalityType

LEMMA TestInvOrdered ==
  ASSUME TestInv
  PROVE  OrderedPerProducer
<1>1. ASSUME NEW c \in Consumers, NEW j \in DOMAIN consumedItems[c], NEW k \in DOMAIN consumedItems[c],
             j < k, ProducerId(consumedItems[c][j]) = ProducerId(consumedItems[c][k])
      PROVE  consumedItems[c][j] < consumedItems[c][k]
  <2>1. consumedItems[c] \in Seq(Items) /\ Got(c) \in Seq(Items) /\ Received[c] = Got(c)
    BY TestTypes DEF Received
  <2>2. /\ j \in 1..Len(Got(c)) /\ Got(c)[j] = consumedItems[c][j] /\ consumedItems[c][j] # End
        /\ k \in 1..Len(Got(c)) /\ Got(c)[k] = consumedItems[c][k] /\ consumedItems[c][k] # End
    <3>1. j \in 1..Len(consumedItems[c]) /\ k \in 1..Len(consumedItems[c])
      BY <1>1, <2>1
    <3>2. consumedItems[c][j] \in Items /\ consumedItems[c][k] \in Items
      BY <2>1, <3>1
    <3>3. CASE Got(c) = consumedItems[c]
      BY <3>1, <3>2, <3>3, ItemsNat
    <3>4. CASE stage[c] = "deqDone" /\ val[c] # End /\ Got(c) = Append(consumedItems[c], val[c])
      <4>1. val[c] \in Items
        BY <3>4 DEF TestInv, ConsumerCalls, Entries
      <4>2. /\ Len(Got(c)) = Len(consumedItems[c]) + 1 /\ Len(consumedItems[c]) \in Nat
            /\ \A l \in 1..Len(consumedItems[c]) : Got(c)[l] = consumedItems[c][l]
        BY <2>1, <3>4, <4>1, AppendShape
      <4> QED
        BY <3>1, <3>2, <4>2, ItemsNat
    <3> QED
      BY <3>3, <3>4 DEF Got
  <2>3. Sorted(Got(c))
    BY <2>1 DEF TestInv, Delivery
  <2> QED
    BY <1>1, <2>2, <2>3 DEF Sorted, Before
<1> QED
  BY <1>1 DEF OrderedPerProducer

LEMMA TestInvAll ==
  ASSUME TestInv, verified
  PROVE  queue = <<>> /\ \A x \in Items : Cardinality(Places(x)) = 1
<1>1. pos[Main] = NConsumers /\ ended = Consumers
  BY DEF TestInv
<1>2. /\ stage[Main] = "idle" /\ Put(Main) = NConsumers
      /\ \A p \in Producers : pos[p] = ItemsPerProducer /\ stage[p] = "idle"
  <2>1. stage[Main] = "idle"
    BY <1>1, CountsAssumption DEF TestInv, MainCalls
  <2>2. \A p \in Producers : pos[p] = ItemsPerProducer
    BY <1>1, CountsAssumption DEF TestInv, MainCalls
  <2>3. \A p \in Producers : stage[p] = "idle"
    BY <2>2, CountsAssumption DEF TestInv, ProducerCalls
  <2>4. Put(Main) = NConsumers
    BY <1>1, <2>1, CountsAssumption DEF Put
  <2> QED
    BY <2>1, <2>2, <2>3, <2>4
<1>3. \A c \in Consumers : stage[c] = "idle" /\ Got(c) = consumedItems[c]
  BY <1>1 DEF TestInv, ConsumerCalls, Got
<1>4. Met = Consumers
  BY <1>1 DEF Met
<1>5. Consumers # {} /\ Cardinality(Met) = NConsumers
  <2>1. <<"consumer", 0>> \in Consumers
    BY CountsAssumption DEF Consumers
  <2> QED
    BY <1>4, <2>1, ConsumersFinite
<1>6. queue = <<>>
  <2>1. PICK b \in 0..Len(queue) : NConsumers = (Len(queue) - b) + Cardinality(Met) /\ b = 0
    BY <1>2, <1>4, <1>5 DEF TestInv, Termination
  <2>2. queue \in Seq(Entries) /\ Len(queue) \in Nat
    BY TestTypes
  <2>3. Len(queue) = 0
    BY <1>5, <2>1, <2>2, CountsAssumption
  <2> QED
    BY <2>2, <2>3
<1>7. ASSUME NEW x \in Items PROVE Cardinality(Places(x)) = 1
  <2>1. PICK p \in Producers : \E k \in 0..(ItemsPerProducer - 1) : x = start(p) + k
    BY ItemOwner
  <2>2. PICK k \in 0..(ItemsPerProducer - 1) : x = start(p) + k
    BY <2>1
  <2>3. Produced[p] = ItemsPerProducer
    BY <1>2, CountsAssumption DEF Produced, Put
  <2>4. ~In(queue, x)
    <3>1. Len(<<>>) = 0 /\ 1..0 = {}
      OBVIOUS
    <3> QED
      BY <1>6, <3>1 DEF In
  <2>5. PICK c \in Consumers : In(Received[c], x)
    BY <2>2, <2>3, <2>4 DEF TestInv, Delivery
  <2>6. \A d \in Consumers : Received[d] = consumedItems[d] /\ consumedItems[d] \in Seq(Items)
    BY <1>3, TestTypes DEF Received
  <2>7. PICK j \in 1..Len(consumedItems[c]) : consumedItems[c][j] = x
    BY <2>5, <2>6 DEF In
  <2>8. \A d \in Consumers : Sorted(consumedItems[d])
    BY <2>6 DEF TestInv, Delivery
  <2>9. /\ Len(consumedItems[c]) <= Cardinality(Items) /\ Cardinality(Items) \in Nat
        /\ \A l, k2 \in 1..Len(consumedItems[c]) : consumedItems[c][l] = consumedItems[c][k2] => l = k2
    BY <2>6, <2>8, VectorLength
  <2>10. \A d \in Consumers : d # c => Apart(consumedItems[c], consumedItems[d])
    BY <2>6 DEF TestInv, Delivery
  <2>11. <<c, j>> \in Places(x)
    <3>1. j \in 1..Cardinality(Items) /\ j \in DOMAIN consumedItems[c]
      BY <2>6, <2>7, <2>9
    <3> QED
      BY <2>7, <3>1 DEF Places
  <2>12. ASSUME NEW w \in Places(x) PROVE w = <<c, j>>
    <3>1. PICK d \in Consumers, l \in 1..Cardinality(Items) : w = <<d, l>>
      BY DEF Places
    <3>2. l \in DOMAIN consumedItems[d] /\ consumedItems[d][l] = x
      BY <3>1 DEF Places
    <3>3. l \in 1..Len(consumedItems[d])
      BY <2>6, <3>2
    <3>4. d = c
      BY <2>7, <2>10, <3>2, <3>3 DEF Apart
    <3> QED
      BY <2>7, <2>9, <3>1, <3>2, <3>3, <3>4
  <2>13. Places(x) = {<<c, j>>}
    BY <2>11, <2>12
  <2> QED
    BY <2>13, FS_Singleton
<1> QED
  BY <1>6, <1>7

\* What the concurrent test asserts after it has joined its threads is true in
\* every execution, for any number of producers, consumers and items, if the
\* queue keeps the promise FifoQueue: the assertions can fail only for a queue
\* that breaks it (correctness.cc:140, :148).
THEOREM TestAssertions == TestSpec => []AssertionsHold
<1>1. TestInit => TestInv
  BY TestStart
<1>2. TestInv /\ [TestNext]_test => TestInv'
  BY TestStep
<1>3. TestInv => AssertionsHold
  BY TestInvOrdered, TestInvAll DEF AssertionsHold, AllConsumed, TestInv
<1> QED
  BY <1>1, <1>2, <1>3, PTL DEF TestSpec

----------------------------------------------------------------------------
(* The benchmark *)

Item(t, k) == t * ops_per_thread + k

\* Worker t has put item k of its section into the queue.
HasPut(t, k) ==
  \/ k < i[t]
  \/ k = i[t] /\ (at[t] = "dequeue" \/ (at[t] = "enqueue" /\ stage[t] = "enqDone"))

\* Worker t has put one item more into the queue than it has taken out.
Owes(t) ==
  \/ at[t] = "enqueue" /\ stage[t] = "enqDone"
  \/ at[t] = "dequeue" /\ stage[t] # "deqDone"
Owing == {t \in Workers : Owes(t)}

WorkerCalls(t) ==
  /\ at[t] \in {"start", "wait"} => stage[t] = "idle" /\ i[t] = 0
  /\ at[t] = "enqueue" =>
       /\ stage[t] \in {"idle", "enq", "enqDone"} /\ i[t] < ops_per_thread
       /\ stage[t] # "idle" => val[t] = my_item(t)
  /\ at[t] = "dequeue" =>
       /\ stage[t] \in {"idle", "deq", "deqDone", "deqEmpty"} /\ i[t] < ops_per_thread
       /\ stage[t] = "deqDone" => val[t] \in Nat
  /\ at[t] = "end" => stage[t] = "idle" /\ i[t] = ops_per_thread

WorkerStamps(t) ==
  \A k \in 0..(ops_per_thread - 1) : should_sample(Item(t, k)) =>
    /\ k = i[t] /\ at[t] = "enqueue" /\ stage[t] # "idle" => "enqueue_start" \in stamps[Item(t, k)]
    /\ k < i[t] \/ (k = i[t] /\ at[t] = "dequeue") =>
         {"enqueue_start", "enqueue_done"} \subseteq stamps[Item(t, k)]

InQueue(x) == \E j \in 1..Len(queue) : queue[j] = x
Held(x) == \E d \in Workers : stage[d] = "deqDone" /\ val[d] = x
Measured(x) == should_sample(x) => {"dequeue_start", "dequeue_done"} \subseteq stamps[x]

Accounted ==
  \A t \in Workers : \A k \in 0..(ops_per_thread - 1) :
    HasPut(t, k) => InQueue(Item(t, k)) \/ Held(Item(t, k)) \/ Measured(Item(t, k))

BenchInv ==
  process # "off" =>
    /\ n_threads \in 1..MaxThreads /\ ops_per_thread \in Nat \ {0}
    /\ \A t \in Workers : WorkerCalls(t) /\ WorkerStamps(t)
    /\ Accounted
    /\ Len(queue) = Cardinality(Owing)
    /\ process = "export" => \A t \in Workers : at[t] = "end"

----------------------------------------------------------------------------
(* The files *)

Cell(qu, k) == {<<qu, k, r>> : r \in 1..TRIALS}
IsMarked(qu, k) == HasMarker(qu) /\ k >= marker[qu]

Cursor ==
  /\ shell = "trial" => cur[3] >= 1
  /\ shell \in {"wait", "rm", "echo"} => cur[3] \in 1..TRIALS
  /\ shell \in {"trial", "wait", "rm", "echo"} => ~Marked
  /\ shell = "off" => cur = Start

\* The trials that this sweep has left behind.
Passed(qu, k, r) ==
  \/ shell = "ended" \/ qu < cur[1]
  \/ qu = cur[1] /\ k < cur[2]
  \/ qu = cur[1] /\ k = cur[2] /\ r < cur[3] /\ shell \in {"trial", "wait"}

Visited ==
  \A qu \in DOMAIN QUEUES, k \in DOMAIN THREADS : \A r \in 1..TRIALS :
    Passed(qu, k, r) => IsMarked(qu, k) \/ file[<<qu, k, r>>] # "absent"

MarkedAbsent ==
  \A qu \in DOMAIN QUEUES, k \in DOMAIN THREADS : \A r \in 1..TRIALS :
    IsMarked(qu, k) => file[<<qu, k, r>>] = "absent"

\* Cells are filled in order.
InOrder ==
  \A qu \in DOMAIN QUEUES : \A k, l \in DOMAIN THREADS : \A r, s \in 1..TRIALS :
    k < l /\ file[<<qu, k, r>>] = "absent" => file[<<qu, l, s>>] = "absent"

NoneAhead ==
  /\ shell \in {"wait", "rm", "echo"} =>
       \A k \in DOMAIN THREADS : \A r \in 1..TRIALS : k > cur[2] => file[<<cur[1], k, r>>] = "absent"
  /\ shell = "echo" => \A r \in 1..TRIALS : file[<<cur[1], cur[2], r>>] = "absent"

\* A file is incomplete while its trial runs, until it is removed, or for ever
\* when the sweep was stopped.
Incomplete ==
  \A f \in Trials :
    /\ file[f] # "wrong"
    /\ file[f] = "open" => f \in torn \/ (shell \in {"wait", "rm"} /\ f = cur)

FilesInv == Cursor /\ Visited /\ MarkedAbsent /\ InOrder /\ NoneAhead /\ Incomplete

SweepInv == SweepTypeOK /\ BenchInv /\ FilesInv

----------------------------------------------------------------------------
(* A worker's step *)

LEMMA SweepConstants ==
  /\ MaxThreads \in Nat \ {0} /\ TRIALS \in Nat /\ TOTAL_OPS \in Nat /\ TOTAL_OPS >= MaxThreads
  /\ Len(QUEUES) \in Nat \ {0} /\ DOMAIN QUEUES = 1..Len(QUEUES) /\ 1 \in DOMAIN QUEUES
  /\ Len(THREADS) \in Nat \ {0} /\ DOMAIN THREADS = 1..Len(THREADS) /\ 1 \in DOMAIN THREADS
  /\ \A k \in DOMAIN THREADS : THREADS[k] \in 1..MaxThreads
BY BenchmarkAssumption, SweepAssumption

LEMMA Quotient ==
  ASSUME NEW a \in Nat \ {0}, NEW c \in Nat, a <= c
  PROVE  c \div a \in Nat \ {0}
<1>1. c \div a \in Int /\ c = (a * (c \div a)) + (c % a) /\ c % a \in 0..(a - 1)
  BY SMT
<1>2. c \div a >= 1
  <2>1. ASSUME NEW d \in Int, NEW e \in 0..(a - 1), c = a * d + e, d <= 0 PROVE FALSE
    <3>1. a * d <= 0
      BY <2>1, SMT
    <3> QED
      BY <2>1, <3>1, SMT
  <2> QED
    BY <1>1, <2>1
<1> QED
  BY <1>1, <1>2

\* A cell of THREADS[k] threads gives every worker at least one operation.
LEMMA OpsPerThread ==
  ASSUME NEW k \in DOMAIN THREADS
  PROVE  TOTAL_OPS \div THREADS[k] \in Nat \ {0}
<1>1. THREADS[k] \in 1..MaxThreads
  BY SweepConstants
<1>2. THREADS[k] \in Nat \ {0} /\ THREADS[k] <= TOTAL_OPS
  BY <1>1, SweepConstants
<1> QED
  BY <1>2, Quotient, SweepConstants

LEMMA TupleCell ==
  ASSUME NEW A, NEW B, NEW C, NEW w \in A \X B \X C, NEW r
  PROVE  /\ w = <<w[1], w[2], w[3]>> /\ w[1] \in A /\ w[2] \in B /\ w[3] \in C
         /\ [w EXCEPT ![3] = r] = <<w[1], w[2], r>>
OBVIOUS

LEMMA SectionItem ==
  ASSUME process # "off", BenchInv, NEW t \in Workers, NEW k \in 0..(ops_per_thread - 1)
  PROVE  Item(t, k) \in TestItems /\ Item(t, k) \in Nat
<1>1. n_threads \in Nat \ {0} /\ ops_per_thread \in Nat \ {0} /\ t \in 0..(n_threads - 1)
  BY BenchmarkAssumption DEF BenchInv, Workers
<1>2. \A e \in Nat \ {0} : \A m \in Nat \ {0} : \A p \in 0..(m - 1) : \A l \in 0..(e - 1) :
        p * e + l \in 0..(e * m - 1)
  BY SMT
<1>3. Item(t, k) \in 0..(ops_per_thread * n_threads - 1)
  BY <1>1, <1>2 DEF Item
<1> QED
  BY <1>1, <1>3 DEF TestItems, count

LEMMA BenchTypes ==
  ASSUME BenchmarkTypeOK
  PROVE  /\ queue \in Seq(Nat) /\ stage \in [AllWorkers -> BenchQueue!Stages]
         /\ val \in [AllWorkers -> Nat \union {None}]
         /\ at \in [AllWorkers -> {"start", "wait", "enqueue", "dequeue", "end"}]
         /\ i \in [AllWorkers -> Nat] /\ stamps \in [TestItems -> SUBSET AllStamps]
BY DEF BenchmarkTypeOK, BenchQueue!TypeOK

LEMMA RunFacts ==
  ASSUME BenchInv, process # "off"
  PROVE  /\ n_threads \in Nat \ {0} /\ ops_per_thread \in Nat \ {0}
         /\ Workers \subseteq AllWorkers /\ IsFiniteSet(Workers) /\ IsFiniteSet(Owing)
         /\ \A t \in Workers : t \in Nat
<1>1. n_threads \in 1..MaxThreads /\ MaxThreads \in Nat /\ ops_per_thread \in Nat \ {0}
  BY SweepConstants DEF BenchInv
<1>2. Workers \subseteq AllWorkers /\ \A t \in Workers : t \in Nat
  BY <1>1 DEF Workers, AllWorkers
<1>3. IsFiniteSet(Workers)
  BY <1>1, FS_Interval DEF Workers
<1>4. IsFiniteSet(Owing)
  BY <1>3, FS_Subset DEF Owing
<1> QED
  BY <1>1, <1>2, <1>3, <1>4

LEMMA SameArgs ==
  ASSUME UNCHANGED args
  PROVE  /\ n_threads' = n_threads /\ ops_per_thread' = ops_per_thread
         /\ Workers' = Workers /\ TestItems' = TestItems
         /\ \A x : should_sample(x)' <=> should_sample(x)
<1>1. n_threads' = n_threads /\ ops_per_thread' = ops_per_thread
  BY DEF args
<1>2. stride' = stride
  BY <1>1 DEF stride, count
<1> QED
  BY <1>1, <1>2 DEF Workers, TestItems, count, should_sample

\* Stamps are added, never taken away.
LEMMA StampGrows ==
  ASSUME BenchmarkTypeOK, UNCHANGED args, NEW x, NEW s \in SUBSET AllStamps, Stamp(x, s)
  PROVE  /\ stamps' \in [TestItems -> SUBSET AllStamps]
         /\ \A y \in TestItems : stamps[y] \subseteq stamps'[y]
         /\ x \in TestItems /\ should_sample(x) => s \subseteq stamps'[x]
<1>1. stamps \in [TestItems -> SUBSET AllStamps]
  BY BenchTypes
<1>2. CASE should_sample(x) /\ x \in TestItems
  <2>1. stamps' = [stamps EXCEPT ![x] = stamps[x] \union s]
    BY <1>2 DEF Stamp
  <2>2. stamps[x] \union s \in SUBSET AllStamps
    BY <1>1, <1>2
  <2> QED
    BY <1>1, <1>2, <2>1, <2>2
<1>3. CASE should_sample(x) /\ x \notin TestItems
  <2>1. stamps' = [stamps EXCEPT ![x] = stamps[x] \union s]
    BY <1>3 DEF Stamp
  <2>2. stamps' = stamps
    BY <1>1, <1>3, <2>1
  <2> QED
    BY <1>1, <1>3, <2>2
<1>4. CASE ~should_sample(x)
  BY <1>1, <1>4 DEF Stamp
<1> QED
  BY <1>2, <1>3, <1>4

\* A step of worker t, which leaves the other workers where they are.
OnlyWorker(t) ==
  /\ process = "run" /\ process' = "run" /\ UNCHANGED args
  /\ \A r \in Workers : r # t =>
       at'[r] = at[r] /\ stage'[r] = stage[r] /\ val'[r] = val[r] /\ i'[r] = i[r]
  /\ \A x \in TestItems : stamps[x] \subseteq stamps'[x]

LEMMA OtherWorkers ==
  ASSUME BenchInv, NEW t \in Workers, OnlyWorker(t), WorkerCalls(t)', WorkerStamps(t)',
         Accounted', Len(queue') = Cardinality(Owing')
  PROVE  BenchInv'
<1>1. /\ n_threads' = n_threads /\ ops_per_thread' = ops_per_thread
      /\ Workers' = Workers /\ TestItems' = TestItems
      /\ \A x : should_sample(x)' <=> should_sample(x)
      /\ process = "run" /\ process' = "run"
  BY SameArgs DEF OnlyWorker
<1>2. ASSUME NEW r \in Workers, r # t PROVE WorkerCalls(r)' /\ WorkerStamps(r)'
  <2>1. at'[r] = at[r] /\ stage'[r] = stage[r] /\ val'[r] = val[r] /\ i'[r] = i[r]
    BY <1>2 DEF OnlyWorker
  <2>2. WorkerCalls(r) /\ WorkerStamps(r)
    BY <1>1 DEF BenchInv
  <2>3. WorkerCalls(r)'
    BY <1>1, <2>1, <2>2 DEF WorkerCalls, my_item
  <2>4. ASSUME NEW k \in 0..(ops_per_thread - 1), should_sample(Item(r, k))
        PROVE  /\ k = i'[r] /\ at'[r] = "enqueue" /\ stage'[r] # "idle"
                    => "enqueue_start" \in stamps'[Item(r, k)]
               /\ k < i'[r] \/ (k = i'[r] /\ at'[r] = "dequeue") =>
                    {"enqueue_start", "enqueue_done"} \subseteq stamps'[Item(r, k)]
    <3>1. Item(r, k) \in TestItems
      BY <1>1, SectionItem
    <3>2. stamps[Item(r, k)] \subseteq stamps'[Item(r, k)]
      BY <3>1 DEF OnlyWorker
    <3> QED
      BY <2>1, <2>2, <2>4, <3>2 DEF WorkerStamps
  <2>5. \A k : Item(r, k)' = Item(r, k)
    BY <1>1 DEF Item
  <2>6. WorkerStamps(r)'
    BY <1>1, <2>4, <2>5 DEF WorkerStamps
  <2> QED
    BY <2>3, <2>6
<1>3. \A r \in Workers' : WorkerCalls(r)' /\ WorkerStamps(r)'
  BY <1>1, <1>2
<1> QED
  BY <1>1, <1>3 DEF BenchInv

\* The items are accounted for as before, or better.
LEMMA AccountedKept ==
  ASSUME BenchInv, NEW t \in Workers, OnlyWorker(t),
         \A k \in 0..(ops_per_thread - 1) : HasPut(t, k)' =>
           HasPut(t, k) \/ InQueue(Item(t, k))' \/ Held(Item(t, k))' \/ Measured(Item(t, k))',
         \A x : InQueue(x) => InQueue(x)' \/ Held(x)',
         \A x \in TestItems : stage[t] = "deqDone" /\ val[t] = x => Held(x)' \/ Measured(x)'
  PROVE  Accounted'
<1>1. /\ ops_per_thread' = ops_per_thread /\ Workers' = Workers /\ TestItems' = TestItems
      /\ \A x : should_sample(x)' <=> should_sample(x)
      /\ process = "run"
  BY SameArgs DEF OnlyWorker
<1>2. ASSUME NEW r \in Workers, NEW k \in 0..(ops_per_thread - 1), HasPut(r, k)'
      PROVE  InQueue(Item(r, k))' \/ Held(Item(r, k))' \/ Measured(Item(r, k))'
  <2>1. Item(r, k)' = Item(r, k) /\ Item(r, k) \in TestItems
    BY <1>1, SectionItem DEF Item
  <2>2. CASE HasPut(r, k)
    <3>1. InQueue(Item(r, k)) \/ Held(Item(r, k)) \/ Measured(Item(r, k))
      BY <1>1, <2>2 DEF BenchInv, Accounted
    <3>2. CASE InQueue(Item(r, k))
      <4>1. InQueue(Item(r, k)) => InQueue(Item(r, k))' \/ Held(Item(r, k))'
        BY <2>1 DEF InQueue, Held
      <4> QED
        BY <3>2, <4>1
    <3>3. CASE Held(Item(r, k))
      <4>1. PICK d \in Workers : stage[d] = "deqDone" /\ val[d] = Item(r, k)
        BY <3>3 DEF Held
      <4>2. CASE d # t
        BY <1>1, <2>1, <4>1, <4>2 DEF OnlyWorker, Held
      <4>3. CASE d = t
        BY <1>1, <2>1, <4>1, <4>3 DEF Held, Measured
      <4> QED
        BY <4>2, <4>3
    <3>4. CASE Measured(Item(r, k))
      BY <1>1, <2>1, <3>4 DEF OnlyWorker, Measured
    <3> QED
      BY <3>1, <3>2, <3>3, <3>4
  <2>3. CASE ~HasPut(r, k)
    <3>1. r = t
      BY <1>2, <2>3 DEF OnlyWorker, HasPut
    <3> QED
      BY <1>2, <2>3, <3>1
  <2> QED
    BY <2>2, <2>3
<1> QED
  BY <1>1, <1>2 DEF Accounted

\* The number of workers that owe the queue a dequeue.
LEMMA OwingSame ==
  ASSUME BenchInv, NEW t \in Workers, OnlyWorker(t), Owes(t)' <=> Owes(t)
  PROVE  Owing' = Owing
<1>1. Workers' = Workers
  BY SameArgs DEF OnlyWorker
<1>2. \A r \in Workers : Owes(r)' <=> Owes(r)
  BY DEF OnlyWorker, Owes
<1> QED
  BY <1>1, <1>2 DEF Owing

\* A step that changes at most the entries of worker t.
LEMMA WorkerRow ==
  ASSUME BenchmarkTypeOK, BenchInv, NEW t \in Workers,
         process = "run", UNCHANGED <<process, args>>,
         at' = [at EXCEPT ![t] = at'[t]], stage' = [stage EXCEPT ![t] = stage'[t]],
         val' = [val EXCEPT ![t] = val'[t]], i' = [i EXCEPT ![t] = i'[t]],
         at'[t] \in {"start", "wait", "enqueue", "dequeue", "end"},
         stage'[t] \in BenchQueue!Stages, val'[t] \in Nat \union {None}, i'[t] \in Nat,
         queue' \in Seq(Nat), stamps' \in [TestItems -> SUBSET AllStamps],
         \A y \in TestItems : stamps[y] \subseteq stamps'[y]
  PROVE  BenchmarkTypeOK' /\ OnlyWorker(t)
<1>1. /\ stage \in [AllWorkers -> BenchQueue!Stages]
      /\ val \in [AllWorkers -> Nat \union {None}]
      /\ at \in [AllWorkers -> {"start", "wait", "enqueue", "dequeue", "end"}]
      /\ i \in [AllWorkers -> Nat]
  BY BenchTypes
<1>2. Workers \subseteq AllWorkers
  BY RunFacts
<1>3. stage' \in [AllWorkers -> BenchQueue!Stages] /\ val' \in [AllWorkers -> Nat \union {None}]
  BY <1>1
<1>4. at' \in [AllWorkers -> {"start", "wait", "enqueue", "dequeue", "end"}] /\ i' \in [AllWorkers -> Nat]
  BY <1>1
<1>5. TestItems' = TestItems
  BY SameArgs
<1>6. BenchmarkTypeOK'
  BY <1>3, <1>4, <1>5 DEF BenchmarkTypeOK, BenchQueue!TypeOK
<1>7. ASSUME NEW r \in Workers, r # t
      PROVE  at'[r] = at[r] /\ stage'[r] = stage[r] /\ val'[r] = val[r] /\ i'[r] = i[r]
  BY <1>1, <1>2, <1>7
<1>8. OnlyWorker(t)
  BY <1>7 DEF OnlyWorker
<1> QED
  BY <1>6, <1>8

\* What is known of a worker that takes a step.
LEMMA WorkerFacts ==
  ASSUME BenchmarkTypeOK, BenchInv, NEW t \in Workers, process = "run"
  PROVE  /\ WorkerCalls(t) /\ WorkerStamps(t)
         /\ at[t] \in {"start", "wait", "enqueue", "dequeue", "end"}
         /\ stage[t] \in BenchQueue!Stages /\ val[t] \in Nat \union {None} /\ i[t] \in Nat
         /\ ops_per_thread \in Nat \ {0}
         /\ at = [at EXCEPT ![t] = at[t]] /\ stage = [stage EXCEPT ![t] = stage[t]]
         /\ val = [val EXCEPT ![t] = val[t]] /\ i = [i EXCEPT ![t] = i[t]]
         /\ my_item(t) = Item(t, i[t])
<1>1. /\ stage \in [AllWorkers -> BenchQueue!Stages]
      /\ val \in [AllWorkers -> Nat \union {None}]
      /\ at \in [AllWorkers -> {"start", "wait", "enqueue", "dequeue", "end"}]
      /\ i \in [AllWorkers -> Nat]
  BY BenchTypes
<1>2. Workers \subseteq AllWorkers /\ ops_per_thread \in Nat \ {0}
  BY RunFacts
<1>3. WorkerCalls(t) /\ WorkerStamps(t)
  BY DEF BenchInv
<1> QED
  BY <1>1, <1>2, <1>3 DEF my_item, Item

LEMMA ArriveKeeps ==
  ASSUME BenchmarkTypeOK, BenchInv, NEW t \in Workers, Arrive(t)
  PROVE  BenchmarkTypeOK' /\ BenchInv'
<1>1. process = "run" /\ UNCHANGED <<process, args, q, i, stamps>> /\ at[t] = "start"
      /\ at' = [at EXCEPT ![t] = "wait"]
  BY DEF Arrive, Goto
<1>2. UNCHANGED <<queue, stage, val>>
  BY <1>1 DEF q
<1>3. /\ BenchmarkTypeOK' /\ OnlyWorker(t)
      /\ at'[t] = "wait" /\ stage'[t] = stage[t] /\ val'[t] = val[t] /\ i'[t] = i[t]
  <2>1. /\ stage' = [stage EXCEPT ![t] = stage[t]] /\ val' = [val EXCEPT ![t] = val[t]]
        /\ i' = [i EXCEPT ![t] = i[t]]
        /\ stage[t] \in BenchQueue!Stages /\ val[t] \in Nat \union {None} /\ i[t] \in Nat
    BY <1>1, <1>2, WorkerFacts
  <2>2. queue' \in Seq(Nat) /\ stamps' \in [TestItems -> SUBSET AllStamps]
        /\ \A y \in TestItems : stamps[y] \subseteq stamps'[y]
    BY <1>1, <1>2, BenchTypes
  <2>3. at'[t] = "wait" /\ stage'[t] = stage[t] /\ val'[t] = val[t] /\ i'[t] = i[t]
    BY <1>1, <2>1, <2>2, BenchTypes, RunFacts
  <2>4. /\ at' = [at EXCEPT ![t] = at'[t]] /\ stage' = [stage EXCEPT ![t] = stage'[t]]
        /\ val' = [val EXCEPT ![t] = val'[t]] /\ i' = [i EXCEPT ![t] = i'[t]]
    BY <1>1, <2>1, <2>2, <2>3
  <2> QED
    BY <1>1, <2>1, <2>2, <2>3, <2>4, WorkerRow
<1>4. WorkerCalls(t) /\ WorkerStamps(t) /\ i[t] = 0 /\ stage[t] = "idle"
  BY <1>1, WorkerFacts DEF WorkerCalls
<1>5. WorkerCalls(t)'
  BY <1>3, <1>4 DEF WorkerCalls
<1>6. WorkerStamps(t)'
  BY <1>1, <1>3, <1>4 DEF WorkerStamps, args, Item, should_sample, stride, count
<1>7. Accounted'
  <2>1. \A k \in 0..(ops_per_thread - 1) : HasPut(t, k)' => HasPut(t, k)
    BY <1>1, <1>3, <1>4 DEF HasPut
  <2>2. \A x : InQueue(x) => InQueue(x)'
    BY <1>2 DEF InQueue
  <2> QED
    BY <1>3, <1>4, <2>1, <2>2, AccountedKept
<1>8. Owing' = Owing
  BY <1>1, <1>3, <1>4, OwingSame DEF Owes
<1>9. Len(queue') = Cardinality(Owing')
  BY <1>1, <1>2, <1>8 DEF BenchInv
<1> QED
  BY <1>3, <1>5, <1>6, <1>7, <1>9, OtherWorkers

LEMMA PassBarrierKeeps ==
  ASSUME BenchmarkTypeOK, BenchInv, NEW t \in Workers, PassBarrier(t)
  PROVE  BenchmarkTypeOK' /\ BenchInv'
<1>1. process = "run" /\ UNCHANGED <<process, args, q, i, stamps>> /\ at[t] = "wait"
      /\ at' = [at EXCEPT ![t] = "enqueue"]
  BY DEF PassBarrier, Goto
<1>2. UNCHANGED <<queue, stage, val>>
  BY <1>1 DEF q
<1>3. /\ BenchmarkTypeOK' /\ OnlyWorker(t)
      /\ at'[t] = "enqueue" /\ stage'[t] = stage[t] /\ val'[t] = val[t] /\ i'[t] = i[t]
  <2>1. /\ stage' = [stage EXCEPT ![t] = stage[t]] /\ val' = [val EXCEPT ![t] = val[t]]
        /\ i' = [i EXCEPT ![t] = i[t]]
        /\ stage[t] \in BenchQueue!Stages /\ val[t] \in Nat \union {None} /\ i[t] \in Nat
    BY <1>1, <1>2, WorkerFacts
  <2>2. queue' \in Seq(Nat) /\ stamps' \in [TestItems -> SUBSET AllStamps]
        /\ \A y \in TestItems : stamps[y] \subseteq stamps'[y]
    BY <1>1, <1>2, BenchTypes
  <2>3. at'[t] = "enqueue" /\ stage'[t] = stage[t] /\ val'[t] = val[t] /\ i'[t] = i[t]
    BY <1>1, <2>1, <2>2, BenchTypes, RunFacts
  <2>4. /\ at' = [at EXCEPT ![t] = at'[t]] /\ stage' = [stage EXCEPT ![t] = stage'[t]]
        /\ val' = [val EXCEPT ![t] = val'[t]] /\ i' = [i EXCEPT ![t] = i'[t]]
    BY <1>1, <2>1, <2>2, <2>3
  <2> QED
    BY <1>1, <2>1, <2>2, <2>3, <2>4, WorkerRow
<1>4. WorkerCalls(t) /\ WorkerStamps(t) /\ i[t] = 0 /\ stage[t] = "idle"
      /\ ops_per_thread \in Nat \ {0}
  BY <1>1, WorkerFacts DEF WorkerCalls
<1>5. WorkerCalls(t)'
  BY <1>1, <1>3, <1>4 DEF WorkerCalls, args
<1>6. WorkerStamps(t)'
  BY <1>1, <1>3, <1>4 DEF WorkerStamps, args, Item, should_sample, stride, count
<1>7. Accounted'
  <2>1. \A k \in 0..(ops_per_thread - 1) : HasPut(t, k)' => HasPut(t, k)
    BY <1>1, <1>3, <1>4 DEF HasPut
  <2>2. \A x : InQueue(x) => InQueue(x)'
    BY <1>2 DEF InQueue
  <2> QED
    BY <1>3, <1>4, <2>1, <2>2, AccountedKept
<1>8. Owing' = Owing
  BY <1>1, <1>3, <1>4, OwingSame DEF Owes
<1>9. Len(queue') = Cardinality(Owing')
  BY <1>1, <1>2, <1>8 DEF BenchInv
<1> QED
  BY <1>3, <1>5, <1>6, <1>7, <1>9, OtherWorkers

\* A worker that looks for an item and has none yet: CallDequeue, DequeueFails,
\* ObserveEmpty, Retry.
LEMMA AttemptKeeps ==
  ASSUME BenchmarkTypeOK, BenchInv, NEW t \in Workers, process = "run",
         UNCHANGED <<process, args, queue, val, at, i, stamps>>,
         at[t] = "dequeue", stage[t] \in {"idle", "deq", "deqEmpty"},
         NEW s \in {"idle", "deq", "deqEmpty"}, stage' = [stage EXCEPT ![t] = s]
  PROVE  BenchmarkTypeOK' /\ BenchInv'
<1>1. s \in BenchQueue!Stages
  BY DEF BenchQueue!Stages
<1>2. /\ BenchmarkTypeOK' /\ OnlyWorker(t)
      /\ at'[t] = "dequeue" /\ stage'[t] = s /\ val'[t] = val[t] /\ i'[t] = i[t]
  <2>1. /\ at' = [at EXCEPT ![t] = "dequeue"] /\ val' = [val EXCEPT ![t] = val[t]]
        /\ i' = [i EXCEPT ![t] = i[t]] /\ UNCHANGED <<process, args>>
        /\ val[t] \in Nat \union {None} /\ i[t] \in Nat
    BY WorkerFacts
  <2>2. queue' \in Seq(Nat) /\ stamps' \in [TestItems -> SUBSET AllStamps]
        /\ \A y \in TestItems : stamps[y] \subseteq stamps'[y]
    BY BenchTypes
  <2>3. at'[t] = "dequeue" /\ stage'[t] = s /\ val'[t] = val[t] /\ i'[t] = i[t]
    BY <1>1, <2>1, <2>2, BenchTypes, RunFacts
  <2>4. /\ at' = [at EXCEPT ![t] = at'[t]] /\ stage' = [stage EXCEPT ![t] = stage'[t]]
        /\ val' = [val EXCEPT ![t] = val'[t]] /\ i' = [i EXCEPT ![t] = i'[t]]
    BY <1>1, <2>1, <2>2, <2>3
  <2> QED
    BY <1>1, <2>1, <2>2, <2>3, <2>4, WorkerRow
<1>3. WorkerCalls(t) /\ WorkerStamps(t)
  BY WorkerFacts
<1>4. WorkerCalls(t)'
  BY <1>2, <1>3 DEF WorkerCalls, args
<1>5. WorkerStamps(t)'
  BY <1>2, <1>3 DEF WorkerStamps, args, Item, should_sample, stride, count
<1>6. Accounted'
  <2>1. \A k \in 0..(ops_per_thread - 1) : HasPut(t, k)' => HasPut(t, k)
    BY <1>2 DEF HasPut
  <2>2. \A x : InQueue(x) => InQueue(x)'
    BY DEF InQueue
  <2>3. stage[t] # "deqDone"
    OBVIOUS
  <2> QED
    BY <1>2, <2>1, <2>2, <2>3, AccountedKept
<1>7. Owing' = Owing
  <2>1. Owes(t) /\ Owes(t)'
    BY <1>2 DEF Owes
  <2> QED
    BY <1>2, <2>1, OwingSame
<1>8. Len(queue') = Cardinality(Owing')
  BY <1>7 DEF BenchInv
<1> QED
  BY <1>2, <1>4, <1>5, <1>6, <1>8, OtherWorkers

LEMMA CallEnqueueKeeps ==
  ASSUME BenchmarkTypeOK, BenchInv, NEW t \in Workers, CallEnqueue(t)
  PROVE  BenchmarkTypeOK' /\ BenchInv'
<1>1. process = "run" /\ UNCHANGED <<process, args, queue, i>> /\ at[t] = "enqueue"
      /\ at' = [at EXCEPT ![t] = "enqueue"] /\ stage[t] = "idle"
      /\ stage' = [stage EXCEPT ![t] = "enq"] /\ val' = [val EXCEPT ![t] = my_item(t)]
      /\ Stamp(my_item(t), {"enqueue_start"})
  BY DEF CallEnqueue, Goto, BenchQueue!CallEnqueue, BenchQueue!Pass
<1>2. /\ WorkerCalls(t) /\ WorkerStamps(t) /\ i[t] < ops_per_thread /\ i[t] \in Nat
      /\ ops_per_thread \in Nat \ {0} /\ i = [i EXCEPT ![t] = i[t]]
      /\ my_item(t) = Item(t, i[t]) /\ i[t] \in 0..(ops_per_thread - 1)
  <2>1. WorkerCalls(t) /\ WorkerStamps(t) /\ i[t] \in Nat
        /\ ops_per_thread \in Nat \ {0} /\ i = [i EXCEPT ![t] = i[t]]
        /\ my_item(t) = Item(t, i[t])
    BY <1>1, WorkerFacts
  <2>2. i[t] < ops_per_thread
    BY <1>1, <2>1 DEF WorkerCalls
  <2> QED
    BY <2>1, <2>2
<1>3. my_item(t) \in TestItems /\ my_item(t) \in Nat
  BY <1>1, <1>2, SectionItem
<1>4. /\ stamps' \in [TestItems -> SUBSET AllStamps]
      /\ \A y \in TestItems : stamps[y] \subseteq stamps'[y]
      /\ should_sample(my_item(t)) => "enqueue_start" \in stamps'[my_item(t)]
  <2>1. {"enqueue_start"} \in SUBSET AllStamps
    BY DEF AllStamps
  <2> QED
    BY <1>1, <1>3, <2>1, StampGrows
<1>5. /\ BenchmarkTypeOK' /\ OnlyWorker(t)
      /\ at'[t] = "enqueue" /\ stage'[t] = "enq" /\ val'[t] = my_item(t) /\ i'[t] = i[t]
  <2>1. queue' \in Seq(Nat) /\ i' = [i EXCEPT ![t] = i[t]]
    BY <1>1, <1>2, BenchTypes
  <2>2. "enq" \in BenchQueue!Stages
    BY DEF BenchQueue!Stages
  <2>3. at'[t] = "enqueue" /\ stage'[t] = "enq" /\ val'[t] = my_item(t) /\ i'[t] = i[t]
    BY <1>1, <1>2, <1>3, <1>4, <2>1, <2>2, BenchTypes, RunFacts
  <2>4. /\ at' = [at EXCEPT ![t] = at'[t]] /\ stage' = [stage EXCEPT ![t] = stage'[t]]
        /\ val' = [val EXCEPT ![t] = val'[t]] /\ i' = [i EXCEPT ![t] = i'[t]]
    BY <1>1, <1>2, <1>3, <1>4, <2>1, <2>2, <2>3
  <2> QED
    BY <1>1, <1>2, <1>3, <1>4, <2>1, <2>2, <2>3, <2>4, WorkerRow
<1>6. WorkerCalls(t)'
  BY <1>1, <1>2, <1>5 DEF WorkerCalls, my_item, args
<1>7. WorkerStamps(t)'
  <2>1. ASSUME NEW k \in 0..(ops_per_thread - 1), should_sample(Item(t, k))
        PROVE  /\ k = i[t] => "enqueue_start" \in stamps'[Item(t, k)]
               /\ k < i[t] => {"enqueue_start", "enqueue_done"} \subseteq stamps'[Item(t, k)]
    <3>1. Item(t, k) \in TestItems
      BY <1>1, SectionItem
    <3> QED
      BY <1>2, <1>4, <2>1, <3>1 DEF WorkerStamps
  <2>2. \A k : Item(t, k)' = Item(t, k) /\ (should_sample(Item(t, k))' <=> should_sample(Item(t, k)))
    BY <1>1 DEF Item, args, should_sample, stride, count
  <2> QED
    BY <1>1, <1>5, <2>1, <2>2 DEF WorkerStamps, args
<1>8. Accounted'
  <2>1. \A k \in 0..(ops_per_thread - 1) : HasPut(t, k)' => HasPut(t, k)
    BY <1>1, <1>5 DEF HasPut
  <2>2. \A x : InQueue(x) => InQueue(x)'
    BY <1>1 DEF InQueue
  <2> QED
    BY <1>1, <1>5, <2>1, <2>2, AccountedKept
<1>9. Len(queue') = Cardinality(Owing')
  <2>1. Owing' = Owing
    BY <1>1, <1>5, OwingSame DEF Owes
  <2> QED
    BY <1>1, <2>1 DEF BenchInv
<1> QED
  BY <1>5, <1>6, <1>7, <1>8, <1>9, OtherWorkers

LEMMA EnqueueReturnsKeeps ==
  ASSUME BenchmarkTypeOK, BenchInv, NEW t \in Workers, EnqueueReturns(t)
  PROVE  BenchmarkTypeOK' /\ BenchInv'
<1>1. process = "run" /\ UNCHANGED <<process, args, queue, i>> /\ at[t] = "enqueue"
      /\ at' = [at EXCEPT ![t] = "dequeue"] /\ stage[t] = "enqDone"
      /\ stage' = [stage EXCEPT ![t] = "idle"] /\ val' = [val EXCEPT ![t] = None]
      /\ Stamp(my_item(t), {"enqueue_done"})
  BY DEF EnqueueReturns, Goto, BenchQueue!ReturnEnqueue, BenchQueue!Pass
<1>2. /\ WorkerCalls(t) /\ WorkerStamps(t) /\ i[t] < ops_per_thread /\ i[t] \in Nat
      /\ ops_per_thread \in Nat \ {0} /\ i = [i EXCEPT ![t] = i[t]]
      /\ my_item(t) = Item(t, i[t]) /\ i[t] \in 0..(ops_per_thread - 1)
  <2>1. WorkerCalls(t) /\ WorkerStamps(t) /\ i[t] \in Nat
        /\ ops_per_thread \in Nat \ {0} /\ i = [i EXCEPT ![t] = i[t]]
        /\ my_item(t) = Item(t, i[t])
    BY <1>1, WorkerFacts
  <2>2. i[t] < ops_per_thread
    BY <1>1, <2>1 DEF WorkerCalls
  <2> QED
    BY <2>1, <2>2
<1>3. my_item(t) \in TestItems
  BY <1>1, <1>2, SectionItem
<1>4. /\ stamps' \in [TestItems -> SUBSET AllStamps]
      /\ \A y \in TestItems : stamps[y] \subseteq stamps'[y]
      /\ should_sample(my_item(t)) => "enqueue_done" \in stamps'[my_item(t)]
  <2>1. {"enqueue_done"} \in SUBSET AllStamps
    BY DEF AllStamps
  <2> QED
    BY <1>1, <1>3, <2>1, StampGrows
<1>5. /\ BenchmarkTypeOK' /\ OnlyWorker(t)
      /\ at'[t] = "dequeue" /\ stage'[t] = "idle" /\ val'[t] = None /\ i'[t] = i[t]
  <2>1. queue' \in Seq(Nat) /\ i' = [i EXCEPT ![t] = i[t]]
    BY <1>1, <1>2, BenchTypes
  <2>2. "idle" \in BenchQueue!Stages
    BY DEF BenchQueue!Stages
  <2>3. at'[t] = "dequeue" /\ stage'[t] = "idle" /\ val'[t] = None /\ i'[t] = i[t]
    BY <1>1, <1>2, <1>4, <2>1, <2>2, BenchTypes, RunFacts
  <2>4. /\ at' = [at EXCEPT ![t] = at'[t]] /\ stage' = [stage EXCEPT ![t] = stage'[t]]
        /\ val' = [val EXCEPT ![t] = val'[t]] /\ i' = [i EXCEPT ![t] = i'[t]]
    BY <1>1, <1>2, <1>4, <2>1, <2>2, <2>3
  <2> QED
    BY <1>1, <1>2, <1>4, <2>1, <2>2, <2>3, <2>4, WorkerRow
<1>6. WorkerCalls(t)'
  BY <1>1, <1>2, <1>5 DEF WorkerCalls, args
<1>7. WorkerStamps(t)'
  <2>1. ASSUME NEW k \in 0..(ops_per_thread - 1), should_sample(Item(t, k)), k <= i[t]
        PROVE  {"enqueue_start", "enqueue_done"} \subseteq stamps'[Item(t, k)]
    <3>1. Item(t, k) \in TestItems
      BY <1>1, SectionItem
    <3>2. CASE k < i[t]
      BY <1>2, <1>4, <2>1, <3>1, <3>2 DEF WorkerStamps
    <3>3. CASE k = i[t]
      <4>1. "enqueue_start" \in stamps[Item(t, k)]
        BY <1>1, <1>2, <2>1, <3>3 DEF WorkerStamps
      <4> QED
        BY <1>2, <1>4, <2>1, <3>1, <3>3, <4>1
    <3> QED
      BY <1>2, <2>1, <3>2, <3>3
  <2>2. \A k : Item(t, k)' = Item(t, k) /\ (should_sample(Item(t, k))' <=> should_sample(Item(t, k)))
    BY <1>1 DEF Item, args, should_sample, stride, count
  <2> QED
    BY <1>1, <1>2, <1>5, <2>1, <2>2 DEF WorkerStamps, args
<1>8. Accounted'
  <2>1. \A k \in 0..(ops_per_thread - 1) : HasPut(t, k)' => HasPut(t, k)
    BY <1>1, <1>5 DEF HasPut
  <2>2. \A x : InQueue(x) => InQueue(x)'
    BY <1>1 DEF InQueue
  <2> QED
    BY <1>1, <1>5, <2>1, <2>2, AccountedKept
<1>9. Len(queue') = Cardinality(Owing')
  <2>1. Owing' = Owing
    BY <1>1, <1>5, OwingSame DEF Owes
  <2> QED
    BY <1>1, <2>1 DEF BenchInv
<1> QED
  BY <1>5, <1>6, <1>7, <1>8, <1>9, OtherWorkers

LEMMA DequeueReturnsKeeps ==
  ASSUME BenchmarkTypeOK, BenchInv, NEW t \in Workers, DequeueReturns(t)
  PROVE  BenchmarkTypeOK' /\ BenchInv'
<1> DEFINE a == IF i[t] + 1 < ops_per_thread THEN "enqueue" ELSE "end"
<1>1. process = "run" /\ UNCHANGED <<process, args, queue>> /\ at[t] = "dequeue"
      /\ at' = [at EXCEPT ![t] = a] /\ stage[t] = "deqDone"
      /\ stage' = [stage EXCEPT ![t] = "idle"] /\ val' = [val EXCEPT ![t] = None]
      /\ i' = [i EXCEPT ![t] = i[t] + 1]
      /\ Stamp(val[t], {"dequeue_start", "dequeue_done"})
  BY DEF DequeueReturns, Goto, BenchQueue!ReturnDequeue, BenchQueue!Pass
<1>2. /\ WorkerCalls(t) /\ WorkerStamps(t) /\ i[t] \in Nat
      /\ ops_per_thread \in Nat \ {0}
  BY <1>1, WorkerFacts
<1>3. i[t] < ops_per_thread
  BY <1>1, <1>2 DEF WorkerCalls
<1>4. /\ stamps' \in [TestItems -> SUBSET AllStamps]
      /\ \A y \in TestItems : stamps[y] \subseteq stamps'[y]
      /\ val[t] \in TestItems /\ should_sample(val[t]) =>
           {"dequeue_start", "dequeue_done"} \subseteq stamps'[val[t]]
  <2>1. {"dequeue_start", "dequeue_done"} \in SUBSET AllStamps
    BY DEF AllStamps
  <2> QED
    BY <1>1, <2>1, StampGrows
<1>5. a \in {"start", "wait", "enqueue", "dequeue", "end"} /\ a \in {"enqueue", "end"}
      /\ (a = "enqueue" => i[t] + 1 < ops_per_thread) /\ (a = "end" => i[t] + 1 = ops_per_thread)
  BY <1>2, <1>3
<1> HIDE DEF a
<1>6. /\ BenchmarkTypeOK' /\ OnlyWorker(t)
      /\ at'[t] = a /\ stage'[t] = "idle" /\ val'[t] = None /\ i'[t] = i[t] + 1
  <2>1. queue' \in Seq(Nat) /\ i[t] + 1 \in Nat
    BY <1>1, <1>2, BenchTypes
  <2>2. "idle" \in BenchQueue!Stages
    BY DEF BenchQueue!Stages
  <2>3. at'[t] = a /\ stage'[t] = "idle" /\ val'[t] = None /\ i'[t] = i[t] + 1
    BY <1>1, <1>2, <1>4, <1>5, <2>1, <2>2, BenchTypes, RunFacts
  <2>4. /\ at' = [at EXCEPT ![t] = at'[t]] /\ stage' = [stage EXCEPT ![t] = stage'[t]]
        /\ val' = [val EXCEPT ![t] = val'[t]] /\ i' = [i EXCEPT ![t] = i'[t]]
    BY <1>1, <1>2, <1>4, <1>5, <2>1, <2>2, <2>3
  <2> QED
    BY <1>1, <1>2, <1>4, <1>5, <2>1, <2>2, <2>3, <2>4, WorkerRow
<1>7. WorkerCalls(t)'
  BY <1>1, <1>2, <1>5, <1>6 DEF WorkerCalls, args
<1>8. WorkerStamps(t)'
  <2>1. ASSUME NEW k \in 0..(ops_per_thread - 1), should_sample(Item(t, k)), k < i[t] + 1
        PROVE  {"enqueue_start", "enqueue_done"} \subseteq stamps'[Item(t, k)]
    <3>1. Item(t, k) \in TestItems
      BY <1>1, SectionItem
    <3>2. k < i[t] \/ k = i[t]
      BY <1>2, <2>1
    <3> QED
      BY <1>1, <1>2, <1>4, <2>1, <3>1, <3>2 DEF WorkerStamps
  <2>2. \A k : Item(t, k)' = Item(t, k) /\ (should_sample(Item(t, k))' <=> should_sample(Item(t, k)))
    BY <1>1 DEF Item, args, should_sample, stride, count
  <2> QED
    BY <1>1, <1>2, <1>5, <1>6, <2>1, <2>2 DEF WorkerStamps, args
<1>9. Accounted'
  <2>1. \A k \in 0..(ops_per_thread - 1) : HasPut(t, k)' => HasPut(t, k)
    BY <1>1, <1>2, <1>5, <1>6 DEF HasPut
  <2>2. \A x : InQueue(x) => InQueue(x)'
    BY <1>1 DEF InQueue
  <2>3. \A x \in TestItems : val[t] = x => Measured(x)'
    BY <1>1, <1>4 DEF Measured, args, should_sample, stride, count
  <2> QED
    BY <1>1, <1>6, <2>1, <2>2, <2>3, AccountedKept
<1>10. Len(queue') = Cardinality(Owing')
  <2>1. Owing' = Owing
    BY <1>1, <1>5, <1>6, OwingSame DEF Owes
  <2> QED
    BY <1>1, <2>1 DEF BenchInv
<1> QED
  BY <1>6, <1>7, <1>8, <1>9, <1>10, OtherWorkers

LEMMA CommitEnqueueKeeps ==
  ASSUME BenchmarkTypeOK, BenchInv, NEW t \in Workers, process = "run",
         BenchQueue!CommitEnqueue(t), UNCHANGED <<process, args, at, i, stamps>>
  PROVE  BenchmarkTypeOK' /\ BenchInv'
<1>1. stage[t] = "enq" /\ stage' = [stage EXCEPT ![t] = "enqDone"] /\ val' = val
      /\ queue' = Append(queue, val[t])
  BY DEF BenchQueue!CommitEnqueue, BenchQueue!Pass
<1>2. /\ WorkerCalls(t) /\ WorkerStamps(t) /\ i[t] \in Nat /\ at[t] = "enqueue"
      /\ i[t] < ops_per_thread /\ val[t] = my_item(t) /\ my_item(t) = Item(t, i[t])
      /\ ops_per_thread \in Nat \ {0} /\ i[t] \in 0..(ops_per_thread - 1)
  <2>1. WorkerCalls(t) /\ WorkerStamps(t) /\ i[t] \in Nat
        /\ at[t] \in {"start", "wait", "enqueue", "dequeue", "end"}
        /\ ops_per_thread \in Nat \ {0} /\ my_item(t) = Item(t, i[t])
    BY WorkerFacts
  <2>2. at[t] = "enqueue"
    BY <1>1, <2>1 DEF WorkerCalls
  <2>3. i[t] < ops_per_thread /\ val[t] = my_item(t)
    BY <1>1, <2>1, <2>2 DEF WorkerCalls
  <2> QED
    BY <2>1, <2>2, <2>3
<1>3. my_item(t) \in Nat /\ queue \in Seq(Nat)
  BY <1>2, SectionItem, BenchTypes
<1>4. queue' \in Seq(Nat) /\ Len(queue') = Len(queue) + 1 /\ queue'[Len(queue) + 1] = my_item(t)
      /\ \A j \in 1..Len(queue) : queue'[j] = queue[j]
  BY <1>1, <1>2, <1>3
<1>5. /\ BenchmarkTypeOK' /\ OnlyWorker(t)
      /\ at'[t] = "enqueue" /\ stage'[t] = "enqDone" /\ val'[t] = my_item(t) /\ i'[t] = i[t]
  <2>1. /\ at' = [at EXCEPT ![t] = "enqueue"] /\ val' = [val EXCEPT ![t] = my_item(t)]
        /\ i' = [i EXCEPT ![t] = i[t]] /\ UNCHANGED <<process, args>>
    BY <1>1, <1>2, WorkerFacts
  <2>2. stamps' \in [TestItems -> SUBSET AllStamps]
        /\ \A y \in TestItems : stamps[y] \subseteq stamps'[y]
    BY BenchTypes
  <2>3. "enqDone" \in BenchQueue!Stages
    BY DEF BenchQueue!Stages
  <2>4. at'[t] = "enqueue" /\ stage'[t] = "enqDone" /\ val'[t] = my_item(t) /\ i'[t] = i[t]
    BY <1>1, <1>2, <1>3, <1>4, <2>1, <2>2, <2>3, BenchTypes, RunFacts
  <2>5. /\ at' = [at EXCEPT ![t] = at'[t]] /\ stage' = [stage EXCEPT ![t] = stage'[t]]
        /\ val' = [val EXCEPT ![t] = val'[t]] /\ i' = [i EXCEPT ![t] = i'[t]]
    BY <1>1, <1>2, <1>3, <1>4, <2>1, <2>2, <2>3, <2>4
  <2> QED
    BY <1>1, <1>2, <1>3, <1>4, <2>1, <2>2, <2>3, <2>4, <2>5, WorkerRow
<1>6. WorkerCalls(t)'
  BY <1>1, <1>2, <1>5 DEF WorkerCalls, my_item, args
<1>7. WorkerStamps(t)'
  BY <1>1, <1>2, <1>5 DEF WorkerStamps, args, Item, should_sample, stride, count
<1>8. Accounted'
  <2>1. ASSUME NEW k \in 0..(ops_per_thread - 1), HasPut(t, k)'
        PROVE  HasPut(t, k) \/ InQueue(Item(t, k))'
    <3>1. k < i[t] \/ k = i[t]
      BY <1>5, <2>1 DEF HasPut
    <3>2. CASE k = i[t]
      <4>1. Item(t, k)' = my_item(t)
        BY <1>2, <3>2 DEF Item, args
      <4>2. Len(queue) + 1 \in 1..Len(queue')
        BY <1>3, <1>4
      <4> QED
        BY <1>4, <4>1, <4>2 DEF InQueue
    <3> QED
      BY <3>1, <3>2 DEF HasPut
  <2>2. ASSUME NEW x, InQueue(x) PROVE InQueue(x)'
    <3>1. PICK j \in 1..Len(queue) : queue[j] = x
      BY <2>2 DEF InQueue
    <3>2. j \in 1..Len(queue') /\ queue'[j] = x
      BY <1>3, <1>4, <3>1
    <3> QED
      BY <3>2 DEF InQueue
  <2> QED
    BY <1>1, <1>5, <2>1, <2>2, AccountedKept
<1>9. Len(queue') = Cardinality(Owing')
  <2>1. IsFiniteSet(Owing) /\ Workers' = Workers
    BY RunFacts, SameArgs
  <2>2. t \notin Owing
    BY <1>1, <1>2 DEF Owing, Owes
  <2>3. Owing' = Owing \union {t}
    BY <1>5, <2>1 DEF Owing, Owes, OnlyWorker
  <2>4. Cardinality(Owing') = Cardinality(Owing) + 1
    BY <2>1, <2>2, <2>3, FS_AddElement
  <2> QED
    BY <1>4, <2>4 DEF BenchInv
<1> QED
  BY <1>5, <1>6, <1>7, <1>8, <1>9, OtherWorkers

LEMMA CommitDequeueKeeps ==
  ASSUME BenchmarkTypeOK, BenchInv, NEW t \in Workers, process = "run",
         BenchQueue!CommitDequeue(t), UNCHANGED <<process, args, at, i, stamps>>
  PROVE  BenchmarkTypeOK' /\ BenchInv'
<1>1. stage[t] = "deq" /\ stage' = [stage EXCEPT ![t] = "deqDone"] /\ queue # <<>>
      /\ val' = [val EXCEPT ![t] = Head(queue)] /\ queue' = Tail(queue)
  BY DEF BenchQueue!CommitDequeue, BenchQueue!Pass
<1>2. /\ WorkerCalls(t) /\ WorkerStamps(t) /\ i[t] \in Nat /\ at[t] = "dequeue"
      /\ i[t] < ops_per_thread /\ ops_per_thread \in Nat \ {0}
  <2>1. WorkerCalls(t) /\ WorkerStamps(t) /\ i[t] \in Nat
        /\ at[t] \in {"start", "wait", "enqueue", "dequeue", "end"}
        /\ ops_per_thread \in Nat \ {0}
    BY WorkerFacts
  <2>2. at[t] = "dequeue"
    BY <1>1, <2>1 DEF WorkerCalls
  <2> QED
    BY <1>1, <2>1, <2>2 DEF WorkerCalls
<1>3. /\ queue \in Seq(Nat) /\ Head(queue) \in Nat /\ Head(queue) = queue[1]
      /\ queue' \in Seq(Nat) /\ Len(queue') = Len(queue) - 1 /\ Len(queue) >= 1
      /\ \A j \in 1..Len(queue') : queue'[j] = queue[j + 1]
  BY <1>1, BenchTypes
<1>4. /\ BenchmarkTypeOK' /\ OnlyWorker(t)
      /\ at'[t] = "dequeue" /\ stage'[t] = "deqDone" /\ val'[t] = queue[1] /\ i'[t] = i[t]
  <2>1. /\ at' = [at EXCEPT ![t] = "dequeue"] /\ val' = [val EXCEPT ![t] = queue[1]]
        /\ i' = [i EXCEPT ![t] = i[t]] /\ UNCHANGED <<process, args>>
    BY <1>1, <1>2, <1>3, WorkerFacts
  <2>2. stamps' \in [TestItems -> SUBSET AllStamps]
        /\ \A y \in TestItems : stamps[y] \subseteq stamps'[y]
    BY BenchTypes
  <2>3. "deqDone" \in BenchQueue!Stages /\ queue[1] \in Nat
    BY <1>3 DEF BenchQueue!Stages
  <2>4. at'[t] = "dequeue" /\ stage'[t] = "deqDone" /\ val'[t] = queue[1] /\ i'[t] = i[t]
    BY <1>1, <1>2, <1>3, <2>1, <2>2, <2>3, BenchTypes, RunFacts
  <2>5. /\ at' = [at EXCEPT ![t] = at'[t]] /\ stage' = [stage EXCEPT ![t] = stage'[t]]
        /\ val' = [val EXCEPT ![t] = val'[t]] /\ i' = [i EXCEPT ![t] = i'[t]]
    BY <1>1, <1>2, <1>3, <2>1, <2>2, <2>3, <2>4
  <2> QED
    BY <1>1, <1>2, <1>3, <2>1, <2>2, <2>3, <2>4, <2>5, WorkerRow
<1>5. WorkerCalls(t)'
  BY <1>1, <1>2, <1>3, <1>4 DEF WorkerCalls, args
<1>6. WorkerStamps(t)'
  BY <1>1, <1>2, <1>4 DEF WorkerStamps, args, Item, should_sample, stride, count
<1>7. Accounted'
  <2>1. \A k \in 0..(ops_per_thread - 1) : HasPut(t, k)' => HasPut(t, k)
    BY <1>1, <1>2, <1>4 DEF HasPut
  <2>2. ASSUME NEW x, InQueue(x) PROVE InQueue(x)' \/ Held(x)'
    <3>1. PICK j \in 1..Len(queue) : queue[j] = x
      BY <2>2 DEF InQueue
    <3>2. CASE j = 1
      <4>1. t \in Workers'
        BY SameArgs
      <4> QED
        BY <1>4, <3>1, <3>2, <4>1 DEF Held
    <3>3. CASE j # 1
      <4>1. j - 1 \in 1..Len(queue') /\ queue'[j - 1] = x
        <5>1. j - 1 \in 1..Len(queue') /\ (j - 1) + 1 = j
          BY <1>3, <3>3
        <5> QED
          BY <1>3, <3>1, <5>1
      <4> QED
        BY <4>1 DEF InQueue
    <3> QED
      BY <3>2, <3>3
  <2> QED
    BY <1>1, <1>4, <2>1, <2>2, AccountedKept
<1>8. Len(queue') = Cardinality(Owing')
  <2>1. IsFiniteSet(Owing) /\ Workers' = Workers
    BY RunFacts, SameArgs
  <2>2. t \in Owing
    BY <1>1, <1>2 DEF Owing, Owes
  <2>3. Owing' = Owing \ {t}
    BY <1>4, <2>1 DEF Owing, Owes, OnlyWorker
  <2>4. Cardinality(Owing') = Cardinality(Owing) - 1
    BY <2>1, <2>2, <2>3, FS_RemoveElement
  <2> QED
    BY <1>3, <2>4 DEF BenchInv
<1> QED
  BY <1>4, <1>5, <1>6, <1>7, <1>8, OtherWorkers

\* A step of a worker, whichever it is.
LEMMA WorkerKeeps ==
  ASSUME BenchmarkTypeOK, BenchInv, NEW t, Worker(t)
  PROVE  BenchmarkTypeOK' /\ BenchInv' /\ process = "run" /\ process' = "run"
<1>1. t \in Workers
  BY DEF Worker
<1>2. CASE Arrive(t)
  BY <1>1, <1>2, ArriveKeeps DEF Arrive, Goto
<1>3. CASE PassBarrier(t)
  BY <1>1, <1>3, PassBarrierKeeps DEF PassBarrier, Goto
<1>4. CASE CallEnqueue(t)
  BY <1>1, <1>4, CallEnqueueKeeps DEF CallEnqueue, Goto
<1>5. CASE EnqueueReturns(t)
  BY <1>1, <1>5, EnqueueReturnsKeeps DEF EnqueueReturns, Goto
<1>6. CASE DequeueReturns(t)
  BY <1>1, <1>6, DequeueReturnsKeeps DEF DequeueReturns, Goto
<1>7. CASE CallDequeue(t)
  <2>1. /\ process = "run" /\ UNCHANGED <<process, args, queue, val, i, stamps>>
        /\ at[t] = "dequeue" /\ at' = [at EXCEPT ![t] = "dequeue"]
        /\ stage[t] = "idle" /\ stage' = [stage EXCEPT ![t] = "deq"]
    BY <1>7 DEF CallDequeue, Goto, BenchQueue!CallDequeue, BenchQueue!Pass
  <2>2. at' = at
    BY <1>1, <2>1, WorkerFacts
  <2> QED
    BY <1>1, <2>1, <2>2, AttemptKeeps
<1>8. CASE DequeueFails(t)
  <2>1. /\ process = "run" /\ UNCHANGED <<process, args, queue, val, i, stamps>>
        /\ at[t] = "dequeue" /\ at' = [at EXCEPT ![t] = "dequeue"]
        /\ stage[t] = "deqEmpty" /\ stage' = [stage EXCEPT ![t] = "idle"]
    BY <1>8 DEF DequeueFails, Goto, BenchQueue!ReturnEmpty, BenchQueue!Pass
  <2>2. at' = at
    BY <1>1, <2>1, WorkerFacts
  <2> QED
    BY <1>1, <2>1, <2>2, AttemptKeeps
<1>9. CASE InCall(t)
  <2>1. process = "run" /\ UNCHANGED <<process, args, at, i, stamps>>
    BY <1>9 DEF InCall
  <2>2. CASE BenchQueue!CommitEnqueue(t)
    BY <1>1, <2>1, <2>2, CommitEnqueueKeeps
  <2>3. CASE BenchQueue!CommitDequeue(t)
    BY <1>1, <2>1, <2>3, CommitDequeueKeeps
  <2>4. CASE BenchQueue!ObserveEmpty(t) \/ BenchQueue!Retry(t)
    <3>1. /\ UNCHANGED <<queue, val>> /\ stage[t] \in {"deq", "deqEmpty"}
          /\ \E s \in {"deq", "deqEmpty"} : stage' = [stage EXCEPT ![t] = s]
      BY <2>4 DEF BenchQueue!ObserveEmpty, BenchQueue!Retry, BenchQueue!Pass
    <3>2. at[t] = "dequeue"
      BY <1>1, <2>1, <3>1, WorkerFacts DEF WorkerCalls
    <3> QED
      BY <1>1, <2>1, <3>1, <3>2, AttemptKeeps
  <2> QED
    BY <1>9, <2>1, <2>2, <2>3, <2>4 DEF InCall
<1> QED
  BY <1>2, <1>3, <1>4, <1>5, <1>6, <1>7, <1>8, <1>9 DEF Worker

----------------------------------------------------------------------------
(* A process from its start to its end *)

LEMMA FreshTypes ==
  ASSUME NEW p \in {"off", "run"}, NEW m \in Nat, NEW ops \in Nat, Fresh(p, m, ops)
  PROVE  /\ BenchmarkTypeOK' /\ process' = p /\ n_threads' = m /\ ops_per_thread' = ops
         /\ queue' = <<>> /\ \A t \in AllWorkers : at'[t] = "start" /\ stage'[t] = "idle" /\ i'[t] = 0
<1>1. /\ queue' \in Seq(Nat) /\ stage' \in [AllWorkers -> BenchQueue!Stages]
      /\ val' \in [AllWorkers -> Nat \union {None}]
  BY DEF Fresh, BenchQueue!Stages
<1>2. stamps' \in [TestItems' -> SUBSET AllStamps]
  <2>1. \A a, b \in Nat : a * b = b * a
    BY SMT
  <2>2. TestItems' = 0..(m * ops - 1)
    BY <2>1 DEF Fresh, TestItems, count
  <2> QED
    BY <2>2 DEF Fresh
<1> QED
  BY <1>1, <1>2 DEF Fresh, BenchmarkTypeOK, BenchQueue!TypeOK

LEMMA ExitKeeps ==
  ASSUME Exit
  PROVE  BenchmarkTypeOK' /\ BenchInv' /\ process' = "off"
BY FreshTypes DEF Exit, BenchInv

LEMMA LaunchKeeps ==
  ASSUME NEW k \in DOMAIN THREADS, Launch(THREADS[k], TOTAL_OPS \div THREADS[k])
  PROVE  BenchmarkTypeOK' /\ BenchInv' /\ process = "off" /\ process' = "run"
<1> DEFINE m == THREADS[k]
           ops == TOTAL_OPS \div THREADS[k]
<1>1. m \in 1..MaxThreads /\ m \in Nat /\ ops \in Nat \ {0} /\ MaxThreads \in Nat \ {0}
  BY SweepConstants, OpsPerThread
<1>2. Fresh("run", m, ops) /\ process = "off"
  BY DEF Launch
<1> HIDE DEF m, ops
<1>3. /\ BenchmarkTypeOK' /\ process' = "run" /\ n_threads' = m /\ ops_per_thread' = ops
      /\ queue' = <<>> /\ \A t \in AllWorkers : at'[t] = "start" /\ stage'[t] = "idle" /\ i'[t] = 0
  BY <1>1, <1>2, FreshTypes
<1>4. \A t \in Workers' : at'[t] = "start" /\ stage'[t] = "idle" /\ i'[t] = 0
  BY <1>1, <1>3 DEF Workers, AllWorkers
<1>5. \A t \in Workers' : WorkerCalls(t)' /\ WorkerStamps(t)'
  BY <1>1, <1>3, <1>4 DEF WorkerCalls, WorkerStamps
<1>6. Accounted'
  BY <1>1, <1>3, <1>4 DEF Accounted, HasPut
<1>7. Len(queue') = Cardinality(Owing')
  <2>1. Owing' = {}
    BY <1>4 DEF Owing, Owes
  <2> QED
    BY <1>3, <2>1, FS_EmptySet
<1> QED
  BY <1>1, <1>2, <1>3, <1>5, <1>6, <1>7 DEF BenchInv

LEMMA OpenOutputKeeps ==
  ASSUME BenchmarkTypeOK, BenchInv, OpenOutput
  PROVE  BenchmarkTypeOK' /\ BenchInv' /\ process = "run" /\ process' = "export"
<1>1. process = "run" /\ process' = "export" /\ UNCHANGED <<args, q, at, i, stamps>>
      /\ UNCHANGED <<queue, stage, val, n_threads, ops_per_thread>>
      /\ \A t \in Workers : at[t] = "end"
  BY DEF OpenOutput, q, args
<1>2. Workers' = Workers /\ TestItems' = TestItems /\ \A x : should_sample(x)' <=> should_sample(x)
  BY <1>1, SameArgs
<1>3. BenchmarkTypeOK'
  BY <1>1, <1>2 DEF BenchmarkTypeOK, BenchQueue!TypeOK
<1>4. ASSUME NEW t \in Workers' PROVE WorkerCalls(t)' /\ WorkerStamps(t)'
  <2>1. WorkerCalls(t) /\ WorkerStamps(t)
    BY <1>1, <1>2 DEF BenchInv
  <2> QED
    BY <1>1, <1>2, <2>1 DEF WorkerCalls, WorkerStamps, my_item, Item
<1>5. Accounted'
  <2>1. Accounted
    BY <1>1 DEF BenchInv
  <2> QED
    BY <1>1, <1>2, <2>1 DEF Accounted, HasPut, InQueue, Held, Measured, Item
<1>6. Owing' = Owing
  BY <1>1, <1>2 DEF Owing, Owes
<1> QED
  BY <1>1, <1>2, <1>3, <1>4, <1>5, <1>6 DEF BenchInv

\* When the rows are written every item has been taken out of the queue.
LEMMA ExportMeasured ==
  ASSUME BenchmarkTypeOK, BenchInv, process = "export"
  PROVE  SamplesMeasured
<1>1. /\ \A t \in Workers : at[t] = "end" /\ WorkerCalls(t) /\ WorkerStamps(t)
      /\ Accounted /\ Len(queue) = Cardinality(Owing)
  BY DEF BenchInv
<1>2. n_threads \in Nat \ {0} /\ ops_per_thread \in Nat \ {0}
  BY RunFacts
<1>3. ~\E x : InQueue(x)
  <2>1. Owing = {}
    BY <1>1 DEF Owing, Owes
  <2>2. Len(queue) = 0
    BY <1>1, <2>1, FS_EmptySet
  <2> QED
    BY <2>2 DEF InQueue
<1>4. ~\E x : Held(x)
  BY <1>1 DEF Held, WorkerCalls
<1>5. ASSUME NEW x \in TestItems, should_sample(x) PROVE stamps[x] = AllStamps
  <2>1. PICK t \in 0..(n_threads - 1), k \in 0..(ops_per_thread - 1) : x = t * ops_per_thread + k
    <3>1. \A e, m \in Nat : e * m = m * e
      BY SMT
    <3>2. x \in 0..(n_threads * ops_per_thread - 1)
      BY <1>2, <3>1 DEF TestItems, count
    <3> QED
      BY <1>2, <3>2, Section
  <2>2. t \in Workers /\ x = Item(t, k)
    BY <2>1 DEF Workers, Item
  <2>3. i[t] = ops_per_thread /\ k < i[t]
    BY <1>1, <1>2, <2>1, <2>2 DEF WorkerCalls
  <2>4. {"dequeue_start", "dequeue_done"} \subseteq stamps[x]
    <3>1. HasPut(t, k)
      BY <2>3 DEF HasPut
    <3>2. Measured(x)
      BY <1>1, <1>3, <1>4, <2>1, <2>2, <3>1 DEF Accounted
    <3> QED
      BY <1>5, <3>2 DEF Measured
  <2>5. {"enqueue_start", "enqueue_done"} \subseteq stamps[x]
    BY <1>1, <1>5, <2>1, <2>2, <2>3 DEF WorkerStamps
  <2>6. stamps[x] \subseteq AllStamps
    BY BenchTypes
  <2> QED
    BY <2>4, <2>5, <2>6 DEF AllStamps
<1> QED
  BY <1>5 DEF SamplesMeasured

\* The process is left alone.
LEMMA BenchSame ==
  ASSUME BenchmarkTypeOK, BenchInv, UNCHANGED bench
  PROVE  BenchmarkTypeOK' /\ BenchInv' /\ process' = process
<1>1. UNCHANGED <<process, args, q, at, i, stamps>>
      /\ UNCHANGED <<queue, stage, val, n_threads, ops_per_thread>>
  BY DEF bench, q, args
<1>2. Workers' = Workers /\ TestItems' = TestItems /\ \A x : should_sample(x)' <=> should_sample(x)
  BY <1>1, SameArgs
<1>3. BenchmarkTypeOK'
  BY <1>1, <1>2 DEF BenchmarkTypeOK, BenchQueue!TypeOK
<1>4. CASE process # "off"
  <2>1. /\ \A t \in Workers : WorkerCalls(t) /\ WorkerStamps(t)
        /\ Accounted /\ Len(queue) = Cardinality(Owing)
    BY <1>4 DEF BenchInv
  <2>2. ASSUME NEW t \in Workers' PROVE WorkerCalls(t)' /\ WorkerStamps(t)'
    <3>1. WorkerCalls(t) /\ WorkerStamps(t)
      BY <1>2, <2>1
    <3> QED
      BY <1>1, <1>2, <3>1 DEF WorkerCalls, WorkerStamps, my_item, Item
  <2>3. Accounted'
    BY <1>1, <1>2, <2>1 DEF Accounted, HasPut, InQueue, Held, Measured, Item
  <2>4. Owing' = Owing
    BY <1>1, <1>2 DEF Owing, Owes
  <2> QED
    BY <1>1, <1>2, <1>3, <1>4, <2>1, <2>2, <2>3, <2>4 DEF BenchInv
<1> QED
  BY <1>1, <1>3, <1>4 DEF BenchInv

----------------------------------------------------------------------------
(* The script *)

LEMMA ScriptTypes ==
  ASSUME SweepTypeOK
  PROVE  /\ cur[1] \in DOMAIN QUEUES /\ cur[2] \in DOMAIN THREADS /\ cur[3] \in 0..(TRIALS + 1)
         /\ cur = <<cur[1], cur[2], cur[3]>> /\ cur[1] \in Nat /\ cur[2] \in Nat /\ cur[3] \in Nat
         /\ \A r : [cur EXCEPT ![3] = r] = <<cur[1], cur[2], r>>
         /\ file \in [Trials -> {"absent", "open", "complete", "wrong"}]
         /\ marker \in [DOMAIN QUEUES -> {0} \union DOMAIN THREADS]
         /\ \A qu \in DOMAIN QUEUES : marker[qu] \in Nat
<1>1. cur \in (DOMAIN QUEUES) \X (DOMAIN THREADS) \X (0..(TRIALS + 1))
  BY DEF SweepTypeOK
<1>2. /\ cur[1] \in DOMAIN QUEUES /\ cur[2] \in DOMAIN THREADS /\ cur[3] \in 0..(TRIALS + 1)
      /\ cur = <<cur[1], cur[2], cur[3]>>
      /\ \A r : [cur EXCEPT ![3] = r] = <<cur[1], cur[2], r>>
  BY <1>1, TupleCell
<1>3. cur[1] \in Nat /\ cur[2] \in Nat /\ cur[3] \in Nat
  BY <1>2, SweepConstants
<1>4. marker \in [DOMAIN QUEUES -> {0} \union DOMAIN THREADS]
  BY DEF SweepTypeOK
<1>5. \A qu \in DOMAIN QUEUES : marker[qu] \in Nat
  BY <1>4, SweepConstants
<1> QED
  BY <1>2, <1>3, <1>4, <1>5 DEF SweepTypeOK

LEMMA Triple ==
  ASSUME NEW qu \in DOMAIN QUEUES, NEW k \in DOMAIN THREADS, NEW r \in 1..TRIALS
  PROVE  <<qu, k, r>> \in Trials
BY DEF Trials

LEMMA TrialTriple ==
  ASSUME NEW f \in Trials
  PROVE  f = <<f[1], f[2], f[3]>> /\ f[1] \in DOMAIN QUEUES /\ f[2] \in DOMAIN THREADS /\ f[3] \in 1..TRIALS
BY DEF Trials

LEMMA StartCell == Start \in (DOMAIN QUEUES) \X (DOMAIN THREADS) \X (0..(TRIALS + 1))
BY SweepConstants DEF Start

\* The benchmark of the current trial makes its file.
LEMMA FileMade ==
  ASSUME SweepTypeOK, FilesInv, shell = "wait", NEW c \in {"open", "complete"},
         file' = [file EXCEPT ![cur] = c], marker' = marker
  PROVE  /\ MarkedAbsent' /\ InOrder'
         /\ cur \in Trials /\ file'[cur] = c /\ \A f \in Trials : f # cur => file'[f] = file[f]
<1>1. /\ cur[1] \in DOMAIN QUEUES /\ cur[2] \in DOMAIN THREADS /\ cur[3] \in 1..TRIALS
      /\ cur = <<cur[1], cur[2], cur[3]>> /\ cur[1] \in Nat /\ cur[2] \in Nat
      /\ file \in [Trials -> {"absent", "open", "complete", "wrong"}]
      /\ \A qu \in DOMAIN QUEUES : marker[qu] \in Nat
  BY ScriptTypes DEF FilesInv, Cursor
<1>2. cur \in Trials
  BY <1>1, Triple
<1>3. file'[cur] = c /\ c # "absent" /\ \A f \in Trials : f # cur => file'[f] = file[f]
  BY <1>1, <1>2
<1>4. ~IsMarked(cur[1], cur[2])
  BY DEF FilesInv, Cursor, Marked, IsMarked
<1>5. ASSUME NEW qu \in DOMAIN QUEUES, NEW k \in DOMAIN THREADS, NEW r \in 1..TRIALS, IsMarked(qu, k)
      PROVE  file'[<<qu, k, r>>] = "absent"
  <2>1. file[<<qu, k, r>>] = "absent" /\ <<qu, k, r>> \in Trials
    BY <1>5, Triple DEF FilesInv, MarkedAbsent
  <2>2. <<qu, k, r>> # cur
    BY <1>1, <1>4, <1>5
  <2> QED
    BY <1>3, <2>1, <2>2
<1>6. MarkedAbsent'
  BY <1>5 DEF MarkedAbsent, IsMarked, HasMarker
<1>7. ASSUME NEW qu \in DOMAIN QUEUES, NEW k \in DOMAIN THREADS, NEW l \in DOMAIN THREADS,
             NEW r \in 1..TRIALS, NEW s \in 1..TRIALS, k < l, file'[<<qu, k, r>>] = "absent"
      PROVE  file'[<<qu, l, s>>] = "absent"
  <2>1. /\ <<qu, k, r>> \in Trials /\ <<qu, l, s>> \in Trials /\ k \in Nat /\ l \in Nat
    BY Triple, SweepConstants
  <2>2. file[<<qu, k, r>>] = "absent" /\ <<qu, k, r>> # cur
    BY <1>3, <1>7, <2>1
  <2>3. file[<<qu, l, s>>] = "absent"
    BY <1>7, <2>2 DEF FilesInv, InOrder
  <2>4. <<qu, l, s>> # cur
    <3>1. SUFFICES ASSUME <<qu, l, s>> = cur PROVE FALSE
      OBVIOUS
    <3>2. qu = cur[1] /\ l = cur[2]
      BY <3>1
    <3>3. Passed(qu, k, r)
      BY <1>7, <3>2 DEF Passed
    <3>4. IsMarked(qu, k)
      BY <2>2, <3>3 DEF FilesInv, Visited
    <3>5. IsMarked(qu, l)
      BY <1>1, <1>7, <2>1, <3>4 DEF IsMarked
    <3> QED
      BY <1>4, <3>2, <3>5
  <2> QED
    BY <1>3, <2>1, <2>3, <2>4
<1>8. InOrder'
  BY <1>7 DEF InOrder
<1> QED
  BY <1>2, <1>3, <1>6, <1>8

\* The script goes on to the next queue or to the next cell: what it leaves
\* behind is marked or has its files.
LEMMA NextQueueKeeps ==
  ASSUME SweepTypeOK, NEW from, NextQueue(from)
  PROVE  /\ shell = from /\ shell' \in {"cell", "ended"} /\ UNCHANGED <<sigint, stops, torn>>
         /\ cur' \in (DOMAIN QUEUES) \X (DOMAIN THREADS) \X (0..(TRIALS + 1))
         /\ \A qu \in DOMAIN QUEUES, k \in DOMAIN THREADS : \A r \in 1..TRIALS :
              Passed(qu, k, r)' => qu <= cur[1]
<1>1. shell = from /\ shell' \in {"cell", "ended"} /\ UNCHANGED <<sigint, stops, torn>>
  BY DEF NextQueue, Command
<1>2. /\ cur[1] \in DOMAIN QUEUES /\ cur[2] \in DOMAIN THREADS /\ cur[1] \in Nat
      /\ cur \in (DOMAIN QUEUES) \X (DOMAIN THREADS) \X (0..(TRIALS + 1))
  BY ScriptTypes DEF SweepTypeOK
<1>3. CASE cur[1] < Len(QUEUES)
  <2>1. cur' = <<cur[1] + 1, 1, 0>> /\ shell' = "cell"
    BY <1>3 DEF NextQueue, Command
  <2>2. cur[1] + 1 \in DOMAIN QUEUES /\ 1 \in DOMAIN THREADS /\ 0 \in 0..(TRIALS + 1)
    BY <1>2, <1>3, SweepConstants
  <2>3. cur' \in (DOMAIN QUEUES) \X (DOMAIN THREADS) \X (0..(TRIALS + 1))
    BY <2>1, <2>2
  <2>4. cur'[1] = cur[1] + 1 /\ cur'[2] = 1 /\ cur'[3] = 0
    BY <2>1
  <2>5. ASSUME NEW qu \in DOMAIN QUEUES, NEW k \in DOMAIN THREADS, NEW r \in 1..TRIALS, Passed(qu, k, r)'
        PROVE  qu <= cur[1]
    <3>1. qu < cur[1] + 1 \/ k < 1
      BY <2>1, <2>4, <2>5 DEF Passed
    <3> QED
      BY <1>2, <3>1, SweepConstants
  <2> QED
    BY <1>1, <2>3, <2>5
<1>4. CASE ~(cur[1] < Len(QUEUES))
  <2>1. cur' = cur
    BY <1>4 DEF NextQueue
  <2> QED
    BY <1>1, <1>2, <1>4, <2>1, SweepConstants
<1> QED
  BY <1>3, <1>4

LEMMA NextCellKeeps ==
  ASSUME SweepTypeOK, FilesInv, UNCHANGED files, NEW from \in {"cell", "trial"}, NextCell(from),
         \A r \in 1..TRIALS : IsMarked(cur[1], cur[2]) \/ file[<<cur[1], cur[2], r>>] # "absent"
  PROVE  /\ FilesInv'
         /\ shell = from /\ shell' \in {"cell", "ended"} /\ UNCHANGED <<sigint, stops, torn>>
         /\ cur' \in (DOMAIN QUEUES) \X (DOMAIN THREADS) \X (0..(TRIALS + 1))
<1>1. /\ cur[1] \in DOMAIN QUEUES /\ cur[2] \in DOMAIN THREADS /\ cur[1] \in Nat /\ cur[2] \in Nat
      /\ cur \in (DOMAIN QUEUES) \X (DOMAIN THREADS) \X (0..(TRIALS + 1))
      /\ file' = file /\ marker' = marker
  BY ScriptTypes DEF SweepTypeOK, files
<1>2. /\ shell = from /\ shell' \in {"cell", "ended"} /\ UNCHANGED <<sigint, stops, torn>>
      /\ cur' \in (DOMAIN QUEUES) \X (DOMAIN THREADS) \X (0..(TRIALS + 1))
      /\ \A qu \in DOMAIN QUEUES, k \in DOMAIN THREADS : \A r \in 1..TRIALS :
           Passed(qu, k, r)' => qu < cur[1] \/ (qu = cur[1] /\ k <= cur[2])
  <2>1. CASE cur[2] < Len(THREADS)
    <3>1. /\ shell = from /\ shell' = "cell" /\ UNCHANGED <<sigint, stops, torn>>
          /\ cur' = <<cur[1], cur[2] + 1, 0>>
      BY <1>1, <2>1 DEF NextCell, Command
    <3>2. cur[2] + 1 \in DOMAIN THREADS /\ 0 \in 0..(TRIALS + 1)
      BY <1>1, <2>1, SweepConstants
    <3>3. cur'[1] = cur[1] /\ cur'[2] = cur[2] + 1
      BY <3>1
    <3>4. ASSUME NEW qu \in DOMAIN QUEUES, NEW k \in DOMAIN THREADS, NEW r \in 1..TRIALS, Passed(qu, k, r)'
          PROVE  qu < cur[1] \/ (qu = cur[1] /\ k <= cur[2])
      <4>1. qu < cur[1] \/ (qu = cur[1] /\ k < cur[2] + 1)
        BY <3>1, <3>3, <3>4 DEF Passed
      <4> QED
        BY <1>1, <4>1, SweepConstants
    <3> QED
      BY <1>1, <3>1, <3>2, <3>4
  <2>2. CASE ~(cur[2] < Len(THREADS))
    <3>1. NextQueue(from) /\ cur[2] = Len(THREADS)
      BY <2>2 DEF NextCell
    <3>2. \A qu \in DOMAIN QUEUES, k \in DOMAIN THREADS :
            qu <= cur[1] => qu < cur[1] \/ (qu = cur[1] /\ k <= cur[2])
      BY <1>1, <3>1, SweepConstants
    <3> QED
      BY <3>1, <3>2, NextQueueKeeps
  <2> QED
    BY <2>1, <2>2
<1>3. ASSUME NEW qu \in DOMAIN QUEUES, NEW k \in DOMAIN THREADS, NEW r \in 1..TRIALS, Passed(qu, k, r)'
      PROVE  IsMarked(qu, k) \/ file[<<qu, k, r>>] # "absent"
  <2>1. qu < cur[1] \/ (qu = cur[1] /\ k < cur[2]) \/ (qu = cur[1] /\ k = cur[2])
    BY <1>1, <1>2, <1>3, SweepConstants
  <2>2. CASE qu = cur[1] /\ k = cur[2]
    BY <2>2
  <2>3. CASE qu < cur[1] \/ (qu = cur[1] /\ k < cur[2])
    <3>1. Passed(qu, k, r)
      BY <2>3 DEF Passed
    <3> QED
      BY <3>1 DEF FilesInv, Visited
  <2> QED
    BY <2>1, <2>2, <2>3
<1>4. Visited'
  BY <1>1, <1>3 DEF Visited, IsMarked, HasMarker
<1>5. MarkedAbsent' /\ InOrder'
  BY <1>1 DEF FilesInv, MarkedAbsent, InOrder, IsMarked, HasMarker
<1>6. Cursor' /\ NoneAhead'
  BY <1>2 DEF Cursor, NoneAhead
<1>7. Incomplete'
  BY <1>1, <1>2 DEF FilesInv, Incomplete
<1> QED
  BY <1>2, <1>4, <1>5, <1>6, <1>7 DEF FilesInv

LEMMA ScriptType ==
  ASSUME SweepTypeOK, BenchmarkTypeOK',
         file' \in [Trials -> {"absent", "open", "complete", "wrong"}],
         marker' \in [DOMAIN QUEUES -> {0} \union DOMAIN THREADS],
         shell' \in {"off", "cell", "trial", "wait", "rm", "echo", "ended"},
         cur' \in (DOMAIN QUEUES) \X (DOMAIN THREADS) \X (0..(TRIALS + 1)),
         process' # "off" <=> shell' = "wait",
         sigint' \in BOOLEAN, stops' \in 0..MaxStops, torn' \in SUBSET Trials
  PROVE  SweepTypeOK'
BY DEF SweepTypeOK

LEMMA ScriptFacts ==
  ASSUME SweepTypeOK
  PROVE  /\ BenchmarkTypeOK
         /\ file \in [Trials -> {"absent", "open", "complete", "wrong"}]
         /\ marker \in [DOMAIN QUEUES -> {0} \union DOMAIN THREADS]
         /\ shell \in {"off", "cell", "trial", "wait", "rm", "echo", "ended"}
         /\ cur \in (DOMAIN QUEUES) \X (DOMAIN THREADS) \X (0..(TRIALS + 1))
         /\ process # "off" <=> shell = "wait"
         /\ sigint \in BOOLEAN /\ stops \in 0..MaxStops /\ torn \in SUBSET Trials
         /\ MaxStops \in Nat
BY SweepAssumption DEF SweepTypeOK

LEMMA TestMarkerKeeps ==
  ASSUME SweepInv, TestMarker
  PROVE  SweepInv'
<1>1. SweepTypeOK /\ BenchInv /\ FilesInv /\ UNCHANGED <<bench, files>>
      /\ UNCHANGED <<file, marker>>
  BY DEF SweepInv, TestMarker, files
<1>2. BenchmarkTypeOK' /\ BenchInv' /\ process' = process
  BY <1>1, BenchSame, ScriptFacts
<1>3. /\ cur[1] \in DOMAIN QUEUES /\ cur[2] \in DOMAIN THREADS /\ cur[3] \in 0..(TRIALS + 1)
      /\ cur = <<cur[1], cur[2], cur[3]>> /\ [cur EXCEPT ![3] = 1] = <<cur[1], cur[2], 1>>
      /\ shell \in {"off", "cell", "trial", "wait", "rm", "echo", "ended"}
      /\ process # "off" <=> shell = "wait"
  BY <1>1, ScriptTypes, ScriptFacts
<1>4. CASE Marked /\ NextCell("cell")
  <2>1. /\ FilesInv' /\ shell = "cell" /\ shell' \in {"cell", "ended"} /\ UNCHANGED <<sigint, stops, torn>>
        /\ cur' \in (DOMAIN QUEUES) \X (DOMAIN THREADS) \X (0..(TRIALS + 1))
    BY <1>1, <1>4, NextCellKeeps DEF Marked, IsMarked
  <2>2. SweepTypeOK'
    BY <1>1, <1>2, <2>1, ScriptFacts, ScriptType
  <2> QED
    BY <1>2, <2>1, <2>2 DEF SweepInv
<1>5. CASE ~Marked /\ Command("cell", "trial") /\ cur' = [cur EXCEPT ![3] = 1]
  <2>1. /\ shell = "cell" /\ shell' = "trial" /\ UNCHANGED <<sigint, stops, torn>>
        /\ cur' = <<cur[1], cur[2], 1>> /\ cur'[1] = cur[1] /\ cur'[2] = cur[2] /\ cur'[3] = 1
    BY <1>3, <1>5 DEF Command
  <2>2. cur' \in (DOMAIN QUEUES) \X (DOMAIN THREADS) \X (0..(TRIALS + 1))
    <3>1. 1 \in 0..(TRIALS + 1)
      BY SweepConstants
    <3> QED
      BY <1>3, <2>1, <3>1
  <2>3. SweepTypeOK'
    BY <1>1, <1>2, <1>3, <2>1, <2>2, ScriptFacts, ScriptType
  <2>4. Cursor'
    BY <1>1, <1>5, <2>1 DEF Cursor, Marked, HasMarker
  <2>5. Visited'
    <3>1. ASSUME NEW qu \in DOMAIN QUEUES, NEW k \in DOMAIN THREADS, NEW r \in 1..TRIALS, Passed(qu, k, r)'
          PROVE  Passed(qu, k, r)
      BY <2>1, <3>1 DEF Passed
    <3> QED
      BY <1>1, <3>1 DEF FilesInv, Visited, IsMarked, HasMarker
  <2>6. MarkedAbsent' /\ InOrder'
    BY <1>1 DEF FilesInv, MarkedAbsent, InOrder, IsMarked, HasMarker
  <2>7. NoneAhead' /\ Incomplete'
    BY <1>1, <2>1 DEF FilesInv, NoneAhead, Incomplete
  <2> QED
    BY <1>2, <2>3, <2>4, <2>5, <2>6, <2>7 DEF SweepInv, FilesInv
<1> QED
  BY <1>4, <1>5 DEF TestMarker

LEMMA TrialKeeps ==
  ASSUME SweepInv, Trial
  PROVE  SweepInv'
<1>1. SweepTypeOK /\ BenchInv /\ FilesInv /\ UNCHANGED files /\ UNCHANGED <<file, marker>>
  BY DEF SweepInv, Trial, files
<1>2. /\ cur[1] \in DOMAIN QUEUES /\ cur[2] \in DOMAIN THREADS /\ cur[3] \in 0..(TRIALS + 1)
      /\ cur = <<cur[1], cur[2], cur[3]>> /\ cur[1] \in Nat /\ cur[2] \in Nat
      /\ \A r : [cur EXCEPT ![3] = r] = <<cur[1], cur[2], r>>
      /\ process # "off" <=> shell = "wait"
  BY <1>1, ScriptTypes, ScriptFacts
<1>3. MarkedAbsent' /\ InOrder'
  BY <1>1 DEF FilesInv, MarkedAbsent, InOrder, IsMarked, HasMarker
<1>4. CASE NextCell("trial") /\ cur[3] > TRIALS /\ UNCHANGED bench
  <2>1. shell = "trial" /\ ~Marked
    BY <1>1, <1>4 DEF NextCell, NextQueue, Command, FilesInv, Cursor
  <2>2. ASSUME NEW r \in 1..TRIALS PROVE file[<<cur[1], cur[2], r>>] # "absent"
    <3>1. Passed(cur[1], cur[2], r)
      BY <1>2, <1>4, <2>1, SweepConstants DEF Passed
    <3> QED
      BY <1>1, <1>2, <2>1, <3>1 DEF FilesInv, Visited, Marked, IsMarked
  <2>3. /\ FilesInv' /\ shell' \in {"cell", "ended"} /\ UNCHANGED <<sigint, stops, torn>>
        /\ cur' \in (DOMAIN QUEUES) \X (DOMAIN THREADS) \X (0..(TRIALS + 1))
    BY <1>1, <1>4, <2>2, NextCellKeeps
  <2>4. BenchmarkTypeOK' /\ BenchInv' /\ process' = process
    BY <1>1, <1>4, BenchSame, ScriptFacts
  <2>5. SweepTypeOK'
    BY <1>1, <1>2, <2>1, <2>3, <2>4, ScriptFacts, ScriptType
  <2> QED
    BY <2>3, <2>4, <2>5 DEF SweepInv
<1>5. CASE /\ Command("trial", "trial") /\ cur[3] <= TRIALS /\ file[cur] # "absent"
           /\ cur' = [cur EXCEPT ![3] = @ + 1] /\ UNCHANGED bench
  <2>1. /\ shell = "trial" /\ shell' = "trial" /\ UNCHANGED <<sigint, stops, torn>>
        /\ cur' = <<cur[1], cur[2], cur[3] + 1>>
        /\ cur'[1] = cur[1] /\ cur'[2] = cur[2] /\ cur'[3] = cur[3] + 1 /\ cur[3] \in 1..TRIALS
    BY <1>1, <1>2, <1>5, SweepConstants DEF Command, FilesInv, Cursor
  <2>2. cur' \in (DOMAIN QUEUES) \X (DOMAIN THREADS) \X (0..(TRIALS + 1))
    <3>1. cur[3] + 1 \in 0..(TRIALS + 1)
      BY <2>1, SweepConstants
    <3> QED
      BY <1>2, <2>1, <3>1
  <2>3. BenchmarkTypeOK' /\ BenchInv' /\ process' = process
    BY <1>1, <1>5, BenchSame, ScriptFacts
  <2>4. SweepTypeOK'
    BY <1>1, <1>2, <2>1, <2>2, <2>3, ScriptFacts, ScriptType
  <2>5. Cursor'
    BY <1>1, <2>1, SweepConstants DEF FilesInv, Cursor, Marked, HasMarker
  <2>6. Visited'
    <3>1. ASSUME NEW qu \in DOMAIN QUEUES, NEW k \in DOMAIN THREADS, NEW r \in 1..TRIALS, Passed(qu, k, r)'
          PROVE  Passed(qu, k, r) \/ <<qu, k, r>> = cur
      BY <1>2, <2>1, <3>1, SweepConstants DEF Passed
    <3> QED
      BY <1>1, <1>5, <3>1 DEF FilesInv, Visited, IsMarked, HasMarker
  <2>7. NoneAhead' /\ Incomplete'
    BY <1>1, <2>1 DEF FilesInv, NoneAhead, Incomplete
  <2> QED
    BY <1>3, <2>3, <2>4, <2>5, <2>6, <2>7 DEF SweepInv, FilesInv
<1>6. CASE /\ Command("trial", "wait") /\ cur[3] <= TRIALS /\ file[cur] = "absent"
           /\ Launch(n, TOTAL_OPS \div n) /\ UNCHANGED cur
  <2>1. /\ shell = "trial" /\ shell' = "wait" /\ UNCHANGED <<sigint, stops, torn>>
        /\ cur[3] \in 1..TRIALS /\ cur' = cur
    BY <1>1, <1>2, <1>6, SweepConstants DEF Command, FilesInv, Cursor
  <2>2. BenchmarkTypeOK' /\ BenchInv' /\ process' = "run"
    BY <1>2, <1>6, LaunchKeeps DEF n
  <2>3. SweepTypeOK'
    BY <1>1, <2>1, <2>2, ScriptFacts, ScriptType
  <2>4. Cursor'
    BY <1>1, <2>1 DEF FilesInv, Cursor, Marked, HasMarker
  <2>5. Visited'
    BY <1>1, <2>1 DEF FilesInv, Visited, Passed, IsMarked, HasMarker
  <2>6. NoneAhead'
    <3>1. ASSUME NEW k \in DOMAIN THREADS, NEW r \in 1..TRIALS, k > cur[2]
          PROVE  file[<<cur[1], k, r>>] = "absent"
      <4>1. cur[2] < k /\ file[<<cur[1], cur[2], cur[3]>>] = "absent"
        BY <1>2, <1>6, <3>1, SweepConstants
      <4> QED
        BY <1>1, <1>2, <2>1, <4>1 DEF FilesInv, InOrder
    <3> QED
      BY <1>1, <2>1, <3>1 DEF NoneAhead
  <2>7. Incomplete'
    BY <1>1, <2>1 DEF FilesInv, Incomplete
  <2> QED
    BY <1>3, <2>2, <2>3, <2>4, <2>5, <2>6, <2>7 DEF SweepInv, FilesInv
<1> QED
  BY <1>4, <1>5, <1>6 DEF Trial

\* A step of the process or of the signals that leaves the script and the files.
LEMMA FilesSame ==
  ASSUME FilesInv, UNCHANGED <<file, marker, shell, cur, torn>>
  PROVE  FilesInv'
<1>1. Cursor'
  BY DEF FilesInv, Cursor, Marked, HasMarker
<1>2. Visited'
  BY DEF FilesInv, Visited, Passed, IsMarked, HasMarker
<1>3. MarkedAbsent' /\ InOrder'
  BY DEF FilesInv, MarkedAbsent, InOrder, IsMarked, HasMarker
<1>4. NoneAhead' /\ Incomplete'
  BY DEF FilesInv, NoneAhead, Incomplete
<1> QED
  BY <1>1, <1>2, <1>3, <1>4 DEF FilesInv

LEMMA RunWorkerKeeps ==
  ASSUME SweepInv, NEW t, RunWorker(t)
  PROVE  SweepInv'
<1>1. SweepTypeOK /\ BenchInv /\ FilesInv /\ shell = "wait" /\ Worker(t)
      /\ UNCHANGED <<file, marker, shell, cur, sigint, stops, torn>>
  BY DEF SweepInv, RunWorker, files
<1>2. BenchmarkTypeOK' /\ BenchInv' /\ process' = "run"
  BY <1>1, ScriptFacts, WorkerKeeps
<1>3. SweepTypeOK'
  BY <1>1, <1>2, ScriptFacts, ScriptType
<1>4. FilesInv'
  BY <1>1, FilesSame
<1> QED
  BY <1>2, <1>3, <1>4 DEF SweepInv

LEMMA RunMainKeeps ==
  ASSUME SweepInv, RunMain
  PROVE  SweepInv'
<1>1. SweepTypeOK /\ BenchInv /\ FilesInv /\ shell = "wait" /\ OpenOutput
      /\ file' = [file EXCEPT ![cur] = "open"]
      /\ UNCHANGED <<marker, shell, cur, sigint, stops, torn>>
  BY DEF SweepInv, RunMain
<1>2. BenchmarkTypeOK' /\ BenchInv' /\ process' = "export"
  BY <1>1, ScriptFacts, OpenOutputKeeps
<1>3. /\ MarkedAbsent' /\ InOrder'
      /\ cur \in Trials /\ file'[cur] = "open" /\ \A f \in Trials : f # cur => file'[f] = file[f]
  BY <1>1, FileMade
<1>4. file' \in [Trials -> {"absent", "open", "complete", "wrong"}]
  BY <1>1, ScriptFacts
<1>5. SweepTypeOK'
  BY <1>1, <1>2, <1>4, ScriptFacts, ScriptType
<1>6. Cursor'
  BY <1>1 DEF FilesInv, Cursor, Marked, HasMarker
<1>7. Visited'
  <2>1. ASSUME NEW qu \in DOMAIN QUEUES, NEW k \in DOMAIN THREADS, NEW r \in 1..TRIALS, Passed(qu, k, r)'
        PROVE  IsMarked(qu, k)' \/ file'[<<qu, k, r>>] # "absent"
    <3>1. Passed(qu, k, r) /\ (IsMarked(qu, k)' <=> IsMarked(qu, k)) /\ <<qu, k, r>> \in Trials
      BY <1>1, <2>1, Triple DEF Passed, IsMarked, HasMarker
    <3> QED
      BY <1>1, <1>3, <3>1 DEF FilesInv, Visited
  <2> QED
    BY <2>1 DEF Visited
<1>8. NoneAhead'
  <2>1. ASSUME NEW k \in DOMAIN THREADS, NEW r \in 1..TRIALS, k > cur[2]
        PROVE  file'[<<cur[1], k, r>>] = "absent"
    <3>1. file[<<cur[1], k, r>>] = "absent"
      BY <1>1, <2>1 DEF FilesInv, NoneAhead
    <3>2. <<cur[1], k, r>> \in Trials /\ <<cur[1], k, r>> # cur
      BY <1>1, <2>1, Triple, ScriptTypes
    <3> QED
      BY <1>3, <3>1, <3>2
  <2> QED
    BY <1>1, <2>1 DEF NoneAhead
<1>9. Incomplete'
  BY <1>1, <1>3 DEF FilesInv, Incomplete
<1> QED
  BY <1>2, <1>3, <1>5, <1>6, <1>7, <1>8, <1>9 DEF SweepInv, FilesInv

LEMMA SucceedsKeeps ==
  ASSUME SweepInv, Succeeds
  PROVE  SweepInv'
<1>1. SweepTypeOK /\ BenchInv /\ FilesInv /\ shell = "wait" /\ process = "export" /\ Exit
      /\ file' = [file EXCEPT ![cur] = IF SamplesMeasured THEN "complete" ELSE "wrong"]
      /\ shell' = "trial" /\ cur' = [cur EXCEPT ![3] = cur[3] + 1]
      /\ UNCHANGED <<marker, sigint, stops, torn>>
  BY DEF SweepInv, Succeeds, CloseOutput
<1>2. SamplesMeasured
  BY <1>1, ScriptFacts, ExportMeasured
<1>3. BenchmarkTypeOK' /\ BenchInv' /\ process' = "off"
  BY <1>1, ExitKeeps
<1>4. file' = [file EXCEPT ![cur] = "complete"]
  BY <1>1, <1>2
<1>5. /\ MarkedAbsent' /\ InOrder'
      /\ cur \in Trials /\ file'[cur] = "complete" /\ \A f \in Trials : f # cur => file'[f] = file[f]
  BY <1>1, <1>4, FileMade
<1>6. /\ cur[1] \in DOMAIN QUEUES /\ cur[2] \in DOMAIN THREADS /\ cur[3] \in 1..TRIALS
      /\ cur = <<cur[1], cur[2], cur[3]>> /\ cur' = <<cur[1], cur[2], cur[3] + 1>>
  BY <1>1, ScriptTypes DEF FilesInv, Cursor
<1>7. cur'[1] = cur[1] /\ cur'[2] = cur[2] /\ cur'[3] = cur[3] + 1 /\ cur[3] + 1 \in 0..(TRIALS + 1)
  BY <1>6, SweepConstants
<1>8. SweepTypeOK'
  <2>1. cur' \in (DOMAIN QUEUES) \X (DOMAIN THREADS) \X (0..(TRIALS + 1))
    BY <1>6, <1>7
  <2>2. file' \in [Trials -> {"absent", "open", "complete", "wrong"}]
    BY <1>1, <1>4, ScriptFacts
  <2> QED
    BY <1>1, <1>3, <2>1, <2>2, ScriptFacts, ScriptType
<1>9. Cursor'
  BY <1>1, <1>6, <1>7, SweepConstants DEF FilesInv, Cursor, Marked, HasMarker
<1>10. Visited'
  <2>1. ASSUME NEW qu \in DOMAIN QUEUES, NEW k \in DOMAIN THREADS, NEW r \in 1..TRIALS, Passed(qu, k, r)'
        PROVE  IsMarked(qu, k)' \/ file'[<<qu, k, r>>] # "absent"
    <3>1. (Passed(qu, k, r) \/ <<qu, k, r>> = cur) /\ <<qu, k, r>> \in Trials
      BY <1>1, <1>6, <1>7, <2>1, Triple DEF Passed
    <3>2. IsMarked(qu, k)' <=> IsMarked(qu, k)
      BY <1>1 DEF IsMarked, HasMarker
    <3> QED
      BY <1>1, <1>5, <3>1, <3>2 DEF FilesInv, Visited
  <2> QED
    BY <2>1 DEF Visited
<1>11. NoneAhead' /\ Incomplete'
  BY <1>1, <1>5 DEF FilesInv, NoneAhead, Incomplete
<1> QED
  BY <1>3, <1>5, <1>8, <1>9, <1>10, <1>11 DEF SweepInv, FilesInv

LEMMA FailsKeeps ==
  ASSUME SweepInv, Fails
  PROVE  SweepInv'
<1>1. SweepTypeOK /\ BenchInv /\ FilesInv /\ shell = "wait" /\ shell' = "rm" /\ Exit
      /\ UNCHANGED <<file, marker, cur, sigint, stops, torn>>
  BY DEF SweepInv, Fails, files
<1>2. BenchmarkTypeOK' /\ BenchInv' /\ process' = "off"
  BY <1>1, ExitKeeps
<1>3. SweepTypeOK'
  BY <1>1, <1>2, ScriptFacts, ScriptType
<1>4. Cursor'
  BY <1>1 DEF FilesInv, Cursor, Marked, HasMarker
<1>5. Visited'
  BY <1>1 DEF FilesInv, Visited, Passed, IsMarked, HasMarker
<1>6. MarkedAbsent' /\ InOrder'
  BY <1>1 DEF FilesInv, MarkedAbsent, InOrder, IsMarked, HasMarker
<1>7. NoneAhead' /\ Incomplete'
  BY <1>1 DEF FilesInv, NoneAhead, Incomplete
<1> QED
  BY <1>2, <1>3, <1>4, <1>5, <1>6, <1>7 DEF SweepInv, FilesInv

LEMMA RmKeeps ==
  ASSUME SweepInv, Rm
  PROVE  SweepInv'
<1>1. SweepTypeOK /\ BenchInv /\ FilesInv /\ UNCHANGED <<bench, marker, cur>> /\ shell = "rm"
      /\ UNCHANGED <<sigint, stops, torn>>
  BY DEF SweepInv, Rm, Command, files
<1>2. BenchmarkTypeOK' /\ BenchInv' /\ process' = process /\ process = "off"
  BY <1>1, BenchSame, ScriptFacts
<1>3. /\ cur[1] \in DOMAIN QUEUES /\ cur[2] \in DOMAIN THREADS /\ cur[3] \in 1..TRIALS
      /\ cur = <<cur[1], cur[2], cur[3]>> /\ \A r : [cur EXCEPT ![3] = r] = <<cur[1], cur[2], r>>
  BY <1>1, ScriptTypes DEF FilesInv, Cursor
<1>4. ASSUME NEW r \in 1..TRIALS, shell' = "rm",
             file' = [file EXCEPT ![<<cur[1], cur[2], r>>] = "absent"]
      PROVE  SweepInv'
  <2> DEFINE f == <<cur[1], cur[2], r>>
  <2>1. /\ f \in Trials /\ file'[f] = "absent" /\ \A g \in Trials : g # f => file'[g] = file[g]
        /\ file' \in [Trials -> {"absent", "open", "complete", "wrong"}]
    BY <1>1, <1>3, <1>4, Triple, ScriptFacts
  <2>2. SweepTypeOK'
    BY <1>1, <1>2, <1>4, <2>1, ScriptFacts, ScriptType
  <2>3. Cursor'
    BY <1>1, <1>4 DEF FilesInv, Cursor, Marked, HasMarker
  <2>4. \A qu \in DOMAIN QUEUES, k \in DOMAIN THREADS : \A s \in 1..TRIALS :
          /\ <<qu, k, s>> \in Trials
          /\ <<qu, k, s>> = f \/ file'[<<qu, k, s>>] = file[<<qu, k, s>>]
    BY <2>1, Triple
  <2>5. \A qu \in DOMAIN QUEUES, k \in DOMAIN THREADS : \A s \in 1..TRIALS :
          /\ file[<<qu, k, s>>] = "absent" => file'[<<qu, k, s>>] = "absent"
          /\ file'[<<qu, k, s>>] = "absent" /\ file[<<qu, k, s>>] # "absent" => qu = cur[1] /\ k = cur[2]
    <3>1. ASSUME NEW qu \in DOMAIN QUEUES, NEW k \in DOMAIN THREADS, NEW s \in 1..TRIALS,
                 <<qu, k, s>> = f
          PROVE  qu = cur[1] /\ k = cur[2]
      BY <3>1
    <3> HIDE DEF f
    <3> QED
      BY <2>1, <2>4, <3>1
  <2> HIDE DEF f
  <2>6. Visited'
    <3>1. ASSUME NEW qu \in DOMAIN QUEUES, NEW k \in DOMAIN THREADS, NEW s \in 1..TRIALS,
                 Passed(qu, k, s)'
          PROVE  IsMarked(qu, k)' \/ file'[<<qu, k, s>>] # "absent"
      <4>1. Passed(qu, k, s) /\ (qu < cur[1] \/ (qu = cur[1] /\ k < cur[2]))
        BY <1>1, <1>4, <3>1 DEF Passed
      <4>2. ~(qu = cur[1] /\ k = cur[2])
        BY <1>3, <4>1, SweepConstants
      <4>3. IsMarked(qu, k)' <=> IsMarked(qu, k)
        BY <1>1 DEF IsMarked, HasMarker
      <4> QED
        BY <1>1, <2>5, <4>1, <4>2, <4>3 DEF FilesInv, Visited
    <3> QED
      BY <3>1 DEF Visited
  <2>7. MarkedAbsent'
    BY <1>1, <2>5 DEF FilesInv, MarkedAbsent, IsMarked, HasMarker
  <2>8. InOrder'
    <3>1. ASSUME NEW qu \in DOMAIN QUEUES, NEW k \in DOMAIN THREADS, NEW l \in DOMAIN THREADS,
                 NEW s \in 1..TRIALS, NEW u \in 1..TRIALS, k < l, file'[<<qu, k, s>>] = "absent"
          PROVE  file'[<<qu, l, u>>] = "absent"
      <4>1. CASE file[<<qu, k, s>>] = "absent"
        BY <1>1, <2>5, <3>1, <4>1 DEF FilesInv, InOrder
      <4>2. CASE file[<<qu, k, s>>] # "absent"
        <5>1. qu = cur[1] /\ k = cur[2]
          BY <2>5, <3>1, <4>2
        <5>2. l > cur[2]
          BY <3>1, <5>1, SweepConstants
        <5>3. file[<<qu, l, u>>] = "absent"
          BY <1>1, <5>1, <5>2 DEF FilesInv, NoneAhead
        <5> QED
          BY <2>5, <5>3
      <4> QED
        BY <4>1, <4>2
    <3> QED
      BY <3>1 DEF InOrder
  <2>9. NoneAhead'
    BY <1>1, <1>3, <1>4, <2>5 DEF FilesInv, NoneAhead
  <2>10. Incomplete'
    BY <1>1, <1>4, <2>1 DEF FilesInv, Incomplete
  <2> QED
    BY <1>2, <2>2, <2>3, <2>6, <2>7, <2>8, <2>9, <2>10 DEF SweepInv, FilesInv
<1>5. ASSUME shell' = "echo", UNCHANGED file,
             \A r \in 1..TRIALS : file[<<cur[1], cur[2], r>>] = "absent"
      PROVE  SweepInv'
  <2>1. SweepTypeOK'
    BY <1>1, <1>2, <1>5, ScriptFacts, ScriptType
  <2>2. Cursor'
    BY <1>1, <1>5 DEF FilesInv, Cursor, Marked, HasMarker
  <2>3. Visited'
    BY <1>1, <1>5 DEF FilesInv, Visited, Passed, IsMarked, HasMarker
  <2>4. MarkedAbsent' /\ InOrder'
    BY <1>1, <1>5 DEF FilesInv, MarkedAbsent, InOrder, IsMarked, HasMarker
  <2>5. NoneAhead'
    BY <1>1, <1>5 DEF FilesInv, NoneAhead
  <2>6. file[cur] = "absent"
    BY <1>3, <1>5
  <2>7. Incomplete'
    BY <1>1, <1>5, <2>6 DEF FilesInv, Incomplete
  <2> QED
    BY <1>2, <2>1, <2>2, <2>3, <2>4, <2>5, <2>7 DEF SweepInv, FilesInv
<1> QED
  BY <1>3, <1>4, <1>5 DEF Rm, Command, files

LEMMA EchoMarkerKeeps ==
  ASSUME SweepInv, EchoMarker
  PROVE  SweepInv'
<1>1. SweepTypeOK /\ BenchInv /\ FilesInv /\ UNCHANGED <<bench, file>> /\ NextQueue("echo")
      /\ marker' = [marker EXCEPT ![cur[1]] = cur[2]]
  BY DEF SweepInv, EchoMarker
<1>2. /\ shell = "echo" /\ shell' \in {"cell", "ended"} /\ UNCHANGED <<sigint, stops, torn>>
      /\ cur' \in (DOMAIN QUEUES) \X (DOMAIN THREADS) \X (0..(TRIALS + 1))
      /\ \A qu \in DOMAIN QUEUES, k \in DOMAIN THREADS : \A r \in 1..TRIALS :
           Passed(qu, k, r)' => qu <= cur[1]
  BY <1>1, NextQueueKeeps
<1>3. BenchmarkTypeOK' /\ BenchInv' /\ process' = process /\ process = "off"
  BY <1>1, <1>2, BenchSame, ScriptFacts
<1>4. /\ cur[1] \in DOMAIN QUEUES /\ cur[2] \in DOMAIN THREADS /\ cur[1] \in Nat /\ cur[2] \in Nat \ {0}
      /\ marker \in [DOMAIN QUEUES -> {0} \union DOMAIN THREADS]
      /\ \A qu \in DOMAIN QUEUES : marker[qu] \in Nat
  BY <1>1, ScriptTypes, SweepConstants
<1>5. /\ marker' \in [DOMAIN QUEUES -> {0} \union DOMAIN THREADS]
      /\ marker'[cur[1]] = cur[2] /\ \A qu \in DOMAIN QUEUES : qu # cur[1] => marker'[qu] = marker[qu]
  BY <1>1, <1>4
<1>6. \A qu \in DOMAIN QUEUES, k \in DOMAIN THREADS :
        /\ qu = cur[1] => (IsMarked(qu, k)' <=> k >= cur[2])
        /\ qu # cur[1] => (IsMarked(qu, k)' <=> IsMarked(qu, k))
  BY <1>4, <1>5 DEF IsMarked, HasMarker
<1>7. \A k \in DOMAIN THREADS : \A r \in 1..TRIALS : k >= cur[2] => file[<<cur[1], k, r>>] = "absent"
  <2>1. \A k \in DOMAIN THREADS : k >= cur[2] => k = cur[2] \/ k > cur[2]
    BY <1>4, SweepConstants
  <2> QED
    BY <1>1, <1>2, <2>1 DEF FilesInv, NoneAhead
<1>8. SweepTypeOK'
  BY <1>1, <1>2, <1>3, <1>5, ScriptFacts, ScriptType
<1>9. MarkedAbsent'
  <2>1. ASSUME NEW qu \in DOMAIN QUEUES, NEW k \in DOMAIN THREADS, NEW r \in 1..TRIALS, IsMarked(qu, k)'
        PROVE  file'[<<qu, k, r>>] = "absent"
    BY <1>1, <1>6, <1>7, <2>1 DEF FilesInv, MarkedAbsent
  <2> QED
    BY <2>1 DEF MarkedAbsent
<1>10. Visited'
  <2>1. ASSUME NEW qu \in DOMAIN QUEUES, NEW k \in DOMAIN THREADS, NEW r \in 1..TRIALS,
               Passed(qu, k, r)', ~IsMarked(qu, k)'
        PROVE  file'[<<qu, k, r>>] # "absent"
    <3>1. qu <= cur[1]
      BY <1>2, <2>1
    <3>2. qu < cur[1] \/ (qu = cur[1] /\ k < cur[2])
      BY <1>4, <1>6, <2>1, <3>1, SweepConstants
    <3>3. IsMarked(qu, k) \/ file[<<qu, k, r>>] # "absent"
      BY <1>1, <3>2 DEF FilesInv, Visited, Passed
    <3>4. ~IsMarked(qu, k)
      <4>1. CASE qu # cur[1]
        BY <1>6, <2>1, <4>1
      <4>2. CASE qu = cur[1]
        <5>1. ~IsMarked(cur[1], cur[2])
          BY <1>1, <1>2 DEF FilesInv, Cursor, Marked, IsMarked
        <5> QED
          BY <1>4, <3>2, <4>2, <5>1, SweepConstants DEF IsMarked
      <4> QED
        BY <4>1, <4>2
    <3> QED
      BY <1>1, <3>3, <3>4
  <2> QED
    BY <2>1 DEF Visited
<1>11. InOrder'
  BY <1>1 DEF FilesInv, InOrder
<1>12. Cursor' /\ NoneAhead' /\ Incomplete'
  BY <1>1, <1>2 DEF FilesInv, Cursor, NoneAhead, Incomplete
<1> QED
  BY <1>3, <1>8, <1>9, <1>10, <1>11, <1>12 DEF SweepInv, FilesInv

\* The sweep is stopped: the marker may have been emptied.
LEMMA LeaveKeeps ==
  ASSUME SweepInv, Leave, BenchmarkTypeOK', BenchInv', process' = "off", stops' \in 0..MaxStops,
         marker' = marker \/ (shell = "echo" /\ marker' = [marker EXCEPT ![cur[1]] = 0])
  PROVE  SweepInv'
<1>1. SweepTypeOK /\ FilesInv
      /\ shell' = "off" /\ sigint' = FALSE /\ cur' = Start /\ file' = file
      /\ torn' = {f \in Trials : file[f] = "open"}
  BY DEF SweepInv, Leave
<1>2. marker' \in [DOMAIN QUEUES -> {0} \union DOMAIN THREADS]
      /\ \A qu \in DOMAIN QUEUES : marker'[qu] = marker[qu] \/ marker'[qu] = 0
  BY <1>1, ScriptTypes
<1>3. SweepTypeOK'
  BY <1>1, <1>2, StartCell, ScriptFacts, ScriptType
<1>4. Cursor'
  BY <1>1 DEF Cursor, Start
<1>5. Visited'
  <2>1. cur'[1] = 1 /\ cur'[2] = 1
    BY <1>1 DEF Start
  <2>2. \A qu \in DOMAIN QUEUES, k \in DOMAIN THREADS : \A r \in 1..TRIALS : ~Passed(qu, k, r)'
    BY <1>1, <2>1, SweepConstants DEF Passed
  <2> QED
    BY <2>2 DEF Visited
<1>6. MarkedAbsent'
  <2>1. \A qu \in DOMAIN QUEUES, k \in DOMAIN THREADS : IsMarked(qu, k)' => IsMarked(qu, k)
    BY <1>2 DEF IsMarked, HasMarker
  <2> QED
    BY <1>1, <2>1 DEF FilesInv, MarkedAbsent
<1>7. InOrder'
  BY <1>1 DEF FilesInv, InOrder
<1>8. NoneAhead' /\ Incomplete'
  BY <1>1 DEF FilesInv, NoneAhead, Incomplete
<1> QED
  BY <1>3, <1>4, <1>5, <1>6, <1>7, <1>8 DEF SweepInv, FilesInv

LEMMA StopKeeps ==
  ASSUME SweepInv, Interrupt \/ Trap \/ Killed
  PROVE  SweepInv'
<1>1. SweepTypeOK /\ BenchInv /\ FilesInv
  BY DEF SweepInv
<1>2. stops \in 0..MaxStops /\ MaxStops \in Nat /\ BenchmarkTypeOK
      /\ (process # "off" <=> shell = "wait")
  BY <1>1, ScriptFacts
<1>3. CASE Interrupt
  <2>1. UNCHANGED <<file, marker, shell, cur, torn>> /\ UNCHANGED bench /\ sigint' = TRUE
        /\ stops > 0 /\ stops' = stops - 1
    BY <1>3 DEF Interrupt, files
  <2>2. BenchmarkTypeOK' /\ BenchInv' /\ process' = process
    BY <1>1, <1>2, <2>1, BenchSame
  <2>3. SweepTypeOK'
    <3>1. stops' \in 0..MaxStops
      BY <1>2, <2>1
    <3> QED
      BY <1>1, <2>1, <2>2, <3>1, ScriptFacts, ScriptType
  <2> QED
    BY <1>1, <2>1, <2>2, <2>3, FilesSame DEF SweepInv
<1>4. CASE Trap
  <2>1. Leave /\ shell # "wait" /\ UNCHANGED <<bench, marker, stops>>
    BY <1>4 DEF Trap
  <2>2. BenchmarkTypeOK' /\ BenchInv' /\ process' = "off"
    BY <1>1, <1>2, <2>1, BenchSame
  <2> QED
    BY <1>2, <2>1, <2>2, LeaveKeeps
<1>5. CASE Killed
  <2>1. /\ Leave /\ Exit /\ stops > 0 /\ stops' = stops - 1
        /\ marker' = marker \/ (shell = "echo" /\ marker' = [marker EXCEPT ![cur[1]] = 0])
    BY <1>5 DEF Killed
  <2>2. BenchmarkTypeOK' /\ BenchInv' /\ process' = "off"
    BY <2>1, ExitKeeps
  <2>3. stops' \in 0..MaxStops
    BY <1>2, <2>1
  <2> QED
    BY <2>1, <2>2, <2>3, LeaveKeeps
<1> QED
  BY <1>3, <1>4, <1>5

LEMMA RestartKeeps ==
  ASSUME SweepInv, Restart
  PROVE  SweepInv'
<1>1. SweepTypeOK /\ BenchInv /\ FilesInv /\ shell = "off" /\ shell' = "cell" /\ UNCHANGED bench
      /\ UNCHANGED <<file, marker, cur, sigint, stops, torn>> /\ cur = Start
  BY DEF SweepInv, Restart, files, FilesInv, Cursor
<1>2. BenchmarkTypeOK' /\ BenchInv' /\ process' = process
  BY <1>1, BenchSame, ScriptFacts
<1>3. SweepTypeOK'
  BY <1>1, <1>2, ScriptFacts, ScriptType
<1>4. Visited'
  <2>1. cur'[1] = 1 /\ cur'[2] = 1
    BY <1>1 DEF Start
  <2>2. \A qu \in DOMAIN QUEUES, k \in DOMAIN THREADS : \A r \in 1..TRIALS : ~Passed(qu, k, r)'
    BY <1>1, <2>1, SweepConstants DEF Passed
  <2> QED
    BY <2>2 DEF Visited
<1>5. MarkedAbsent' /\ InOrder'
  BY <1>1 DEF FilesInv, MarkedAbsent, InOrder, IsMarked, HasMarker
<1>6. Cursor' /\ NoneAhead' /\ Incomplete'
  BY <1>1 DEF FilesInv, Cursor, NoneAhead, Incomplete
<1> QED
  BY <1>2, <1>3, <1>4, <1>5, <1>6 DEF SweepInv, FilesInv

LEMMA SweepInit == Init => SweepInv
<1> SUFFICES ASSUME Init PROVE SweepInv
  OBVIOUS
<1>1. BenchmarkTypeOK /\ BenchInv /\ process = "off"
  <2>1. TestItems = {}
    BY DEF Init, BenchmarkInit, TestItems, count
  <2> QED
    BY <2>1 DEF Init, BenchmarkInit, BenchmarkTypeOK, BenchQueue!Init, BenchQueue!TypeOK,
      BenchQueue!Stages, BenchInv
<1>2. /\ file = [f \in Trials |-> "absent"] /\ marker = [qu \in DOMAIN QUEUES |-> 0]
      /\ shell = "cell" /\ cur = Start /\ sigint = FALSE /\ stops = MaxStops /\ torn = {}
  BY DEF Init
<1>3. SweepTypeOK
  <2>1. /\ file \in [Trials -> {"absent", "open", "complete", "wrong"}]
        /\ marker \in [DOMAIN QUEUES -> {0} \union DOMAIN THREADS]
    BY <1>2
  <2>2. stops \in 0..MaxStops
    BY <1>2, SweepAssumption
  <2> QED
    BY <1>1, <1>2, <2>1, <2>2, StartCell DEF SweepTypeOK
<1>4. \A qu \in DOMAIN QUEUES, k \in DOMAIN THREADS : \A r \in 1..TRIALS :
        ~Passed(qu, k, r) /\ file[<<qu, k, r>>] = "absent"
  <2>1. cur[1] = 1 /\ cur[2] = 1
    BY <1>2 DEF Start
  <2>2. \A qu \in DOMAIN QUEUES, k \in DOMAIN THREADS : \A r \in 1..TRIALS : ~Passed(qu, k, r)
    BY <1>2, <2>1, SweepConstants DEF Passed
  <2>3. \A qu \in DOMAIN QUEUES, k \in DOMAIN THREADS : \A r \in 1..TRIALS :
          file[<<qu, k, r>>] = "absent"
    BY <1>2, Triple
  <2> QED
    BY <2>2, <2>3
<1>5. FilesInv
  BY <1>2, <1>4 DEF FilesInv, Cursor, Visited, MarkedAbsent, InOrder, NoneAhead, Incomplete
<1> QED
  BY <1>1, <1>3, <1>5 DEF SweepInv

LEMMA SweepStep == SweepInv /\ [Next]_vars => SweepInv'
<1> SUFFICES ASSUME SweepInv, [Next]_vars PROVE SweepInv'
  OBVIOUS
<1>1. CASE Script
  BY <1>1, TestMarkerKeeps, TrialKeeps, RunMainKeeps, SucceedsKeeps, RmKeeps, EchoMarkerKeeps,
    StopKeeps DEF Script
<1>2. CASE \E t \in AllWorkers : RunWorker(t)
  BY <1>2, RunWorkerKeeps
<1>3. CASE Fails
  BY <1>3, FailsKeeps
<1>4. CASE Interrupt \/ Killed
  BY <1>4, StopKeeps
<1>5. CASE Restart
  BY <1>5, RestartKeeps
<1>6. CASE UNCHANGED vars
  <2>1. SweepTypeOK /\ BenchInv /\ FilesInv /\ UNCHANGED bench
        /\ UNCHANGED <<file, marker, shell, cur, sigint, stops, torn>>
    BY <1>6 DEF SweepInv, vars, files
  <2>2. BenchmarkTypeOK' /\ BenchInv' /\ process' = process
    BY <2>1, BenchSame, ScriptFacts
  <2>3. SweepTypeOK'
    BY <2>1, <2>2, ScriptFacts, ScriptType
  <2> QED
    BY <2>1, <2>2, <2>3, FilesSame DEF SweepInv
<1> QED
  BY <1>1, <1>2, <1>3, <1>4, <1>5, <1>6 DEF Next, Finished

LEMMA SweepInvResult == SweepInv => SweepTypeOK /\ ResultFiles
<1> SUFFICES ASSUME SweepInv PROVE ResultFiles
  BY DEF SweepInv
<1>1. ASSUME NEW f \in Trials
      PROVE  IF HasMarker(f[1]) /\ f[2] >= marker[f[1]]
             THEN file[f] = "absent"
             ELSE shell = "ended" => file[f] = "complete" \/ (file[f] = "open" /\ f \in torn)
  <2>1. f = <<f[1], f[2], f[3]>> /\ f[1] \in DOMAIN QUEUES /\ f[2] \in DOMAIN THREADS /\ f[3] \in 1..TRIALS
    BY TrialTriple
  <2>2. CASE IsMarked(f[1], f[2])
    <3>1. file[<<f[1], f[2], f[3]>>] = "absent"
      BY <2>1, <2>2 DEF SweepInv, FilesInv, MarkedAbsent
    <3> QED
      BY <2>1, <2>2, <3>1 DEF IsMarked
  <2>3. CASE ~IsMarked(f[1], f[2]) /\ shell = "ended"
    <3>1. file[<<f[1], f[2], f[3]>>] # "absent"
      BY <2>1, <2>3 DEF SweepInv, FilesInv, Visited, Passed
    <3>2. file[f] \in {"absent", "open", "complete", "wrong"}
      BY ScriptFacts DEF SweepInv
    <3> QED
      BY <2>1, <2>3, <3>1, <3>2 DEF SweepInv, FilesInv, Incomplete, IsMarked
  <2> QED
    BY <2>2, <2>3 DEF IsMarked
<1> QED
  BY <1>1 DEF ResultFiles

\* The files, the markers and the script keep their types, and a benchmark runs
\* exactly while the script waits for it (sweep.sh), for any queues, thread
\* counts and trials, wherever the sweep is stopped.
THEOREM SweepTypes == Spec => []SweepTypeOK
<1>1. Init => SweepInv
  BY SweepInit
<1>2. SweepInv /\ [Next]_vars => SweepInv'
  BY SweepStep
<1>3. SweepInv => SweepTypeOK
  BY SweepInvResult
<1> QED
  BY <1>1, <1>2, <1>3, PTL DEF Spec

\* What can be read from the files of a sweep, whenever it was stopped: no
\* result where a marker stands (sweep.sh:44), and at the end a complete file
\* for every other trial, unless an earlier sweep was stopped while it was
\* incomplete.
THEOREM SweepResults == Spec => []ResultFiles
<1>1. Init => SweepInv
  BY SweepInit
<1>2. SweepInv /\ [Next]_vars => SweepInv'
  BY SweepStep
<1>3. SweepInv => ResultFiles
  BY SweepInvResult
<1> QED
  BY <1>1, <1>2, <1>3, PTL DEF Spec

=============================================================================
