-------------------------- MODULE MutexQueueProofs --------------------------
(***************************************************************************)
(* Proofs about MutexQueue for any number of threads, items and nodes.     *)
(*                                                                         *)
(* The inductive invariant says who holds the mutex (Locked), that the     *)
(* node of a call that is not on the list is private to the thread, also   *)
(* after the mutex was released (Private), what its fields hold (Fields),  *)
(* that the list is whole at every step and only tail_ lags, by one store  *)
(* (Linked, TailLast), what a call has tested under the mutex (Tested),    *)
(* that no node is lost (Accounted) and how far the destructor has come    *)
(* (Destroying).                                                           *)
(***************************************************************************)
EXTENDS MutexQueue, Lists, TLAPS

----------------------------------------------------------------------------
(* Lists *)

\* What is true of c stays true when x is appended to it.
LEMMA AppendKeeps ==
  ASSUME NEW S, NEW c \in Seq(S), NEW x \in S, NEW m, NEW n
  PROVE  /\ Before(c, m, n) => Before(Append(c, x), m, n)
         /\ Follows(c, m, n) => Follows(Append(c, x), m, n)
         /\ Has(Append(c, x), m) <=> Has(c, m) \/ m = x
BY DEF Before, Follows, Has

\* Linking a new node x behind the last one.
LEMMA LinkLast ==
  ASSUME NEW S, NEW c \in Seq(S), c # <<>>, NoRepeat(c), NEW x \in S, ~Has(c, x),
         NEW null, NEW p \in [S -> S \union {null}], Spells(c, p, null), p[x] = null
  PROVE  /\ NoRepeat(Append(c, x))
         /\ Spells(Append(c, x), [p EXCEPT ![c[Len(c)]] = x], null)
         /\ Follows(Append(c, x), c[Len(c)], x)
         /\ LastTwo(Append(c, x), c[Len(c)])
<1> DEFINE d == Append(c, x)
<1>1. Len(d) = Len(c) + 1 /\ Len(c) >= 1 /\ Len(c) \in Nat
  OBVIOUS
<1>2. d[Len(d)] = x /\ \A i \in 1..Len(c) : d[i] = c[i] /\ c[i] \in S
  OBVIOUS
<1>3. \A i \in 1..Len(c) : c[i] # x
  BY DEF Has
<1> HIDE DEF d
<1>4. NoRepeat(d)
  BY <1>1, <1>2, <1>3 DEF NoRepeat
<1>5. Spells(d, [p EXCEPT ![c[Len(c)]] = x], null)
  BY <1>1, <1>2, <1>3 DEF Spells, NoRepeat
<1>6. Follows(d, c[Len(c)], x) /\ LastTwo(d, c[Len(c)])
  BY <1>1, <1>2 DEF Follows, LastTwo
<1> QED
  BY <1>4, <1>5, <1>6 DEF d

\* A pointer of a node outside the list may change.
LEMMA SpellsOther ==
  ASSUME NEW S, NEW c \in Seq(S), NEW null, NEW p \in [S -> S \union {null}],
         Spells(c, p, null), NEW x, ~Has(c, x), NEW y
  PROVE  Spells(c, [p EXCEPT ![x] = y], null)
BY DEF Spells, Has

LEMMA SeqEqual ==
  ASSUME NEW S, NEW s \in Seq(S), NEW u \in Seq(S), Len(s) = Len(u),
         \A i \in 1..Len(s) : s[i] = u[i]
  PROVE  s = u
OBVIOUS

\* A function over 1..n is a sequence of length n.
LEMMA FunctionSeq ==
  ASSUME NEW S, NEW n \in Nat, NEW f \in [1..n -> S]
  PROVE  f \in Seq(S) /\ Len(f) = n
OBVIOUS

\* What the rest of a list keeps when its first node is taken off.
LEMMA TailKeeps ==
  ASSUME NEW S, NEW c \in Seq(S), c # <<>>
  PROVE  /\ Tail(c) \in Seq(S) /\ Len(Tail(c)) = Len(c) - 1
         /\ \A i \in 1..(Len(c) - 1) : Tail(c)[i] = c[i + 1]
OBVIOUS

\* The pointer of the first node tells whether there is a second one.
LEMMA FirstNext ==
  ASSUME NEW S, NEW c \in Seq(S), c # <<>>, NEW null, null \notin S,
         NEW p, Spells(c, p, null)
  PROVE  /\ p[c[1]] = null => Len(c) = 1
         /\ p[c[1]] # null => Len(c) >= 2 /\ p[c[1]] = c[2]
<1>1. Len(c) \in Nat \ {0}
  OBVIOUS
<1>2. 1 \in 1..Len(c) /\ 1 + 1 = 2
  BY <1>1
<1>3. p[c[1]] = IF 1 = Len(c) THEN null ELSE c[1 + 1]
  BY <1>2 DEF Spells
<1>4. \A k \in Nat \ {0} : k = 1 \/ (k >= 2 /\ 2 \in 1..k)
  OBVIOUS
<1>5. 2 \in 1..Len(c) => c[2] \in S
  OBVIOUS
<1> QED
  BY <1>1, <1>2, <1>3, <1>4, <1>5

\* Taking the first node off a list without repetition: the rest is spelled
\* by the same pointers, and has every node but the first.
LEMMA UnlinkFirst ==
  ASSUME NEW S, NEW c \in Seq(S), c # <<>>, NoRepeat(c),
         NEW null, NEW p, Spells(c, p, null)
  PROVE  /\ NoRepeat(Tail(c)) /\ Spells(Tail(c), p, null)
         /\ \A n : Has(Tail(c), n) <=> Has(c, n) /\ n # c[1]
<1> DEFINE d == Tail(c)
<1>1. /\ d \in Seq(S) /\ Len(d) = Len(c) - 1 /\ Len(c) \in Nat \ {0}
      /\ \A i \in 1..(Len(c) - 1) : d[i] = c[i + 1]
  BY TailKeeps
<1> HIDE DEF d
<1>2. NoRepeat(d)
  BY <1>1 DEF NoRepeat
<1>3. Spells(d, p, null)
  BY <1>1 DEF Spells
<1>4. ASSUME NEW n PROVE Has(d, n) <=> Has(c, n) /\ n # c[1]
  <2>1. Has(d, n) => Has(c, n) /\ n # c[1]
    BY <1>1 DEF Has, NoRepeat
  <2>2. ASSUME NEW i \in 1..Len(c), c[i] = n, n # c[1] PROVE Has(d, n)
    <3>1. i - 1 \in 1..Len(d) /\ d[i - 1] = n
      BY <1>1, <2>2
    <3> QED
      BY <3>1 DEF Has
  <2> QED
    BY <2>1, <2>2 DEF Has
<1> QED
  BY <1>2, <1>3, <1>4 DEF d

----------------------------------------------------------------------------

\* The steps a thread makes with the mutex held.
LockedPcs == {"enqLink", "enqSwing", "enqUnlock",
              "deqTest", "deqTake", "deqTail", "deqUnlock", "deqEmpty"}

Locked == \A t \in Threads : mutex = t <=> pc[t] \in LockedPcs

\* Thread t has a node that is not on the list: the one it will link, or the
\* one it has unlinked and not deleted.
Owns(t) == pc[t] \in {"enqLock", "enqLink", "deqTail", "deqUnlock", "deqRead", "deqFree"}

Private ==
  \A t \in Threads : Owns(t) =>
    /\ node[t] \in Nodes \ free /\ ~Has(chain, node[t])
    /\ \A u \in Threads \ {t} : Owns(u) => node[u] # node[t]

\* The fields of a node a thread has to itself.
Fields ==
  \A t \in Threads :
    /\ pc[t] \in {"enqLock", "enqLink"} =>
         next[node[t]] = Null /\ item[t] \in Items /\ data[node[t]] = item[t]
    /\ pc[t] \in {"deqTail", "deqUnlock", "deqRead"} => data[node[t]] \in Items

NoItem ==
  \A t \in Threads :
    pc[t] \in {"idle", "deqLock", "deqTest", "deqTake", "deqEmpty"} => item[t] = Null

Linked ==
  /\ NoRepeat(chain) /\ Spells(chain, next, Null)
  /\ dtor = "live" => head = IF chain = <<>> THEN Null ELSE chain[1]
  /\ dtor = "live" => \A n \in free : ~Has(chain, n)
  /\ \A i \in 1..Len(chain) : data[chain[i]] \in Items

TailLast ==
  /\ \A t \in Threads : pc[t] = "enqSwing" => chain # <<>> /\ node[t] = chain[Len(chain)]
  /\ \/ tail = IF chain = <<>> THEN Null ELSE chain[Len(chain)]
     \/ \E t \in Threads : pc[t] = "enqSwing"
     \/ chain = <<>> /\ \E t \in Threads : pc[t] = "deqTail"

Tested ==
  \A t \in Threads :
    /\ pc[t] = "deqTake" => head # Null
    /\ pc[t] = "deqEmpty" => head = Null

Accounted ==
  dtor = "live" =>
    \A n \in Nodes : n \in free \/ Has(chain, n) \/ \E t \in Threads : Owns(t) /\ node[t] = n

\* The nodes before position k are freed, and head_ is the node there.
Destroying ==
  /\ dtor # "live" => \A t \in Threads : pc[t] = "idle"
  /\ dtor = "running" =>
       \E k \in 1..(Len(chain) + 1) :
         /\ head = IF k = Len(chain) + 1 THEN Null ELSE chain[k]
         /\ free = {n \in Nodes : \A i \in k..Len(chain) : n # chain[i]}
  /\ dtor = "gone" => free = Nodes

\* In the destructor tail_ is reset when the list is gone.
Shape ==
  /\ Locked /\ Private /\ Fields /\ NoItem /\ Linked
  /\ dtor = "live" => TailLast
  /\ Tested /\ Accounted

\* The inductive invariant.
IInv == TypeOK /\ Shape /\ Destroying

USE NodeAssumption DEF Goto, Pcs, EnqueuePcs, DequeuePcs, NodeOrNull, LockedPcs, Owns

----------------------------------------------------------------------------
(* The invariant is inductive *)

\* A step that leaves the list and the destructor alone.
LEMMA ListKept ==
  ASSUME IInv, dtor = "live", UNCHANGED <<list, dtor>>,
         \A n \in free' : n \in free \/ ~Has(chain, n)
  PROVE  Linked' /\ Destroying'
BY DEF IInv, Shape, Linked, Destroying, list

LEMMA InvInit == Init => IInv
<1> SUFFICES ASSUME Init PROVE IInv
  OBVIOUS
<1>1. Len(chain) = 0 /\ chain \in Seq(Nodes)
  BY DEF Init
<1>2. TypeOK
  BY <1>1 DEF Init, TypeOK
<1>3. Linked /\ TailLast /\ Accounted
  BY <1>1 DEF Init, Linked, TailLast, Accounted, NoRepeat, Spells, Has
<1>4. Locked /\ Private /\ Fields /\ NoItem /\ Tested /\ Destroying
  BY DEF Init, Locked, Private, Fields, NoItem, Tested, Destroying
<1> QED
  BY <1>2, <1>3, <1>4 DEF IInv, Shape

LEMMA InvGoto ==
  ASSUME IInv, NEW t \in Threads,
         CallDequeue(t) \/ EnqLock(t) \/ DeqLock(t) \/ DeqTest(t) \/ DeqUnlock(t)
  PROVE  IInv'
<1>1. dtor = "live" /\ UNCHANGED <<list, free, locals, unsent, dtor>>
  BY DEF CallDequeue, EnqLock, DeqLock, DeqTest, DeqUnlock, IInv, Destroying
<1>2. TypeOK'
  BY <1>1 DEF CallDequeue, EnqLock, DeqLock, DeqTest, DeqUnlock, IInv, TypeOK, list, locals
<1>3. Locked'
  BY DEF CallDequeue, EnqLock, DeqLock, DeqTest, DeqUnlock, IInv, TypeOK, Shape, Locked
<1>4. Private' /\ Fields' /\ NoItem'
  BY <1>1 DEF CallDequeue, EnqLock, DeqLock, DeqTest, DeqUnlock, IInv, TypeOK, Shape,
              Private, Fields, NoItem, list, locals
<1>5. TailLast' /\ Tested' /\ Accounted'
  BY <1>1 DEF CallDequeue, EnqLock, DeqLock, DeqTest, DeqUnlock, IInv, TypeOK, Shape,
              TailLast, Tested, Accounted, list, locals
<1> QED
  BY <1>1, <1>2, <1>3, <1>4, <1>5, ListKept DEF IInv, Shape

LEMMA InvCallEnqueue ==
  ASSUME IInv, NEW t \in Threads, NEW x \in Items, NEW n \in Nodes, CallEnqueue(t, x, n)
  PROVE  IInv'
<1>1. /\ dtor = "live" /\ n \in free /\ free' = free \ {n} /\ ~Has(chain, n)
      /\ data' = [data EXCEPT ![n] = x] /\ next' = [next EXCEPT ![n] = Null]
      /\ UNCHANGED <<head, tail, chain, dtor, mutex>>
  BY DEF CallEnqueue, IInv, Shape, Linked
<1>2. /\ node'[t] = n /\ item'[t] = x /\ pc[t] = "idle" /\ pc'[t] = "enqLock"
      /\ \A u \in Threads \ {t} : node'[u] = node[u] /\ item'[u] = item[u] /\ pc'[u] = pc[u]
      /\ data'[n] = x /\ next'[n] = Null
      /\ \A m \in Nodes \ {n} : data'[m] = data[m] /\ next'[m] = next[m]
  BY <1>1 DEF CallEnqueue, IInv, TypeOK
<1>3. TypeOK'
  BY <1>1 DEF CallEnqueue, IInv, TypeOK
<1>4. Locked' /\ NoItem' /\ TailLast' /\ Tested'
  BY <1>1, <1>2 DEF IInv, Shape, Locked, NoItem, TailLast, Tested
<1>5. Private' /\ Fields' /\ Accounted'
  BY <1>1, <1>2 DEF IInv, Shape, Private, Fields, Accounted
<1>6. Linked'
  <2>1. Spells(chain, next', Null)
    BY <1>1, SpellsOther DEF IInv, TypeOK, Shape, Linked
  <2>2. \A i \in 1..Len(chain) : data'[chain[i]] = data[chain[i]]
    BY <1>1 DEF IInv, TypeOK, Has
  <2> QED
    BY <1>1, <2>1, <2>2 DEF IInv, Shape, Linked
<1> QED
  BY <1>1, <1>3, <1>4, <1>5, <1>6 DEF IInv, Shape, Destroying

LEMMA InvEnqLink ==
  ASSUME IInv, NEW t \in Threads, EnqLink(t)
  PROVE  IInv'
<1> DEFINE n == node[t]
<1>1. /\ dtor = "live" /\ pc[t] = "enqLink" /\ n \in Nodes /\ n \notin free /\ ~Has(chain, n)
      /\ next[n] = Null /\ data[n] \in Items /\ chain \in Seq(Nodes) /\ Len(chain) \in Nat
      /\ next \in [Nodes -> Nodes \union {Null}] /\ NoRepeat(chain) /\ Spells(chain, next, Null)
      /\ head = IF chain = <<>> THEN Null ELSE chain[1]
  BY DEF EnqLink, IInv, Shape, Private, Fields, Linked, Destroying, TypeOK
<1>2. /\ chain' = Append(chain, n)
      /\ UNCHANGED <<tail, data, mutex, free, node, item, unsent, dtor>>
  BY DEF EnqLink, locals
<1>3. pc'[t] = "enqSwing" /\ \A u \in Threads \ {t} : pc'[u] = pc[u]
  BY DEF EnqLink, IInv, TypeOK
<1>4. \A u \in Threads \ {t} : pc[u] \notin LockedPcs
  BY <1>1 DEF IInv, Shape, Locked
<1>5. /\ Len(chain') = Len(chain) + 1 /\ chain'[Len(chain')] = n /\ chain' # <<>>
      /\ \A i \in 1..Len(chain) : chain'[i] = chain[i]
      /\ chain' \in Seq(Nodes)
  BY <1>1, <1>2
<1>6. \A m : Has(chain', m) <=> Has(chain, m) \/ m = n
  BY <1>1, <1>2, AppendKeeps
<1>7. /\ NoRepeat(chain') /\ Spells(chain', next', Null)
      /\ head' = chain'[1] /\ head' \in Nodes
      /\ next' \in [Nodes -> Nodes \union {Null}]
      /\ \A m \in Nodes : Has(chain, m) \/ next'[m] = next[m]
  <2>1. CASE chain = <<>>
    <3>1. head = Null /\ head' = n /\ next' = next
      BY <1>1, <2>1 DEF EnqLink
    <3>2. Len(chain') = 1 /\ chain'[1] = n
      BY <1>5, <2>1
    <3>3. NoRepeat(chain') /\ Spells(chain', next, Null)
      BY <1>1, <3>2 DEF NoRepeat, Spells
    <3> QED
      BY <1>1, <3>1, <3>2, <3>3
  <2>2. CASE chain # <<>>
    <3>1. tail = chain[Len(chain)] /\ Len(chain) \in Nat \ {0}
      BY <1>1, <1>4, <2>2 DEF IInv, Shape, TailLast
    <3>2. head # Null /\ head' = head /\ next' = [next EXCEPT ![tail] = n]
      BY <1>1, <2>2, <3>1 DEF EnqLink
    <3>3. NoRepeat(chain') /\ Spells(chain', next', Null)
      BY <1>1, <1>2, <2>2, <3>1, <3>2, LinkLast
    <3>4. head' = chain'[1] /\ head' \in Nodes
      BY <1>1, <1>5, <2>2, <3>1, <3>2
    <3>5. Has(chain, tail)
      BY <3>1 DEF Has
    <3> QED
      BY <1>1, <3>2, <3>3, <3>4, <3>5
  <2> QED
    BY <2>1, <2>2
<1>8. TypeOK'
  BY <1>1, <1>2, <1>5, <1>7 DEF EnqLink, IInv, TypeOK
<1>9. Locked' /\ NoItem' /\ Tested'
  BY <1>1, <1>2, <1>3, <1>4 DEF IInv, Shape, Locked, NoItem, Tested
<1>10. Private'
  BY <1>1, <1>2, <1>3, <1>6 DEF IInv, Shape, Private
<1>11. Fields'
  BY <1>2, <1>3, <1>7 DEF IInv, Shape, Private, Fields
<1>12. Accounted'
  BY <1>1, <1>2, <1>3, <1>6 DEF IInv, Shape, Accounted
<1>13. TailLast'
  BY <1>2, <1>3, <1>4, <1>5 DEF TailLast
<1>14. Linked'
  <2>1. \A i \in 1..Len(chain') : data[chain'[i]] \in Items
    BY <1>1, <1>5 DEF IInv, Shape, Linked
  <2> QED
    BY <1>1, <1>2, <1>5, <1>6, <1>7, <2>1 DEF IInv, Shape, Linked
<1> QED
  BY <1>1, <1>2, <1>8, <1>9, <1>10, <1>11, <1>12, <1>13, <1>14 DEF IInv, Shape, Destroying

LEMMA InvTail ==
  ASSUME IInv, NEW t \in Threads, EnqSwing(t) \/ DeqTail(t)
  PROVE  IInv'
<1>1. /\ dtor = "live" /\ UNCHANGED <<head, next, data, chain, mutex, free, locals, unsent, dtor>>
      /\ pc[t] \in LockedPcs
  BY DEF EnqSwing, DeqTail, IInv, Destroying
<1>2. \A u \in Threads \ {t} : pc[u] \notin LockedPcs
  BY <1>1 DEF IInv, Shape, Locked
<1>3. tail' = IF chain = <<>> THEN Null ELSE chain[Len(chain)]
  <2>1. CASE EnqSwing(t)
    BY <1>1, <2>1 DEF EnqSwing, IInv, Shape, TailLast
  <2>2. CASE DeqTail(t)
    BY <1>1, <1>2, <2>2 DEF DeqTail, IInv, TypeOK, Shape, TailLast, Linked
  <2> QED
    BY <2>1, <2>2
<1>4. TypeOK'
  BY <1>1, <1>3 DEF EnqSwing, DeqTail, IInv, TypeOK, locals
<1>5. Locked' /\ Private' /\ Fields' /\ NoItem'
  BY <1>1 DEF EnqSwing, DeqTail, IInv, TypeOK, Shape, Locked, Private, Fields, NoItem, locals
<1>6. Tested' /\ Accounted'
  BY <1>1 DEF EnqSwing, DeqTail, IInv, TypeOK, Shape, Tested, Accounted, locals
<1>7. TailLast'
  BY <1>1, <1>2, <1>3 DEF EnqSwing, DeqTail, IInv, TypeOK, TailLast
<1> QED
  BY <1>1, <1>4, <1>5, <1>6, <1>7 DEF IInv, Shape, Linked, Destroying

LEMMA InvReturn ==
  ASSUME IInv, NEW t \in Threads, EnqUnlock(t) \/ DeqReturnEmpty(t)
  PROVE  IInv'
<1>1. /\ dtor = "live" /\ UNCHANGED <<list, free, unsent, dtor>>
      /\ pc[t] \in {"enqUnlock", "deqEmpty"} /\ Return(t, pc[t])
  BY DEF EnqUnlock, DeqReturnEmpty, Return, IInv, Destroying
<1>2. /\ pc'[t] = "idle" /\ item'[t] = Null
      /\ \A u \in Threads \ {t} : pc'[u] = pc[u] /\ node'[u] = node[u] /\ item'[u] = item[u]
  BY <1>1 DEF Return, IInv, TypeOK
<1>3. TypeOK'
  BY <1>1 DEF EnqUnlock, DeqReturnEmpty, Return, IInv, TypeOK, list
<1>4. Locked'
  BY <1>2 DEF EnqUnlock, DeqReturnEmpty, Return, IInv, Shape, Locked
<1>5. Private' /\ Fields' /\ NoItem'
  BY <1>1, <1>2 DEF IInv, Shape, Private, Fields, NoItem, list
<1>6. TailLast' /\ Tested' /\ Accounted'
  BY <1>1, <1>2 DEF IInv, Shape, TailLast, Tested, Accounted, list
<1> QED
  BY <1>1, <1>3, <1>4, <1>5, <1>6, ListKept DEF IInv, Shape

LEMMA InvDeqTake ==
  ASSUME IInv, NEW t \in Threads, DeqTake(t)
  PROVE  IInv'
<1>1. /\ dtor = "live" /\ pc[t] = "deqTake" /\ chain # <<>> /\ head = chain[1]
      /\ chain \in Seq(Nodes) /\ Len(chain) \in Nat \ {0}
      /\ NoRepeat(chain) /\ Spells(chain, next, Null)
  BY DEF DeqTake, IInv, Shape, Tested, Linked, Destroying, TypeOK
<1>2. /\ chain' = Tail(chain) /\ head' = next[head] /\ node' = [node EXCEPT ![t] = head]
      /\ UNCHANGED <<tail, next, data, mutex, free, item, unsent, dtor>>
  BY DEF DeqTake
<1>3. /\ pc'[t] = "deqTail" /\ node'[t] = head
      /\ \A u \in Threads \ {t} : pc'[u] = pc[u] /\ node'[u] = node[u]
  BY <1>2 DEF DeqTake, IInv, TypeOK
<1>4. /\ chain' \in Seq(Nodes) /\ Len(chain') = Len(chain) - 1
      /\ \A i \in 1..(Len(chain) - 1) : chain'[i] = chain[i + 1]
  BY <1>1, <1>2, TailKeeps
<1>5. /\ NoRepeat(chain') /\ Spells(chain', next, Null)
      /\ \A m : Has(chain', m) <=> Has(chain, m) /\ m # head
  BY <1>1, <1>2, UnlinkFirst
<1>6. \A u \in Threads \ {t} : pc[u] \notin LockedPcs
  BY <1>1 DEF IInv, Shape, Locked
<1>7. Has(chain, head) /\ head \notin free /\ head \in Nodes /\ data[head] \in Items
  <2>1. Has(chain, head)
    BY <1>1 DEF Has
  <2> QED
    BY <1>1, <2>1 DEF IInv, Shape, Linked
<1>8. head' = IF chain' = <<>> THEN Null ELSE chain'[1]
  <2>1. \/ Len(chain) = 1 /\ next[head] = Null
        \/ Len(chain) >= 2 /\ next[head] = chain[2]
    BY <1>1, FirstNext
  <2> QED
    BY <1>1, <1>2, <1>4, <2>1
<1>9. chain' # <<>> => chain'[Len(chain')] = chain[Len(chain)]
  BY <1>1, <1>4
<1>10. TypeOK'
  BY <1>1, <1>2, <1>4, <1>7 DEF DeqTake, IInv, TypeOK
<1>11. Locked' /\ NoItem' /\ Tested'
  BY <1>1, <1>2, <1>3, <1>6 DEF IInv, Shape, Locked, NoItem, Tested
<1>12. Private'
  BY <1>1, <1>2, <1>3, <1>5, <1>7 DEF IInv, Shape, Private
<1>13. Fields'
  BY <1>1, <1>2, <1>3, <1>7 DEF IInv, Shape, Fields
<1>14. Accounted'
  BY <1>1, <1>2, <1>3, <1>5 DEF IInv, Shape, Accounted
<1>15. TailLast'
  BY <1>1, <1>2, <1>3, <1>6, <1>9 DEF IInv, Shape, TailLast
<1>16. Linked'
  <2>1. \A i \in 1..Len(chain') : data[chain'[i]] \in Items
    BY <1>1, <1>4 DEF IInv, Shape, Linked
  <2> QED
    BY <1>1, <1>2, <1>5, <1>8, <2>1 DEF IInv, Shape, Linked
<1> QED
  BY <1>1, <1>2, <1>10, <1>11, <1>12, <1>13, <1>14, <1>15, <1>16 DEF IInv, Shape, Destroying

LEMMA InvDeqRead ==
  ASSUME IInv, NEW t \in Threads, DeqRead(t)
  PROVE  IInv'
<1>1. /\ dtor = "live" /\ UNCHANGED <<list, mutex, free, node, unsent, dtor>>
      /\ pc[t] = "deqRead" /\ data[node[t]] \in Items
  BY DEF DeqRead, IInv, Shape, Fields, Destroying
<1>2. /\ pc'[t] = "deqFree"
      /\ \A u \in Threads \ {t} : pc'[u] = pc[u] /\ item'[u] = item[u]
  BY DEF DeqRead, IInv, TypeOK
<1>3. TypeOK'
  BY <1>1 DEF DeqRead, IInv, TypeOK, list
<1>4. Locked' /\ Private' /\ Fields' /\ NoItem'
  BY <1>1, <1>2 DEF IInv, Shape, Locked, Private, Fields, NoItem, list
<1>5. TailLast' /\ Tested' /\ Accounted'
  BY <1>1, <1>2 DEF IInv, Shape, TailLast, Tested, Accounted, list
<1> QED
  BY <1>1, <1>3, <1>4, <1>5, ListKept DEF IInv, Shape

LEMMA InvDeqFree ==
  ASSUME IInv, NEW t \in Threads, DeqFree(t)
  PROVE  IInv'
<1>1. /\ dtor = "live" /\ pc[t] = "deqFree" /\ node[t] \in Nodes \ free /\ ~Has(chain, node[t])
      /\ free' = free \union {node[t]} /\ UNCHANGED <<list, mutex, unsent, dtor>>
  BY DEF DeqFree, Return, IInv, Shape, Private, Destroying
<1>2. /\ pc'[t] = "idle" /\ item'[t] = Null
      /\ \A u \in Threads \ {t} : pc'[u] = pc[u] /\ node'[u] = node[u] /\ item'[u] = item[u]
  BY DEF DeqFree, Return, IInv, TypeOK
<1>3. TypeOK'
  BY <1>1 DEF DeqFree, Return, IInv, TypeOK, list
<1>4. Locked' /\ Fields' /\ NoItem' /\ TailLast' /\ Tested'
  BY <1>1, <1>2 DEF IInv, Shape, Locked, Fields, NoItem, TailLast, Tested, list
<1>5. Private'
  BY <1>1, <1>2 DEF IInv, Shape, Private, list
<1>6. Accounted'
  BY <1>1, <1>2 DEF IInv, Shape, Accounted, list
<1> QED
  BY <1>1, <1>3, <1>4, <1>5, <1>6, ListKept DEF IInv, Shape

LEMMA InvDestroy ==
  ASSUME IInv, Destroy \/ DeleteNext \/ DestroyDone
  PROVE  IInv'
<1>1. /\ \A t \in Threads : pc[t] = "idle"
      /\ dtor' # "live" /\ UNCHANGED <<next, data, chain, mutex, pc, locals, unsent>>
  BY DEF Destroy, DeleteNext, DestroyDone, list, IInv, TypeOK, Destroying
<1>2. Len(chain) \in Nat /\ \A i \in 1..Len(chain) : chain[i] \in Nodes
  BY DEF IInv, TypeOK, Shape, Linked
<1>3. Shape'
  BY <1>1 DEF IInv, Shape, Locked, Private, Fields, NoItem, Linked, Tested, Accounted, locals
<1>4. TypeOK'
  BY DEF Destroy, DeleteNext, DestroyDone, list, locals, IInv, TypeOK
<1>5. Destroying'
  <2>1. CASE Destroy
    <3>1. /\ head = IF chain = <<>> THEN Null ELSE chain[1]
          /\ chain \in Seq(Nodes) /\ free \subseteq Nodes /\ \A n \in Nodes : n \in free <=> ~Has(chain, n)
      BY <1>1, <2>1 DEF Destroy, IInv, TypeOK, Shape, Linked, Accounted
    <3>2. free = {n \in Nodes : \A i \in 1..Len(chain) : n # chain[i]}
      BY <3>1 DEF Has
    <3>3. dtor' = "running" /\ head' = head /\ free' = free /\ chain' = chain /\ pc' = pc
      BY <2>1 DEF Destroy, list
    <3>4. 1 \in 1..(Len(chain) + 1) /\ (1 = Len(chain) + 1 <=> chain = <<>>)
      BY <1>2, <3>1
    <3> QED
      BY <1>1, <3>1, <3>2, <3>3, <3>4 DEF Destroying
  <2>2. CASE DeleteNext
    <3>1. PICK k \in 1..(Len(chain) + 1) :
            /\ head = IF k = Len(chain) + 1 THEN Null ELSE chain[k]
            /\ free = {n \in Nodes : \A i \in k..Len(chain) : n # chain[i]}
      BY <2>2 DEF DeleteNext, IInv, Destroying
    <3>2. k \in 1..Len(chain) /\ head = chain[k]
      BY <1>2, <2>2, <3>1 DEF DeleteNext
    <3>3. next[head] = IF k + 1 = Len(chain) + 1 THEN Null ELSE chain[k + 1]
      BY <1>2, <3>2 DEF IInv, Shape, Linked, Spells
    <3>4. free \union {head} = {n \in Nodes : \A i \in (k + 1)..Len(chain) : n # chain[i]}
      <4>1. \A i \in (k + 1)..Len(chain) : head # chain[i]
        BY <1>2, <3>2 DEF IInv, Shape, Linked, NoRepeat
      <4>2. \A i \in k..Len(chain) : i = k \/ i \in (k + 1)..Len(chain)
        BY <1>2, <3>2
      <4>3. \A i \in (k + 1)..Len(chain) : i \in k..Len(chain)
        BY <1>2, <3>2
      <4> QED
        BY <1>2, <3>1, <3>2, <4>1, <4>2, <4>3
    <3>5. /\ dtor' = "running" /\ head' = next[head] /\ free' = free \union {head}
          /\ k + 1 \in 1..(Len(chain) + 1)
      BY <1>2, <2>2, <3>2 DEF DeleteNext
    <3> QED
      BY <1>1, <3>3, <3>4, <3>5 DEF Destroying
  <2>3. CASE DestroyDone
    <3>1. PICK k \in 1..(Len(chain) + 1) :
            /\ head = IF k = Len(chain) + 1 THEN Null ELSE chain[k]
            /\ free = {n \in Nodes : \A i \in k..Len(chain) : n # chain[i]}
      BY <2>3 DEF DestroyDone, IInv, Destroying
    <3>2. k = Len(chain) + 1
      BY <1>2, <2>3, <3>1 DEF DestroyDone
    <3>3. k..Len(chain) = {}
      BY <1>2, <3>2
    <3>4. free = Nodes
      BY <3>1, <3>3
    <3> QED
      BY <1>1, <2>3, <3>4 DEF DestroyDone, Destroying
  <2> QED
    BY <2>1, <2>2, <2>3
<1> QED
  BY <1>3, <1>4, <1>5 DEF IInv

LEMMA InvStutter == IInv /\ UNCHANGED vars => IInv'
BY DEF IInv, TypeOK, Shape, Locked, Private, Fields, NoItem, Linked, TailLast, Tested, Accounted,
       Destroying, vars, list, locals

LEMMA InvNext == IInv /\ [Next]_vars => IInv'
<1> SUFFICES ASSUME IInv, [Next]_vars PROVE IInv'
  OBVIOUS
<1>1. ASSUME NEW t \in Threads, Call(t) PROVE IInv'
  BY <1>1, InvGoto, InvCallEnqueue DEF Call
<1>2. ASSUME NEW t \in Threads, Enqueue(t) PROVE IInv'
  BY <1>2, InvGoto, InvEnqLink, InvTail, InvReturn DEF Enqueue
<1>3. ASSUME NEW t \in Threads, Dequeue(t) PROVE IInv'
  BY <1>3, InvGoto, InvReturn, InvDeqTake, InvTail, InvDeqRead, InvDeqFree DEF Dequeue
<1> QED
  BY <1>1, <1>2, <1>3, InvDestroy, InvStutter DEF Next, Gone

LEMMA Invariant == Spec => []IInv
BY InvInit, InvNext, PTL DEF Spec

----------------------------------------------------------------------------
(* The safety properties *)

\* Type correctness: every variable, and every local of every call, keeps its
\* type, and a call that has a node has it in its local.
THEOREM TypeCorrect == Spec => []TypeOK
<1>1. IInv => TypeOK
  BY DEF IInv
<1> QED
  BY Invariant, <1>1, PTL

\* No two threads are between lock and unlock.
MutualExclusion == \A t, u \in Threads : pc[t] \in LockedPcs /\ pc[u] \in LockedPcs => t = u

\* The mutex keeps all threads but one out of the section it guards.
THEOREM LockExcludes == Spec => []MutualExclusion
<1>1. IInv => MutualExclusion
  BY DEF IInv, Shape, Locked, MutualExclusion
<1> QED
  BY Invariant, <1>1, PTL

\* Whenever the mutex is free the list is whole: head_, the next pointers and
\* tail_ agree with the order of the links, and no node of it is free, for any
\* number of threads and addresses that are handed out again.
THEOREM ListKeepsShape == Spec => []ListShape
<1>1. IInv => ListShape
  <2> SUFFICES ASSUME IInv, mutex = Null, dtor = "live"
               PROVE  /\ head = IF chain = <<>> THEN Null ELSE chain[1]
                      /\ tail = IF chain = <<>> THEN Null ELSE chain[Len(chain)]
                      /\ \A i \in 1..Len(chain) :
                           /\ chain[i] \notin free
                           /\ next[chain[i]] = IF i = Len(chain) THEN Null ELSE chain[i + 1]
    BY DEF ListShape
  <2>1. head = (IF chain = <<>> THEN Null ELSE chain[1]) /\ Spells(chain, next, Null)
    BY DEF IInv, Shape, Linked
  <2>2. \A i \in 1..Len(chain) : chain[i] \notin free
    BY DEF IInv, Shape, Linked, Has
  <2>3. \A t \in Threads : pc[t] \notin LockedPcs
    BY DEF IInv, Shape, Locked
  <2>4. tail = IF chain = <<>> THEN Null ELSE chain[Len(chain)]
    BY <2>3 DEF IInv, Shape, TailLast
  <2> QED
    BY <2>1, <2>2, <2>4 DEF Spells
<1> QED
  BY Invariant, <1>1, PTL

\* No step follows a null or deleted pointer or deletes a node twice, although
\* dequeue reads its node and deletes it after it has released the mutex, and
\* the destructor leaves no node behind.
THEOREM MemoryIsSafe == Spec => []MemorySafe
<1>1. IInv => MemorySafe
  <2> SUFFICES ASSUME IInv PROVE MemorySafe
    OBVIOUS
  <2>1. ASSUME NEW t \in Threads PROVE Deref(t) \intersect (free \union {Null}) = {}
    <3>1. CASE pc[t] = "idle"
      BY <3>1 DEF Deref
    <3>2. CASE dtor = "live"
      <4>1. \A i \in 1..Len(chain) : chain[i] \notin free /\ chain[i] # Null
        BY <3>2 DEF IInv, TypeOK, Shape, Linked, Has
      <4>2. /\ head = IF chain = <<>> THEN Null ELSE chain[1]
            /\ chain # <<>> => Len(chain) \in Nat \ {0}
        BY <3>2 DEF IInv, TypeOK, Shape, Linked
      <4>3. pc[t] = "enqLink" /\ chain # <<>> => tail = chain[Len(chain)]
        BY <3>2 DEF IInv, Shape, TailLast, Locked
      <4>4. pc[t] = "deqTake" => head # Null
        BY DEF IInv, Shape, Tested
      <4>5. pc[t] \in {"deqRead", "deqFree"} => node[t] \in Nodes \ free
        BY DEF IInv, Shape, Private
      <4>6. CASE pc[t] = "enqLink" /\ head # Null
        BY <4>1, <4>2, <4>3, <4>6 DEF Deref
      <4>7. CASE pc[t] = "deqTake"
        BY <4>1, <4>2, <4>4, <4>7 DEF Deref
      <4>8. CASE pc[t] \in {"deqRead", "deqFree"}
        BY <4>5, <4>8 DEF Deref
      <4> QED
        BY <4>6, <4>7, <4>8 DEF Deref
    <3> QED
      BY <3>1, <3>2 DEF IInv, Destroying
  <2>2. dtor = "running" => head \notin free
    <3> SUFFICES ASSUME dtor = "running" PROVE head \notin free
      OBVIOUS
    <3>1. PICK k \in 1..(Len(chain) + 1) :
            /\ head = IF k = Len(chain) + 1 THEN Null ELSE chain[k]
            /\ free = {n \in Nodes : \A i \in k..Len(chain) : n # chain[i]}
      BY DEF IInv, Destroying
    <3>2. chain \in Seq(Nodes)
      BY DEF IInv, TypeOK
    <3> QED
      BY <3>1, <3>2
  <2> QED
    BY <2>1, <2>2 DEF MemorySafe, IInv, Destroying
<1> QED
  BY Invariant, <1>1, PTL

----------------------------------------------------------------------------
(* Refinement: every step is a step of FifoQueue, or leaves its state alone *)

\* The state of FifoQueue, as the instance Fifo defines it.
Queue == [i \in 1..Len(chain) |-> data[chain[i]]]
Stage == [t \in Threads |-> StageOf(t)]
ValOf(t) == IF pc[t] \in {"deqTail", "deqUnlock", "deqRead"} THEN data[node[t]] ELSE item[t]
Val == [t \in Threads |-> ValOf(t)]

QueueTyped == Queue \in Seq(Items) /\ Len(Queue) = Len(chain) /\ Len(chain) \in Nat

LEMMA QueueType == IInv => QueueTyped
<1> SUFFICES ASSUME IInv PROVE QueueTyped
  OBVIOUS
<1>1. Len(chain) \in Nat /\ Queue \in [1..Len(chain) -> Items]
  BY DEF IInv, TypeOK, Shape, Linked, Queue
<1> QED
  BY <1>1, FunctionSeq DEF QueueTyped

LEMMA QueueTypeNext == IInv' => QueueTyped'
BY QueueType, PTL

\* Thread t alone makes a step; the nodes other threads have to themselves
\* keep their items.
Alone(t) ==
  \A u \in Threads \ {t} :
    /\ pc'[u] = pc[u] /\ node'[u] = node[u] /\ item'[u] = item[u]
    /\ Owns(u) => data'[node[u]] = data[node[u]]

\* A step of thread t alone changes the stage and the value of thread t alone.
LEMMA StageStep ==
  ASSUME NEW t \in Threads, Alone(t)
  PROVE  Stage' = [Stage EXCEPT ![t] = StageOf(t)'] /\ Val' = [Val EXCEPT ![t] = ValOf(t)']
<1>1. \A u \in Threads \ {t} : StageOf(u)' = StageOf(u)
  BY DEF StageOf, Alone
<1>2. \A u \in Threads \ {t} : ValOf(u)' = ValOf(u)
  BY DEF ValOf, Alone
<1> QED
  BY <1>1, <1>2 DEF Stage, Val

\* A step that passes no stage and leaves the queue alone is no step of FifoQueue.
LEMMA Silent ==
  ASSUME NEW t \in Threads, Alone(t), StageOf(t)' = StageOf(t), ValOf(t)' = ValOf(t),
         UNCHANGED <<chain, data>>
  PROVE  UNCHANGED Fifo!vars
<1>1. Stage' = Stage /\ Val' = Val
  BY StageStep DEF Stage, Val
<1>2. Queue' = Queue
  BY DEF Queue
<1> QED
  BY <1>1, <1>2 DEF Fifo!vars, Stage, Val, ValOf, Queue

LEMMA FifoCall ==
  ASSUME IInv, NEW t \in Threads, Call(t)
  PROVE  Fifo!Next
<1>1. CASE CallDequeue(t)
  <2>1. /\ StageOf(t) = "idle" /\ StageOf(t)' = "deq" /\ ValOf(t)' = ValOf(t)
        /\ Alone(t) /\ UNCHANGED <<chain, data>>
    BY <1>1 DEF CallDequeue, list, locals, StageOf, ValOf, Alone, IInv, TypeOK
  <2>2. Stage' = [Stage EXCEPT ![t] = "deq"] /\ Stage[t] = "idle" /\ Val' = Val
    BY <2>1, StageStep DEF Stage, Val
  <2>3. Fifo!CallDequeue(t)
    BY <2>1, <2>2 DEF Fifo!CallDequeue, Fifo!Pass, Stage, Val, ValOf
  <2> QED
    BY <2>3 DEF Fifo!Next
<1>2. ASSUME NEW x \in Items, NEW n \in Nodes, CallEnqueue(t, x, n)
      PROVE  Fifo!Next
  <2>1. n \in free /\ ~Has(chain, n) /\ chain' = chain /\ data' = [data EXCEPT ![n] = x]
    BY <1>2 DEF CallEnqueue, IInv, Shape, Linked
  <2>2. StageOf(t) = "idle" /\ StageOf(t)' = "enq" /\ ValOf(t)' = x /\ Alone(t)
    <3>1. \A u \in Threads \ {t} : Owns(u) => node[u] \in Nodes \ {n}
      BY <2>1 DEF IInv, Shape, Private
    <3>2. \A m \in Nodes \ {n} : data'[m] = data[m]
      BY <2>1 DEF IInv, TypeOK
    <3> QED
      BY <1>2, <3>1, <3>2 DEF CallEnqueue, StageOf, ValOf, Alone, IInv, TypeOK
  <2>3. Stage' = [Stage EXCEPT ![t] = "enq"] /\ Stage[t] = "idle" /\ Val' = [Val EXCEPT ![t] = x]
    BY <2>2, StageStep DEF Stage
  <2>4. \A i \in 1..Len(chain) : data'[chain[i]] = data[chain[i]]
    BY <2>1 DEF Has, IInv, TypeOK
  <2>5. Queue' = Queue
    BY <2>1, <2>4 DEF Queue
  <2>6. Fifo!CallEnqueue(t, x)
    BY <2>3, <2>5 DEF Fifo!CallEnqueue, Fifo!Pass, Stage, Val, ValOf, Queue
  <2> QED
    BY <2>6 DEF Fifo!Next
<1> QED
  BY <1>1, <1>2 DEF Call

\* The enqueue takes effect when it links its node.
LEMMA FifoEnqueue ==
  ASSUME IInv, IInv', NEW t \in Threads, Enqueue(t)
  PROVE  Fifo!Next \/ UNCHANGED Fifo!vars
<1>1. CASE EnqLock(t)
  BY <1>1, Silent DEF EnqLock, list, locals, StageOf, ValOf, Alone, IInv, TypeOK
<1>2. CASE EnqLink(t)
  <2>1. /\ StageOf(t) = "enq" /\ StageOf(t)' = "enqDone" /\ ValOf(t) = item[t]
        /\ ValOf(t)' = ValOf(t) /\ Alone(t) /\ UNCHANGED data
        /\ chain' = Append(chain, node[t])
    BY <1>2 DEF EnqLink, locals, StageOf, ValOf, Alone, IInv, TypeOK
  <2>2. /\ Stage' = [Stage EXCEPT ![t] = "enqDone"] /\ Stage[t] = "enq"
        /\ Val' = Val /\ Val[t] = item[t]
    BY <2>1, StageStep DEF Stage, Val
  <2>3. node[t] \in Nodes /\ data[node[t]] = item[t] /\ item[t] \in Items /\ chain \in Seq(Nodes)
    BY <1>2 DEF EnqLink, IInv, Shape, Private, Fields, TypeOK
  <2>4. Queue' = Append(Queue, item[t])
    <3>1. /\ Queue \in Seq(Items) /\ Len(Queue) = Len(chain) /\ Len(chain) \in Nat
          /\ Queue' \in Seq(Items) /\ Len(Queue') = Len(chain')
      BY QueueType, QueueTypeNext DEF QueueTyped
    <3>2. /\ Append(Queue, item[t]) \in Seq(Items) /\ Len(Append(Queue, item[t])) = Len(chain) + 1
          /\ Len(chain') = Len(chain) + 1
      BY <2>1, <2>3, <3>1
    <3>3. ASSUME NEW i \in 1..(Len(chain) + 1) PROVE Queue'[i] = Append(Queue, item[t])[i]
      <4>1. Queue'[i] = data[chain'[i]]
        BY <2>1, <3>1, <3>2 DEF Queue
      <4>2. CASE i = Len(chain) + 1
        <5>1. chain'[i] = node[t] /\ Append(Queue, item[t])[i] = item[t]
          BY <2>1, <2>3, <3>1, <4>2
        <5> QED
          BY <2>3, <4>1, <5>1
      <4>3. CASE i \in 1..Len(chain)
        <5>1. chain'[i] = chain[i] /\ Append(Queue, item[t])[i] = Queue[i]
          BY <2>1, <2>3, <3>1, <4>3
        <5> QED
          BY <4>1, <4>3, <5>1 DEF Queue
      <4> QED
        BY <3>1, <4>2, <4>3
    <3> QED
      BY <3>1, <3>2, <3>3, SeqEqual
  <2>5. Fifo!CommitEnqueue(t)
    BY <2>2, <2>4 DEF Fifo!CommitEnqueue, Fifo!Pass, Stage, Val, ValOf, Queue
  <2> QED
    BY <2>5 DEF Fifo!Next
<1>3. CASE EnqSwing(t)
  BY <1>3, Silent DEF EnqSwing, locals, StageOf, ValOf, Alone, IInv, TypeOK
<1>4. CASE EnqUnlock(t)
  <2>1. /\ StageOf(t) = "enqDone" /\ StageOf(t)' = "idle" /\ ValOf(t)' = Null
        /\ Alone(t) /\ UNCHANGED <<chain, data>>
    BY <1>4 DEF EnqUnlock, Return, list, StageOf, ValOf, Alone, IInv, TypeOK
  <2>2. Stage' = [Stage EXCEPT ![t] = "idle"] /\ Stage[t] = "enqDone" /\ Val' = [Val EXCEPT ![t] = Null]
    BY <2>1, StageStep DEF Stage
  <2>3. Fifo!ReturnEnqueue(t)
    BY <2>1, <2>2 DEF Fifo!ReturnEnqueue, Fifo!Pass, Stage, Val, ValOf
  <2> QED
    BY <2>3 DEF Fifo!Next
<1> QED
  BY <1>1, <1>2, <1>3, <1>4 DEF Enqueue

\* The dequeue takes effect when it moves head_, or when it finds head_ null.
\* It reads the item only after it has released the mutex; the item is still
\* the one it removed, because the node is private to it.
LEMMA FifoDequeue ==
  ASSUME IInv, IInv', NEW t \in Threads, Dequeue(t)
  PROVE  Fifo!Next \/ UNCHANGED Fifo!vars
<1>1. CASE DeqLock(t)
  BY <1>1, Silent DEF DeqLock, list, locals, StageOf, ValOf, Alone, IInv, TypeOK
<1>2. CASE DeqTest(t)
  <2>1. Alone(t) /\ UNCHANGED <<chain, data>> /\ ValOf(t)' = ValOf(t)
    BY <1>2 DEF DeqTest, list, locals, ValOf, Alone, IInv, TypeOK
  <2>2. CASE head # Null
    BY <1>2, <2>1, <2>2, Silent DEF DeqTest, StageOf, IInv, TypeOK
  <2>3. CASE head = Null
    <3>0. StageOf(t) = "deq" /\ StageOf(t)' = "deqEmpty"
      BY <1>2, <2>3 DEF DeqTest, StageOf, IInv, TypeOK
    <3>1. Stage' = [Stage EXCEPT ![t] = "deqEmpty"] /\ Stage[t] = "deq" /\ Val' = Val
      BY <2>1, <3>0, StageStep DEF Stage, Val
    <3>2. chain = <<>>
      BY <1>2, <2>3 DEF DeqTest, IInv, TypeOK, Destroying, Shape, Linked
    <3>3. Queue = <<>>
      BY <3>2, QueueType DEF QueueTyped
    <3>4. Fifo!ObserveEmpty(t)
      BY <2>1, <3>1, <3>3 DEF Fifo!ObserveEmpty, Fifo!Pass, Stage, Val, ValOf, Queue
    <3> QED
      BY <3>4 DEF Fifo!Next
  <2> QED
    BY <2>2, <2>3
<1>3. CASE DeqReturnEmpty(t)
  <2>1. /\ StageOf(t) = "deqEmpty" /\ StageOf(t)' = "idle" /\ ValOf(t)' = ValOf(t)
        /\ Alone(t) /\ UNCHANGED <<chain, data>>
    BY <1>3 DEF DeqReturnEmpty, Return, list, StageOf, ValOf, Alone, IInv, TypeOK, Shape, NoItem
  <2>2. Stage' = [Stage EXCEPT ![t] = "idle"] /\ Stage[t] = "deqEmpty" /\ Val' = Val
    BY <2>1, StageStep DEF Stage, Val
  <2>3. Fifo!ReturnEmpty(t)
    BY <2>1, <2>2 DEF Fifo!ReturnEmpty, Fifo!Pass, Stage, Val, ValOf
  <2> QED
    BY <2>3 DEF Fifo!Next
<1>4. CASE DeqTake(t)
  <2>1. /\ StageOf(t) = "deq" /\ StageOf(t)' = "deqDone" /\ ValOf(t)' = data[head]
        /\ Alone(t) /\ UNCHANGED data /\ chain' = Tail(chain)
    BY <1>4 DEF DeqTake, StageOf, ValOf, Alone, IInv, TypeOK
  <2>2. /\ Stage' = [Stage EXCEPT ![t] = "deqDone"] /\ Stage[t] = "deq"
        /\ Val' = [Val EXCEPT ![t] = data[head]]
    BY <2>1, StageStep DEF Stage
  <2>3. chain # <<>> /\ head = chain[1] /\ chain \in Seq(Nodes)
    BY <1>4 DEF DeqTake, IInv, Shape, Tested, Linked, Destroying, TypeOK
  <2>4. /\ Queue \in Seq(Items) /\ Len(Queue) = Len(chain) /\ Len(chain) \in Nat \ {0}
        /\ Queue' \in Seq(Items) /\ Len(Queue') = Len(chain')
    BY <2>3, QueueType, QueueTypeNext DEF QueueTyped
  <2>5. Queue # <<>> /\ Head(Queue) = data[head]
    <3>1. Queue[1] = data[chain[1]]
      BY <2>3, <2>4 DEF Queue
    <3> QED
      BY <2>3, <2>4, <3>1
  <2>6. Queue' = Tail(Queue)
    <3>1. /\ Len(chain') = Len(chain) - 1 /\ Len(Tail(Queue)) = Len(chain) - 1
          /\ Tail(Queue) \in Seq(Items)
      BY <2>1, <2>3, <2>4
    <3>2. ASSUME NEW i \in 1..(Len(chain) - 1) PROVE Queue'[i] = Tail(Queue)[i]
      <4>1. Queue'[i] = data[chain'[i]]
        BY <2>1, <2>4, <3>1 DEF Queue
      <4>2. chain'[i] = chain[i + 1] /\ Tail(Queue)[i] = Queue[i + 1]
        BY <2>1, <2>3, <2>4, <3>1
      <4>3. Queue[i + 1] = data[chain[i + 1]]
        BY <2>3, <2>4 DEF Queue
      <4> QED
        BY <4>1, <4>2, <4>3
    <3> QED
      BY <2>4, <3>1, <3>2, SeqEqual
  <2>7. Fifo!CommitDequeue(t)
    BY <2>2, <2>5, <2>6 DEF Fifo!CommitDequeue, Fifo!Pass, Stage, Val, ValOf, Queue
  <2> QED
    BY <2>7 DEF Fifo!Next
<1>5. CASE DeqTail(t) \/ DeqUnlock(t) \/ DeqRead(t)
  BY <1>5, Silent DEF DeqTail, DeqUnlock, DeqRead, list, locals, StageOf, ValOf, Alone, IInv, TypeOK
<1>6. CASE DeqFree(t)
  <2>1. /\ StageOf(t) = "deqDone" /\ StageOf(t)' = "idle" /\ ValOf(t)' = Null
        /\ Alone(t) /\ UNCHANGED <<chain, data>>
    BY <1>6 DEF DeqFree, Return, list, StageOf, ValOf, Alone, IInv, TypeOK
  <2>2. Stage' = [Stage EXCEPT ![t] = "idle"] /\ Stage[t] = "deqDone" /\ Val' = [Val EXCEPT ![t] = Null]
    BY <2>1, StageStep DEF Stage
  <2>3. Fifo!ReturnDequeue(t)
    BY <2>1, <2>2 DEF Fifo!ReturnDequeue, Fifo!Pass, Stage, Val, ValOf
  <2> QED
    BY <2>3 DEF Fifo!Next
<1> QED
  BY <1>1, <1>2, <1>3, <1>4, <1>5, <1>6 DEF Dequeue

LEMMA FifoInit == Init => Fifo!Init
<1> SUFFICES ASSUME Init PROVE Fifo!Init
  OBVIOUS
<1>1. Queue = <<>>
  BY InvInit, QueueType DEF QueueTyped, Init
<1>2. Stage = [t \in Threads |-> "idle"] /\ Val = [t \in Threads |-> Null]
  BY DEF Init, Stage, StageOf, Val, ValOf
<1> QED
  BY <1>1, <1>2 DEF Init, Fifo!Init, Queue, Stage, Val, ValOf

LEMMA FifoNext == IInv /\ IInv' /\ [Next]_vars => [Fifo!Next]_(Fifo!vars)
<1> SUFFICES ASSUME IInv, IInv', [Next]_vars PROVE Fifo!Next \/ UNCHANGED Fifo!vars
  OBVIOUS
<1>1. CASE Destroy \/ DeleteNext \/ DestroyDone \/ UNCHANGED vars
  <2>1. UNCHANGED <<chain, data, pc, node, item>>
    BY <1>1 DEF Destroy, DeleteNext, DestroyDone, vars, list, locals
  <2> QED
    BY <2>1 DEF Fifo!vars, StageOf
<1> QED
  BY <1>1, FifoCall, FifoEnqueue, FifoDequeue DEF Next, Gone

\* MutexQueue implements FifoQueue: every call takes effect at one instant
\* between its call and its return, in FIFO order, and a dequeue that returns
\* false saw the queue empty.
THEOREM IsLinearizable == Spec => Linearizable
BY Invariant, InvNext, FifoInit, FifoNext, PTL DEF Spec, Linearizable, Fifo!Spec

=============================================================================
