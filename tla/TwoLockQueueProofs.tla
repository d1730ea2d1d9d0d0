------------------------- MODULE TwoLockQueueProofs -------------------------
(***************************************************************************)
(* Proofs about TwoLockQueue for any number of threads, items and nodes.   *)
(*                                                                         *)
(* The properties are not inductive.  What makes them so: a lock is held   *)
(* by the thread inside its critical section and by no other (Locks), the  *)
(* node of a call that is not on the list is private to the thread         *)
(* (Private), what a thread read under the head lock stays true while it   *)
(* holds the lock (Reads), tail_ is the last node but between the two      *)
(* stores of an enqueue (TailLast), no node is lost (Accounted), and the   *)
(* destructor frees the list from the front (Destroying).                  *)
(***************************************************************************)
EXTENDS TwoLockQueue, Lists, TLAPS

----------------------------------------------------------------------------
(* Lists *)

\* What is true of c stays true when x is appended to it.
LEMMA AppendKeeps ==
  ASSUME NEW S, NEW c \in Seq(S), NEW x \in S, NEW m, NEW n
  PROVE  /\ Before(c, m, n) => Before(Append(c, x), m, n)
         /\ Follows(c, m, n) => Follows(Append(c, x), m, n)
         /\ Has(Append(c, x), m) <=> Has(c, m) \/ m = x
BY DEF Before, Follows, Has

\* Linking a new node x behind the last one.
LEMMA LinkLast ==
  ASSUME NEW S, NEW c \in Seq(S), c # <<>>, NoRepeat(c), NEW x \in S, ~Has(c, x),
         NEW null, NEW p \in [S -> S \union {null}], Spells(c, p, null), p[x] = null
  PROVE  /\ NoRepeat(Append(c, x))
         /\ Spells(Append(c, x), [p EXCEPT ![c[Len(c)]] = x], null)
         /\ Follows(Append(c, x), c[Len(c)], x)
         /\ LastTwo(Append(c, x), c[Len(c)])
<1> DEFINE d == Append(c, x)
<1>1. Len(d) = Len(c) + 1 /\ Len(c) >= 1 /\ Len(c) \in Nat
  OBVIOUS
<1>2. d[Len(d)] = x /\ \A i \in 1..Len(c) : d[i] = c[i] /\ c[i] \in S
  OBVIOUS
<1>3. \A i \in 1..Len(c) : c[i] # x
  BY DEF Has
<1> HIDE DEF d
<1>4. NoRepeat(d)
  BY <1>1, <1>2, <1>3 DEF NoRepeat
<1>5. Spells(d, [p EXCEPT ![c[Len(c)]] = x], null)
  BY <1>1, <1>2, <1>3 DEF Spells, NoRepeat
<1>6. Follows(d, c[Len(c)], x) /\ LastTwo(d, c[Len(c)])
  BY <1>1, <1>2 DEF Follows, LastTwo
<1> QED
  BY <1>4, <1>5, <1>6 DEF d

\* A pointer of a node outside the list may change.
LEMMA SpellsOther ==
  ASSUME NEW S, NEW c \in Seq(S), NEW null, NEW p \in [S -> S \union {null}],
         Spells(c, p, null), NEW x, ~Has(c, x), NEW y
  PROVE  Spells(c, [p EXCEPT ![x] = y], null)
BY DEF Spells, Has

LEMMA SeqEqual ==
  ASSUME NEW S, NEW s \in Seq(S), NEW u \in Seq(S), Len(s) = Len(u),
         \A i \in 1..Len(s) : s[i] = u[i]
  PROVE  s = u
OBVIOUS

\* A function over 1..n is a sequence of length n.
LEMMA FunctionSeq ==
  ASSUME NEW S, NEW n \in Nat, NEW f \in [1..n -> S]
  PROVE  f \in Seq(S) /\ Len(f) = n
OBVIOUS

\* What the rest of a list keeps when its first node is taken off.
LEMMA TailKeeps ==
  ASSUME NEW S, NEW c \in Seq(S), c # <<>>
  PROVE  /\ Tail(c) \in Seq(S) /\ Len(Tail(c)) = Len(c) - 1
         /\ \A i \in 1..(Len(c) - 1) : Tail(c)[i] = c[i + 1]
OBVIOUS

\* The pointer of the first node tells whether there is a second one.
LEMMA FirstNext ==
  ASSUME NEW S, NEW c \in Seq(S), c # <<>>, NEW null, null \notin S,
         NEW p, Spells(c, p, null)
  PROVE  /\ p[c[1]] = null => Len(c) = 1
         /\ p[c[1]] # null => Len(c) >= 2 /\ p[c[1]] = c[2]
<1>1. Len(c) \in Nat \ {0}
  OBVIOUS
<1>2. 1 \in 1..Len(c) /\ 1 + 1 = 2
  BY <1>1
<1>3. p[c[1]] = IF 1 = Len(c) THEN null ELSE c[1 + 1]
  BY <1>2 DEF Spells
<1>4. \A k \in Nat \ {0} : k = 1 \/ (k >= 2 /\ 2 \in 1..k)
  OBVIOUS
<1>5. 2 \in 1..Len(c) => c[2] \in S
  OBVIOUS
<1> QED
  BY <1>1, <1>2, <1>3, <1>4, <1>5

\* Taking the first node off a list without repetition: the rest is spelled
\* by the same pointers, and has every node but the first.
LEMMA UnlinkFirst ==
  ASSUME NEW S, NEW c \in Seq(S), c # <<>>, NoRepeat(c),
         NEW null, NEW p, Spells(c, p, null)
  PROVE  /\ NoRepeat(Tail(c)) /\ Spells(Tail(c), p, null)
         /\ \A n : Has(Tail(c), n) <=> Has(c, n) /\ n # c[1]
<1> DEFINE d == Tail(c)
<1>1. /\ d \in Seq(S) /\ Len(d) = Len(c) - 1 /\ Len(c) \in Nat \ {0}
      /\ \A i \in 1..(Len(c) - 1) : d[i] = c[i + 1]
  BY TailKeeps
<1> HIDE DEF d
<1>2. NoRepeat(d)
  BY <1>1 DEF NoRepeat
<1>3. Spells(d, p, null)
  BY <1>1 DEF Spells
<1>4. ASSUME NEW n PROVE Has(d, n) <=> Has(c, n) /\ n # c[1]
  <2>1. Has(d, n) => Has(c, n) /\ n # c[1]
    BY <1>1 DEF Has, NoRepeat
  <2>2. ASSUME NEW i \in 1..Len(c), c[i] = n, n # c[1] PROVE Has(d, n)
    <3>1. i - 1 \in 1..Len(d) /\ d[i - 1] = n
      BY <1>1, <2>2
    <3> QED
      BY <3>1 DEF Has
  <2> QED
    BY <2>1, <2>2 DEF Has
<1> QED
  BY <1>2, <1>3, <1>4 DEF d

----------------------------------------------------------------------------

TailPcs == {"enqLink", "enqSwing", "enqUnlock"}
HeadPcs == {"deqRead", "deqCheck", "deqSwing", "deqUnlock"}

Locks ==
  \A t \in Threads :
    /\ tailLock = t <=> pc[t] \in TailPcs
    /\ headLock = t <=> pc[t] \in HeadPcs

\* Thread t has a node that is not on the list: the one it will link, or the
\* dummy it has unlinked and not deleted.
Owns(t) == pc[t] \in {"enqLock", "enqLink", "deqUnlock", "deqFree"}

Private ==
  \A t \in Threads : Owns(t) =>
    /\ node[t] \in Nodes \ free /\ ~Has(chain, node[t])
    /\ \A u \in Threads \ {t} : Owns(u) => node[u] # node[t]

\* The fields of a node from its allocation to its link.
Fields ==
  \A t \in Threads : pc[t] \in {"enqLock", "enqLink"} =>
    /\ next[node[t]] = Null
    /\ item[t] \in Items /\ data[node[t]] = item[t]

\* The queue has no item in hand for a dequeue before it moves head_, nor for
\* a thread that is in no call.
NoItem ==
  \A t \in Threads :
    pc[t] \in {"idle", "deqLock", "deqRead", "deqCheck", "deqSwing"} => item[t] = Null

Linked ==
  /\ chain # <<>> /\ NoRepeat(chain) /\ Spells(chain, next, Null)
  /\ dtor = "live" => head = chain[1]
  /\ dtor = "live" => \A n \in free : ~Has(chain, n)
  /\ \A i \in 2..Len(chain) : data[chain[i]] \in Items

TailLast ==
  /\ \A t \in Threads : pc[t] = "enqSwing" => node[t] = chain[Len(chain)]
  /\ tail = chain[Len(chain)] \/ \E t \in Threads : pc[t] = "enqSwing"

\* What a dequeue knows inside its critical section.
Reads ==
  \A t \in Threads :
    /\ pc[t] \in {"deqCheck", "deqSwing"} => node[t] = head
    /\ pc[t] \in {"deqCheck", "deqSwing"} /\ lnext[t] # Null =>
         Len(chain) >= 2 /\ lnext[t] = chain[2]
    /\ pc[t] = "deqSwing" => lnext[t] # Null

Accounted ==
  dtor = "live" =>
    \A n \in Nodes : n \in free \/ Has(chain, n) \/ \E t \in Threads : Owns(t) /\ node[t] = n

\* The nodes before position k are freed, and head_ is the node there.
Destroying ==
  /\ dtor # "live" => \A t \in Threads : pc[t] = "idle"
  /\ dtor = "running" =>
       \E k \in 1..(Len(chain) + 1) :
         /\ head = IF k = Len(chain) + 1 THEN Null ELSE chain[k]
         /\ free = {n \in Nodes : \A i \in k..Len(chain) : n # chain[i]}
  /\ dtor = "gone" => free = Nodes

Shape == Locks /\ Private /\ Fields /\ NoItem /\ Linked /\ TailLast /\ Reads /\ Accounted

\* The inductive invariant.
IInv == TypeOK /\ Shape /\ Destroying
USE NodeAssumption
    DEF Goto, Pcs, EnqueuePcs, DequeuePcs, NodeOrNull, TailPcs, HeadPcs, Owns

----------------------------------------------------------------------------
(* Steps that leave the list alone *)

\* Nothing that the invariant says of the list is changed.
LEMMA ListKept ==
  ASSUME IInv, dtor = "live", UNCHANGED <<list, dtor>>,
         \A n \in free' : n \in free \/ ~Has(chain, n)
  PROVE  Linked' /\ Destroying'
BY DEF IInv, Shape, Linked, Destroying, list

LEMMA InvInit == Init => IInv
<1> SUFFICES ASSUME Init PROVE IInv
  OBVIOUS
<1>1. Len(chain) = 1 /\ chain[1] = head /\ chain # <<>> /\ head \in Nodes /\ chain \in Seq(Nodes)
  BY DEF Init
<1>2. TypeOK
  BY <1>1 DEF Init, TypeOK
<1>3. Linked /\ TailLast /\ Accounted
  BY <1>1 DEF Init, Linked, TailLast, Accounted, NoRepeat, Spells, Has
<1>4. Locks /\ Private /\ Fields /\ NoItem /\ Reads /\ Destroying
  BY DEF Init, Locks, Private, Fields, NoItem, Reads, Destroying
<1> QED
  BY <1>2, <1>3, <1>4 DEF IInv, Shape

LEMMA InvLocks ==
  ASSUME IInv, NEW t \in Threads, EnqLock(t) \/ DeqLock(t) \/ CallDequeue(t)
  PROVE  IInv'
<1>1. dtor = "live" /\ UNCHANGED <<list, free, locals, unsent, dtor>>
  BY DEF EnqLock, DeqLock, CallDequeue, IInv, Destroying
<1>2. TypeOK'
  BY <1>1 DEF EnqLock, DeqLock, CallDequeue, IInv, TypeOK, list, locks, locals
<1>3. Locks'
  BY DEF EnqLock, DeqLock, CallDequeue, IInv, TypeOK, Shape, Locks, locks
<1>4. Private' /\ Fields' /\ NoItem' /\ TailLast'
  BY <1>1 DEF EnqLock, DeqLock, CallDequeue, IInv, TypeOK, Shape, Private, Fields, NoItem, TailLast, list, locals
<1>5. Reads' /\ Accounted'
  BY <1>1 DEF EnqLock, DeqLock, CallDequeue, IInv, TypeOK, Shape, Reads, Accounted, list, locals
<1> QED
  BY <1>1, <1>2, <1>3, <1>4, <1>5, ListKept DEF IInv, Shape

LEMMA InvCallEnqueue ==
  ASSUME IInv, NEW t \in Threads, NEW x \in Items, NEW n \in Nodes, CallEnqueue(t, x, n)
  PROVE  IInv'
<1>1. /\ dtor = "live" /\ n \in free /\ free' = free \ {n} /\ ~Has(chain, n)
      /\ data' = [data EXCEPT ![n] = x] /\ next' = [next EXCEPT ![n] = Null]
      /\ UNCHANGED <<head, tail, chain, dtor, tailLock, headLock, lnext>>
  BY DEF CallEnqueue, locks, IInv, Shape, Linked
<1>2. /\ node'[t] = n /\ item'[t] = x /\ pc[t] = "idle" /\ pc'[t] = "enqLock"
      /\ \A u \in Threads \ {t} : node'[u] = node[u] /\ item'[u] = item[u] /\ pc'[u] = pc[u]
      /\ data'[n] = x /\ next'[n] = Null
      /\ \A m \in Nodes \ {n} : data'[m] = data[m] /\ next'[m] = next[m]
  BY <1>1 DEF CallEnqueue, IInv, TypeOK
<1>3. TypeOK'
  BY <1>1 DEF CallEnqueue, IInv, TypeOK
<1>4. Locks' /\ NoItem' /\ TailLast' /\ Reads'
  BY <1>1, <1>2 DEF IInv, Shape, Locks, NoItem, TailLast, Reads
<1>5. Private' /\ Fields' /\ Accounted'
  BY <1>1, <1>2 DEF IInv, Shape, Private, Fields, Accounted
<1>6. Linked'
  <2>1. Spells(chain, next', Null)
    BY <1>1, SpellsOther DEF IInv, TypeOK, Shape, Linked
  <2>2. \A i \in 2..Len(chain) : data'[chain[i]] = data[chain[i]]
    BY <1>1 DEF IInv, TypeOK, Has
  <2> QED
    BY <1>1, <2>1, <2>2 DEF IInv, Shape, Linked
<1> QED
  BY <1>1, <1>3, <1>4, <1>5, <1>6 DEF IInv, Shape, Destroying

LEMMA InvEnqLink ==
  ASSUME IInv, NEW t \in Threads, EnqLink(t)
  PROVE  IInv'
<1> DEFINE n == node[t]
<1>1. /\ dtor = "live" /\ pc[t] = "enqLink" /\ n \in Nodes /\ n \notin free /\ ~Has(chain, n)
      /\ next[n] = Null /\ data[n] \in Items /\ chain # <<>> /\ chain \in Seq(Nodes)
  BY DEF EnqLink, IInv, Shape, Private, Fields, Linked, Destroying, TypeOK
<1>2. /\ chain' = Append(chain, n) /\ next' = [next EXCEPT ![tail] = n]
      /\ UNCHANGED <<head, tail, data, headLock, tailLock, free, node, lnext, item, unsent, dtor>>
  BY DEF EnqLink, locks, locals
<1>3. pc'[t] = "enqSwing" /\ \A u \in Threads \ {t} : pc'[u] = pc[u]
  BY DEF EnqLink, IInv, TypeOK
<1>4. tail = chain[Len(chain)] /\ \A u \in Threads \ {t} : pc[u] \notin TailPcs
  BY <1>1 DEF IInv, Shape, TailLast, Locks
<1>5. /\ NoRepeat(chain') /\ Spells(chain', next', Null)
      /\ \A m : Has(chain', m) <=> Has(chain, m) \/ m = n
  <2>1. next \in [Nodes -> Nodes \union {Null}] /\ NoRepeat(chain) /\ Spells(chain, next, Null)
    BY DEF IInv, Shape, Linked, TypeOK
  <2>2. NoRepeat(chain') /\ Spells(chain', next', Null)
    BY <1>1, <1>2, <1>4, <2>1, LinkLast
  <2> QED
    BY <1>1, <1>2, <2>2, AppendKeeps
<1>6. /\ Len(chain') = Len(chain) + 1 /\ Len(chain) \in Nat \ {0} /\ chain'[Len(chain')] = n
      /\ \A i \in 1..Len(chain) : chain'[i] = chain[i]
      /\ chain' \in Seq(Nodes) /\ Has(chain, tail)
  BY <1>1, <1>2, <1>4 DEF Has
<1>7. TypeOK'
  BY <1>1, <1>2, <1>6 DEF EnqLink, IInv, TypeOK
<1>8. Locks' /\ NoItem'
  BY <1>1, <1>2, <1>3 DEF IInv, Shape, Locks, NoItem
<1>9. Private'
  BY <1>1, <1>2, <1>3, <1>5 DEF IInv, Shape, Private
<1>10. Fields'
  BY <1>2, <1>3, <1>6 DEF IInv, Shape, Private, Fields, TypeOK
<1>11. Accounted'
  BY <1>1, <1>2, <1>3, <1>5 DEF IInv, Shape, Accounted
<1>12. TailLast'
  BY <1>2, <1>3, <1>4, <1>6 DEF TailLast
<1>13. Reads'
  BY <1>1, <1>2, <1>3, <1>6 DEF IInv, Shape, Reads
<1>14. Linked'
  <2>1. chain' # <<>> /\ chain'[1] = chain[1]
    BY <1>6
  <2>2. \A i \in 2..Len(chain') : data[chain'[i]] \in Items
    BY <1>1, <1>6 DEF IInv, Shape, Linked
  <2> QED
    BY <1>1, <1>2, <1>5, <2>1, <2>2 DEF IInv, Shape, Linked
<1> QED
  BY <1>1, <1>2, <1>7, <1>8, <1>9, <1>10, <1>11, <1>12, <1>13, <1>14 DEF IInv, Shape, Destroying

LEMMA InvEnqSwing ==
  ASSUME IInv, NEW t \in Threads, EnqSwing(t)
  PROVE  IInv'
<1>1. dtor = "live" /\ UNCHANGED <<head, next, data, chain, locks, free, locals, unsent, dtor>>
  BY DEF EnqSwing, IInv, Destroying
<1>2. tail' = chain[Len(chain)] /\ tail' \in Nodes
  BY DEF EnqSwing, IInv, Shape, TailLast, Linked, TypeOK
<1>3. TypeOK'
  BY <1>1, <1>2 DEF EnqSwing, IInv, TypeOK, locks, locals
<1>4. Locks' /\ Private' /\ Fields' /\ NoItem'
  BY <1>1 DEF EnqSwing, IInv, TypeOK, Shape, Locks, Private, Fields, NoItem, locks, locals
<1>5. TailLast' /\ Reads' /\ Accounted'
  BY <1>1, <1>2 DEF EnqSwing, IInv, TypeOK, Shape, TailLast, Reads, Accounted, locks, locals
<1> QED
  BY <1>1, <1>3, <1>4, <1>5 DEF IInv, Shape, Linked, Destroying

LEMMA InvReturn ==
  ASSUME IInv, NEW t \in Threads, EnqUnlock(t) \/ DeqReturnEmpty(t)
  PROVE  IInv'
<1>1. /\ dtor = "live" /\ UNCHANGED <<list, free, unsent, dtor>>
      /\ pc[t] \in {"enqUnlock", "deqCheck"} /\ Return(t, pc[t])
  BY DEF EnqUnlock, DeqReturnEmpty, Return, IInv, Destroying
<1>2. /\ pc'[t] = "idle" /\ item'[t] = Null
      /\ \A u \in Threads \ {t} :
           pc'[u] = pc[u] /\ node'[u] = node[u] /\ lnext'[u] = lnext[u] /\ item'[u] = item[u]
  BY <1>1 DEF Return, IInv, TypeOK
<1>3. TypeOK'
  BY <1>1 DEF EnqUnlock, DeqReturnEmpty, Return, IInv, TypeOK, list
<1>4. Locks'
  BY <1>2 DEF EnqUnlock, DeqReturnEmpty, Return, IInv, Shape, Locks
<1>5. Private' /\ Fields' /\ NoItem'
  BY <1>1, <1>2 DEF IInv, Shape, Private, Fields, NoItem, list
<1>6. TailLast' /\ Reads' /\ Accounted'
  BY <1>1, <1>2 DEF IInv, Shape, TailLast, Reads, Accounted, list
<1> QED
  BY <1>1, <1>3, <1>4, <1>5, <1>6, ListKept DEF IInv, Shape

LEMMA InvDeqRead ==
  ASSUME IInv, NEW t \in Threads, DeqRead(t)
  PROVE  IInv'
<1>1. dtor = "live" /\ UNCHANGED <<list, locks, free, item, unsent, dtor>>
  BY DEF DeqRead, IInv, Destroying
<1>2. /\ pc[t] = "deqRead" /\ pc'[t] = "deqCheck" /\ node'[t] = head /\ lnext'[t] = next[head]
      /\ \A u \in Threads \ {t} : pc'[u] = pc[u] /\ node'[u] = node[u] /\ lnext'[u] = lnext[u]
  BY DEF DeqRead, IInv, TypeOK
<1>3. next[head] # Null => Len(chain) >= 2 /\ next[head] = chain[2]
  BY <1>1 DEF IInv, TypeOK, Shape, Linked, Spells
<1>4. TypeOK'
  BY <1>1 DEF DeqRead, IInv, TypeOK, list, locks
<1>5. Locks' /\ Private' /\ Fields' /\ NoItem'
  BY <1>1, <1>2 DEF IInv, TypeOK, Shape, Locks, Private, Fields, NoItem, list, locks
<1>6. TailLast' /\ Reads' /\ Accounted'
  BY <1>1, <1>2, <1>3 DEF IInv, TypeOK, Shape, TailLast, Reads, Accounted, list
<1> QED
  BY <1>1, <1>4, <1>5, <1>6, ListKept DEF IInv, Shape

LEMMA InvDeqCheck ==
  ASSUME IInv, NEW t \in Threads, DeqCheck(t) \/ DeqUnlock(t)
  PROVE  IInv'
<1>1. dtor = "live" /\ UNCHANGED <<list, tailLock, free, locals, unsent, dtor>>
  BY DEF DeqCheck, DeqUnlock, IInv, Destroying, locks
<1>2. TypeOK'
  BY <1>1 DEF DeqCheck, DeqUnlock, IInv, TypeOK, list, locks, locals
<1>3. Locks'
  BY DEF DeqCheck, DeqUnlock, IInv, TypeOK, Shape, Locks, locks
<1>4. Private' /\ Fields' /\ NoItem'
  BY <1>1 DEF DeqCheck, DeqUnlock, IInv, TypeOK, Shape, Private, Fields, NoItem, list, locals
<1>5. TailLast' /\ Reads' /\ Accounted'
  BY <1>1 DEF DeqCheck, DeqUnlock, IInv, TypeOK, Shape, TailLast, Reads, Accounted, list, locals
<1> QED
  BY <1>1, <1>2, <1>3, <1>4, <1>5, ListKept DEF IInv, Shape

LEMMA InvDeqSwing ==
  ASSUME IInv, NEW t \in Threads, DeqSwing(t)
  PROVE  IInv'
<1> DEFINE n == lnext[t]
<1>1. /\ dtor = "live" /\ pc[t] = "deqSwing" /\ node[t] = head /\ head = chain[1]
      /\ n # Null /\ Len(chain) >= 2 /\ n = chain[2] /\ chain \in Seq(Nodes) /\ chain # <<>>
  BY DEF DeqSwing, IInv, Shape, Reads, Linked, Destroying, TypeOK
<1>2. /\ chain' = Tail(chain) /\ head' = n /\ item' = [item EXCEPT ![t] = data[n]]
      /\ UNCHANGED <<tail, next, data, headLock, tailLock, free, node, lnext, unsent, dtor>>
  BY DEF DeqSwing, locks
<1>3. /\ pc'[t] = "deqUnlock" /\ item'[t] = data[n]
      /\ \A u \in Threads \ {t} : pc'[u] = pc[u] /\ item'[u] = item[u]
  BY <1>2 DEF DeqSwing, IInv, TypeOK
<1>4. /\ chain' \in Seq(Nodes) /\ Len(chain') = Len(chain) - 1 /\ Len(chain) \in Nat
      /\ \A i \in 1..(Len(chain) - 1) : chain'[i] = chain[i + 1]
  BY <1>1, <1>2, TailKeeps
<1>5. /\ NoRepeat(chain') /\ Spells(chain', next, Null)
      /\ \A m : Has(chain', m) <=> Has(chain, m) /\ m # head
  BY <1>1, <1>2, UnlinkFirst DEF IInv, Shape, Linked
<1>6. chain' # <<>> /\ chain'[1] = n /\ chain'[Len(chain')] = chain[Len(chain)]
  BY <1>1, <1>4
<1>7. \A u \in Threads \ {t} : pc[u] \notin HeadPcs
  BY <1>1 DEF IInv, Shape, Locks
<1>8. Has(chain, head) /\ head \notin free /\ head \in Nodes
  BY <1>1 DEF Has, IInv, Shape, Linked, TypeOK
<1>9. TypeOK'
  BY <1>1, <1>2, <1>4 DEF DeqSwing, IInv, TypeOK
<1>10. Locks' /\ Fields' /\ NoItem'
  BY <1>1, <1>2, <1>3 DEF IInv, Shape, Locks, Fields, NoItem
<1>11. Private'
  BY <1>1, <1>2, <1>3, <1>5, <1>8 DEF IInv, Shape, Private
<1>12. Accounted'
  BY <1>1, <1>2, <1>3, <1>5 DEF IInv, Shape, Accounted
<1>13. TailLast'
  BY <1>1, <1>2, <1>3, <1>6 DEF IInv, Shape, TailLast
<1>14. Reads'
  BY <1>2, <1>3, <1>7 DEF IInv, Shape, Reads
<1>15. Linked'
  <2>1. \A i \in 2..Len(chain') : data[chain'[i]] \in Items
    BY <1>4 DEF IInv, Shape, Linked
  <2> QED
    BY <1>1, <1>2, <1>5, <1>6, <2>1 DEF IInv, Shape, Linked
<1> QED
  BY <1>1, <1>2, <1>9, <1>10, <1>11, <1>12, <1>13, <1>14, <1>15 DEF IInv, Shape, Destroying

LEMMA InvDeqFree ==
  ASSUME IInv, NEW t \in Threads, DeqFree(t)
  PROVE  IInv'
<1>1. /\ dtor = "live" /\ pc[t] = "deqFree" /\ node[t] \in Nodes \ free /\ ~Has(chain, node[t])
      /\ free' = free \union {node[t]} /\ UNCHANGED <<list, locks, unsent, dtor>>
  BY DEF DeqFree, Return, IInv, Shape, Private, Destroying
<1>2. /\ pc'[t] = "idle" /\ item'[t] = Null
      /\ \A u \in Threads \ {t} :
           pc'[u] = pc[u] /\ node'[u] = node[u] /\ lnext'[u] = lnext[u] /\ item'[u] = item[u]
  BY DEF DeqFree, Return, IInv, TypeOK
<1>3. TypeOK'
  BY <1>1 DEF DeqFree, Return, IInv, TypeOK, list, locks
<1>4. Locks' /\ Fields' /\ NoItem' /\ TailLast' /\ Reads'
  BY <1>1, <1>2 DEF IInv, Shape, Locks, Fields, NoItem, TailLast, Reads, list, locks
<1>5. Private'
  BY <1>1, <1>2 DEF IInv, Shape, Private, list
<1>6. Accounted'
  BY <1>1, <1>2 DEF IInv, Shape, Accounted, list
<1> QED
  BY <1>1, <1>3, <1>4, <1>5, <1>6, ListKept DEF IInv, Shape

LEMMA InvDestroy ==
  ASSUME IInv, Destroy \/ DeleteNext \/ DestroyDone
  PROVE  IInv'
<1>1. /\ \A t \in Threads : pc[t] = "idle"
      /\ dtor' # "live" /\ UNCHANGED <<tail, next, data, chain, locks, pc, locals, unsent>>
  BY DEF Destroy, DeleteNext, DestroyDone, list, IInv, TypeOK, Destroying
<1>2. Len(chain) \in Nat \ {0} /\ \A i \in 1..Len(chain) : chain[i] \in Nodes
  BY DEF IInv, TypeOK, Shape, Linked
<1>3. Shape'
  BY <1>1 DEF IInv, Shape, Locks, Private, Fields, NoItem, Linked, TailLast, Reads, Accounted,
              locks, locals
<1>4. TypeOK'
  BY DEF Destroy, DeleteNext, DestroyDone, list, locks, locals, IInv, TypeOK
<1>5. Destroying'
  <2>1. CASE Destroy
    <3>1. head = chain[1] /\ free \subseteq Nodes /\ \A n \in Nodes : n \in free <=> ~Has(chain, n)
      BY <1>1, <2>1 DEF Destroy, IInv, TypeOK, Shape, Linked, Accounted
    <3>2. free = {n \in Nodes : \A i \in 1..Len(chain) : n # chain[i]}
      BY <3>1 DEF Has
    <3>3. dtor' = "running" /\ head' = head /\ free' = free /\ chain' = chain /\ pc' = pc
      BY <2>1 DEF Destroy, list
    <3>4. 1 \in 1..(Len(chain) + 1) /\ 1 # Len(chain) + 1
      BY <1>2
    <3> QED
      BY <1>1, <3>1, <3>2, <3>3, <3>4 DEF Destroying
  <2>2. CASE DeleteNext
    <3>1. PICK k \in 1..(Len(chain) + 1) :
            /\ head = IF k = Len(chain) + 1 THEN Null ELSE chain[k]
            /\ free = {n \in Nodes : \A i \in k..Len(chain) : n # chain[i]}
      BY <2>2 DEF DeleteNext, IInv, Destroying
    <3>2. k \in 1..Len(chain) /\ head = chain[k]
      BY <1>2, <2>2, <3>1 DEF DeleteNext
    <3>3. next[head] = IF k + 1 = Len(chain) + 1 THEN Null ELSE chain[k + 1]
      BY <1>2, <3>2 DEF IInv, Shape, Linked, Spells
    <3>4. free \union {head} = {n \in Nodes : \A i \in (k + 1)..Len(chain) : n # chain[i]}
      <4>1. \A i \in (k + 1)..Len(chain) : head # chain[i]
        BY <1>2, <3>2 DEF IInv, Shape, Linked, NoRepeat
      <4>2. \A i \in k..Len(chain) : i = k \/ i \in (k + 1)..Len(chain)
        BY <1>2, <3>2
      <4>3. \A i \in (k + 1)..Len(chain) : i \in k..Len(chain)
        BY <1>2, <3>2
      <4> QED
        BY <1>2, <3>1, <3>2, <4>1, <4>2, <4>3
    <3>5. /\ dtor' = "running" /\ head' = next[head] /\ free' = free \union {head}
          /\ k + 1 \in 1..(Len(chain) + 1)
      BY <1>2, <2>2, <3>2 DEF DeleteNext
    <3> QED
      BY <1>1, <3>3, <3>4, <3>5 DEF Destroying
  <2>3. CASE DestroyDone
    <3>1. PICK k \in 1..(Len(chain) + 1) :
            /\ head = IF k = Len(chain) + 1 THEN Null ELSE chain[k]
            /\ free = {n \in Nodes : \A i \in k..Len(chain) : n # chain[i]}
      BY <2>3 DEF DestroyDone, IInv, Destroying
    <3>2. k = Len(chain) + 1
      BY <1>2, <2>3, <3>1 DEF DestroyDone
    <3>3. free = Nodes
      BY <1>2, <3>1, <3>2
    <3> QED
      BY <1>1, <2>3, <3>3 DEF DestroyDone, Destroying
  <2> QED
    BY <2>1, <2>2, <2>3
<1> QED
  BY <1>3, <1>4, <1>5 DEF IInv

LEMMA InvStutter == IInv /\ UNCHANGED vars => IInv'
BY DEF IInv, TypeOK, Shape, Locks, Private, Fields, NoItem, Linked, TailLast, Reads, Accounted,
       Destroying, vars, list, locks, locals

LEMMA InvNext == IInv /\ [Next]_vars => IInv'
<1> SUFFICES ASSUME IInv, [Next]_vars PROVE IInv'
  OBVIOUS
<1>1. ASSUME NEW t \in Threads, Call(t) PROVE IInv'
  BY <1>1, InvLocks, InvCallEnqueue DEF Call
<1>2. ASSUME NEW t \in Threads, Enqueue(t) PROVE IInv'
  BY <1>2, InvLocks, InvEnqLink, InvEnqSwing, InvReturn DEF Enqueue
<1>3. ASSUME NEW t \in Threads, Dequeue(t) PROVE IInv'
  BY <1>3, InvLocks, InvDeqRead, InvReturn, InvDeqCheck, InvDeqSwing, InvDeqFree DEF Dequeue
<1> QED
  BY <1>1, <1>2, <1>3, InvDestroy, InvStutter DEF Next, Gone

LEMMA Invariant == Spec => []IInv
BY InvInit, InvNext, PTL DEF Spec

----------------------------------------------------------------------------
(* The safety properties *)

\* Type correctness: every variable, and every local of every call, keeps its
\* type; head_ is not null while the queue lives.
THEOREM TypeCorrect == Spec => []TypeOK
<1>1. IInv => TypeOK
  BY DEF IInv
<1> QED
  BY Invariant, <1>1, PTL

\* No two threads are inside the same critical section.
MutualExclusion ==
  \A t, u \in Threads :
    (pc[t] \in TailPcs /\ pc[u] \in TailPcs) \/ (pc[t] \in HeadPcs /\ pc[u] \in HeadPcs) => t = u

\* tail_lock_ and head_lock_ each keep all threads but one out of the section
\* they guard.
THEOREM LocksExclude == Spec => []MutualExclusion
<1>1. IInv => MutualExclusion
  BY DEF IInv, Shape, Locks, MutualExclusion
<1> QED
  BY Invariant, <1>1, PTL

\* The list keeps its shape, although an enqueue and a dequeue run at once and
\* addresses are handed out again: the nodes stay in the order of their links,
\* none of them free, and tail_ is the last but between two stores.
THEOREM ListKeepsShape == Spec => []ListShape
<1>1. IInv => ListShape
  <2> SUFFICES ASSUME IInv, dtor = "live"
               PROVE  /\ chain # <<>> /\ head = chain[1]
                      /\ \A i \in 1..Len(chain) :
                           /\ chain[i] \notin free
                           /\ next[chain[i]] = IF i = Len(chain) THEN Null ELSE chain[i + 1]
                      /\ \/ tail = chain[Len(chain)]
                         \/ \E t \in Threads : tailLock = t /\ pc[t] = "enqSwing"
    BY DEF ListShape
  <2>1. chain # <<>> /\ head = chain[1] /\ Spells(chain, next, Null)
    BY DEF IInv, Shape, Linked
  <2>2. \A i \in 1..Len(chain) : chain[i] \notin free
    BY DEF IInv, Shape, Linked, Has
  <2>3. tail = chain[Len(chain)] \/ \E t \in Threads : tailLock = t /\ pc[t] = "enqSwing"
    BY DEF IInv, Shape, TailLast, Locks
  <2> QED
    BY <2>1, <2>2, <2>3 DEF Spells
<1> QED
  BY Invariant, <1>1, PTL

\* No step follows a null or deleted pointer or deletes a node twice, and the
\* destructor leaves no node behind, with the delete outside the lock and with
\* any number of threads and addresses.
THEOREM MemoryIsSafe == Spec => []MemorySafe
<1>1. IInv => MemorySafe
  <2> SUFFICES ASSUME IInv PROVE MemorySafe
    OBVIOUS
  <2>1. ASSUME NEW t \in Threads PROVE Deref(t) \intersect (free \union {Null}) = {}
    <3>1. CASE pc[t] = "idle"
      BY <3>1 DEF Deref
    <3>2. CASE dtor = "live"
      <4>1. \A i \in 1..Len(chain) : chain[i] \notin free /\ chain[i] # Null
        BY <3>2 DEF IInv, TypeOK, Shape, Linked, Has
      <4>2. chain # <<>> /\ head = chain[1] /\ Len(chain) \in Nat \ {0}
        BY <3>2 DEF IInv, TypeOK, Shape, Linked
      <4>3. pc[t] = "enqLink" => tail = chain[Len(chain)]
        BY DEF IInv, Shape, TailLast, Locks
      <4>4. pc[t] = "deqSwing" => lnext[t] = chain[2] /\ Len(chain) >= 2
        BY DEF IInv, Shape, Reads
      <4>5. pc[t] = "deqFree" => node[t] \in Nodes \ free
        BY DEF IInv, Shape, Private
      <4> QED
        BY <4>1, <4>2, <4>3, <4>4, <4>5 DEF Deref
    <3> QED
      BY <3>1, <3>2 DEF IInv, Destroying
  <2>2. dtor = "running" => head \notin free
    <3> SUFFICES ASSUME dtor = "running" PROVE head \notin free
      OBVIOUS
    <3>1. PICK k \in 1..(Len(chain) + 1) :
            /\ head = IF k = Len(chain) + 1 THEN Null ELSE chain[k]
            /\ free = {n \in Nodes : \A i \in k..Len(chain) : n # chain[i]}
      BY DEF IInv, Destroying
    <3>2. chain \in Seq(Nodes)
      BY DEF IInv, TypeOK
    <3> QED
      BY <3>1, <3>2
  <2> QED
    BY <2>1, <2>2 DEF MemorySafe, IInv, Destroying
<1> QED
  BY Invariant, <1>1, PTL

----------------------------------------------------------------------------
(* Refinement: every step is a step of FifoQueue, or leaves its state alone *)

\* The state of FifoQueue, as the instance Fifo defines it.
Queue == [i \in 1..(Len(chain) - 1) |-> data[chain[i + 1]]]
Stage == [t \in Threads |-> StageOf(t)]

QueueTyped ==
  Queue \in Seq(Items) /\ Len(Queue) = Len(chain) - 1 /\ Len(chain) \in Nat \ {0}

LEMMA QueueType == IInv => QueueTyped
<1> SUFFICES ASSUME IInv PROVE QueueTyped
  OBVIOUS
<1>1. Len(chain) \in Nat \ {0} /\ \A i \in 2..Len(chain) : data[chain[i]] \in Items
  BY DEF IInv, TypeOK, Shape, Linked
<1>2. Queue \in [1..(Len(chain) - 1) -> Items] /\ Len(chain) - 1 \in Nat
  BY <1>1 DEF Queue
<1> QED
  BY <1>1, <1>2, FunctionSeq DEF QueueTyped

LEMMA QueueTypeNext == IInv' => QueueTyped'
BY QueueType, PTL

\* A step of thread t alone changes the stage of thread t alone.
LEMMA StageStep ==
  ASSUME NEW t \in Threads,
         \A u \in Threads \ {t} : pc'[u] = pc[u] /\ lnext'[u] = lnext[u]
  PROVE  Stage' = [Stage EXCEPT ![t] = StageOf(t)']
BY DEF Stage, StageOf

\* A step that passes no stage and leaves the list alone is no step of FifoQueue.
LEMMA Silent ==
  ASSUME IInv, NEW t \in Threads,
         \A u \in Threads \ {t} : pc'[u] = pc[u] /\ lnext'[u] = lnext[u],
         StageOf(t)' = StageOf(t), UNCHANGED <<chain, data, item>>
  PROVE  UNCHANGED Fifo!vars
<1>1. Stage' = Stage
  BY StageStep DEF Stage
<1> QED
  BY <1>1 DEF Fifo!vars, Stage

LEMMA FifoCall ==
  ASSUME IInv, IInv', NEW t \in Threads, Call(t)
  PROVE  Fifo!Next
<1>1. CASE CallDequeue(t)
  <2>1. /\ StageOf(t) = "idle" /\ StageOf(t)' = "deq" /\ UNCHANGED <<chain, data, item>>
        /\ \A u \in Threads \ {t} : pc'[u] = pc[u] /\ lnext'[u] = lnext[u]
    BY <1>1 DEF CallDequeue, list, locals, StageOf, IInv, TypeOK
  <2>2. Stage' = [Stage EXCEPT ![t] = "deq"] /\ Stage[t] = "idle"
    BY <2>1, StageStep DEF Stage
  <2>3. Fifo!CallDequeue(t)
    BY <2>1, <2>2 DEF Fifo!CallDequeue, Fifo!Pass, Stage
  <2> QED
    BY <2>3 DEF Fifo!Next
<1>2. ASSUME NEW x \in Items, NEW n \in Nodes, CallEnqueue(t, x, n)
      PROVE  Fifo!Next
  <2>1. /\ StageOf(t) = "idle" /\ StageOf(t)' = "enq" /\ item' = [item EXCEPT ![t] = x]
        /\ \A u \in Threads \ {t} : pc'[u] = pc[u] /\ lnext'[u] = lnext[u]
    BY <1>2 DEF CallEnqueue, StageOf, IInv, TypeOK
  <2>2. Stage' = [Stage EXCEPT ![t] = "enq"] /\ Stage[t] = "idle"
    BY <2>1, StageStep DEF Stage
  <2>3. ~Has(chain, n) /\ chain' = chain /\ data' = [data EXCEPT ![n] = x]
    BY <1>2 DEF CallEnqueue, IInv, Shape, Linked
  <2>4. \A i \in 1..(Len(chain) - 1) : data'[chain[i + 1]] = data[chain[i + 1]]
    BY <2>3 DEF Has, IInv, TypeOK
  <2>5. Queue' = Queue
    BY <2>3, <2>4 DEF Queue
  <2>6. Fifo!CallEnqueue(t, x)
    BY <2>1, <2>2, <2>5 DEF Fifo!CallEnqueue, Fifo!Pass, Stage, Queue
  <2> QED
    BY <2>6 DEF Fifo!Next
<1> QED
  BY <1>1, <1>2 DEF Call

\* The enqueue takes effect when it links its node.
LEMMA FifoEnqueue ==
  ASSUME IInv, IInv', NEW t \in Threads, Enqueue(t)
  PROVE  Fifo!Next \/ UNCHANGED Fifo!vars
<1>1. CASE EnqLock(t)
  BY <1>1, Silent DEF EnqLock, list, locals, StageOf, IInv, TypeOK
<1>2. CASE EnqLink(t)
  <2>1. /\ StageOf(t) = "enq" /\ StageOf(t)' = "enqDone" /\ UNCHANGED <<data, item>>
        /\ \A u \in Threads \ {t} : pc'[u] = pc[u] /\ lnext'[u] = lnext[u]
        /\ chain' = Append(chain, node[t])
    BY <1>2 DEF EnqLink, locals, StageOf, IInv, TypeOK
  <2>2. Stage' = [Stage EXCEPT ![t] = "enqDone"] /\ Stage[t] = "enq"
    BY <2>1, StageStep DEF Stage
  <2>3. node[t] \in Nodes /\ data[node[t]] = item[t] /\ item[t] \in Items /\ chain \in Seq(Nodes)
    BY <1>2 DEF EnqLink, IInv, Shape, Private, Fields, TypeOK
  <2>4. Queue' = Append(Queue, item[t])
    <3>1. /\ Queue \in Seq(Items) /\ Len(Queue) = Len(chain) - 1 /\ Len(chain) \in Nat \ {0}
          /\ Queue' \in Seq(Items) /\ Len(Queue') = Len(chain') - 1
      BY QueueType, QueueTypeNext DEF QueueTyped
    <3>2. /\ Append(Queue, item[t]) \in Seq(Items) /\ Len(Append(Queue, item[t])) = Len(chain)
          /\ Len(chain') = Len(chain) + 1
      BY <2>1, <2>3, <3>1
    <3>3. ASSUME NEW i \in 1..Len(chain) PROVE Queue'[i] = Append(Queue, item[t])[i]
      <4>1. Queue'[i] = data[chain'[i + 1]]
        BY <2>1, <3>1, <3>2 DEF Queue
      <4>2. CASE i = Len(chain)
        <5>1. chain'[i + 1] = node[t] /\ Append(Queue, item[t])[i] = item[t]
          BY <2>1, <2>3, <3>1, <4>2
        <5> QED
          BY <2>3, <4>1, <5>1
      <4>3. CASE i \in 1..(Len(chain) - 1)
        <5>1. chain'[i + 1] = chain[i + 1] /\ Append(Queue, item[t])[i] = Queue[i]
          BY <2>1, <2>3, <3>1, <4>3
        <5> QED
          BY <4>1, <4>3, <5>1 DEF Queue
      <4> QED
        BY <3>1, <4>2, <4>3
    <3> QED
      BY <3>1, <3>2, <3>3, SeqEqual
  <2>5. Fifo!CommitEnqueue(t)
    BY <2>1, <2>2, <2>4 DEF Fifo!CommitEnqueue, Fifo!Pass, Stage, Queue
  <2> QED
    BY <2>5 DEF Fifo!Next
<1>3. CASE EnqSwing(t)
  BY <1>3, Silent DEF EnqSwing, locals, StageOf, IInv, TypeOK
<1>4. CASE EnqUnlock(t)
  <2>1. /\ StageOf(t) = "enqDone" /\ StageOf(t)' = "idle" /\ UNCHANGED <<chain, data>>
        /\ item' = [item EXCEPT ![t] = Null]
        /\ \A u \in Threads \ {t} : pc'[u] = pc[u] /\ lnext'[u] = lnext[u]
    BY <1>4 DEF EnqUnlock, Return, list, StageOf, IInv, TypeOK
  <2>2. Stage' = [Stage EXCEPT ![t] = "idle"] /\ Stage[t] = "enqDone"
    BY <2>1, StageStep DEF Stage
  <2>3. Fifo!ReturnEnqueue(t)
    BY <2>1, <2>2 DEF Fifo!ReturnEnqueue, Fifo!Pass, Stage
  <2> QED
    BY <2>3 DEF Fifo!Next
<1> QED
  BY <1>1, <1>2, <1>3, <1>4 DEF Enqueue

\* The dequeue takes effect when it moves head_, or when it reads a null next
\* behind the dummy: the queue is empty at that instant.
LEMMA FifoDequeue ==
  ASSUME IInv, IInv', NEW t \in Threads, Dequeue(t)
  PROVE  Fifo!Next \/ UNCHANGED Fifo!vars
<1>1. CASE DeqLock(t)
  BY <1>1, Silent DEF DeqLock, list, locals, StageOf, IInv, TypeOK
<1>2. CASE DeqRead(t)
  <2>1. /\ pc[t] = "deqRead" /\ pc'[t] = "deqCheck" /\ lnext'[t] = next[head]
        /\ \A u \in Threads \ {t} : pc'[u] = pc[u] /\ lnext'[u] = lnext[u]
        /\ UNCHANGED <<chain, data, item>>
    BY <1>2 DEF DeqRead, list, IInv, TypeOK
  <2>2. CASE next[head] # Null
    BY <2>1, <2>2, Silent DEF StageOf
  <2>3. CASE next[head] = Null
    <3>1. Stage' = [Stage EXCEPT ![t] = "deqEmpty"] /\ Stage[t] = "deq"
      BY <2>1, <2>3, StageStep DEF Stage, StageOf
    <3>2. Len(chain) = 1
      <4>1. head = chain[1] /\ chain \in Seq(Nodes) /\ chain # <<>> /\ Spells(chain, next, Null)
        BY <1>2 DEF DeqRead, IInv, TypeOK, Destroying, Shape, Linked
      <4> QED
        BY <2>3, <4>1, FirstNext
    <3>3. Queue = <<>>
      BY <3>2, QueueType DEF QueueTyped
    <3>4. Fifo!ObserveEmpty(t)
      BY <2>1, <3>1, <3>3 DEF Fifo!ObserveEmpty, Fifo!Pass, Stage, Queue
    <3> QED
      BY <3>4 DEF Fifo!Next
  <2> QED
    BY <2>2, <2>3
<1>3. CASE DeqReturnEmpty(t)
  <2>1. /\ StageOf(t) = "deqEmpty" /\ StageOf(t)' = "idle" /\ UNCHANGED <<chain, data>>
        /\ item' = [item EXCEPT ![t] = Null] /\ item[t] = Null
        /\ \A u \in Threads \ {t} : pc'[u] = pc[u] /\ lnext'[u] = lnext[u]
    BY <1>3 DEF DeqReturnEmpty, Return, list, StageOf, IInv, TypeOK, Shape, NoItem
  <2>2. Stage' = [Stage EXCEPT ![t] = "idle"] /\ Stage[t] = "deqEmpty"
    BY <2>1, StageStep DEF Stage
  <2>3. item' = item
    BY <2>1 DEF IInv, TypeOK
  <2>4. Fifo!ReturnEmpty(t)
    BY <2>1, <2>2, <2>3 DEF Fifo!ReturnEmpty, Fifo!Pass, Stage
  <2> QED
    BY <2>4 DEF Fifo!Next
<1>4. CASE DeqCheck(t)
  BY <1>4, Silent DEF DeqCheck, list, locals, StageOf, IInv, TypeOK
<1>5. CASE DeqSwing(t)
  <2>1. /\ StageOf(t) = "deq" /\ StageOf(t)' = "deqDone" /\ UNCHANGED data
        /\ chain' = Tail(chain) /\ item' = [item EXCEPT ![t] = data[lnext[t]]]
        /\ \A u \in Threads \ {t} : pc'[u] = pc[u] /\ lnext'[u] = lnext[u]
    BY <1>5 DEF DeqSwing, StageOf, IInv, TypeOK
  <2>2. Stage' = [Stage EXCEPT ![t] = "deqDone"] /\ Stage[t] = "deq"
    BY <2>1, StageStep DEF Stage
  <2>3. Len(chain) >= 2 /\ lnext[t] = chain[2] /\ chain \in Seq(Nodes)
    BY <1>5 DEF DeqSwing, IInv, Shape, Reads, TypeOK
  <2>4. /\ Queue \in Seq(Items) /\ Len(Queue) = Len(chain) - 1 /\ Len(chain) \in Nat \ {0}
        /\ Queue' \in Seq(Items) /\ Len(Queue') = Len(chain') - 1
    BY QueueType, QueueTypeNext DEF QueueTyped
  <2>5. Queue # <<>> /\ Head(Queue) = data[lnext[t]]
    <3>1. Queue[1] = data[chain[2]]
      BY <2>3, <2>4 DEF Queue
    <3> QED
      BY <2>3, <2>4, <3>1
  <2>6. Queue' = Tail(Queue)
    <3>1. /\ Len(chain') = Len(chain) - 1 /\ Len(Tail(Queue)) = Len(chain) - 2
          /\ Tail(Queue) \in Seq(Items)
      BY <2>1, <2>3, <2>4
    <3>2. ASSUME NEW i \in 1..(Len(chain) - 2) PROVE Queue'[i] = Tail(Queue)[i]
      <4>1. Queue'[i] = data[chain'[i + 1]]
        BY <2>1, <2>4, <3>1 DEF Queue
      <4>2. chain'[i + 1] = chain[i + 2] /\ Tail(Queue)[i] = Queue[i + 1]
        BY <2>1, <2>3, <2>4, <3>1
      <4>3. Queue[i + 1] = data[chain[i + 2]]
        BY <2>3, <2>4 DEF Queue
      <4> QED
        BY <4>1, <4>2, <4>3
    <3> QED
      BY <2>4, <3>1, <3>2, SeqEqual
  <2>7. Fifo!CommitDequeue(t)
    BY <2>1, <2>2, <2>5, <2>6 DEF Fifo!CommitDequeue, Fifo!Pass, Stage, Queue
  <2> QED
    BY <2>7 DEF Fifo!Next
<1>6. CASE DeqUnlock(t)
  BY <1>6, Silent DEF DeqUnlock, list, locals, StageOf, IInv, TypeOK
<1>7. CASE DeqFree(t)
  <2>1. /\ StageOf(t) = "deqDone" /\ StageOf(t)' = "idle" /\ UNCHANGED <<chain, data>>
        /\ item' = [item EXCEPT ![t] = Null]
        /\ \A u \in Threads \ {t} : pc'[u] = pc[u] /\ lnext'[u] = lnext[u]
    BY <1>7 DEF DeqFree, Return, list, StageOf, IInv, TypeOK
  <2>2. Stage' = [Stage EXCEPT ![t] = "idle"] /\ Stage[t] = "deqDone"
    BY <2>1, StageStep DEF Stage
  <2>3. Fifo!ReturnDequeue(t)
    BY <2>1, <2>2 DEF Fifo!ReturnDequeue, Fifo!Pass, Stage
  <2> QED
    BY <2>3 DEF Fifo!Next
<1> QED
  BY <1>1, <1>2, <1>3, <1>4, <1>5, <1>6, <1>7 DEF Dequeue

LEMMA FifoInit == Init => Fifo!Init
<1> SUFFICES ASSUME Init PROVE Fifo!Init
  OBVIOUS
<1>1. Queue = <<>>
  BY InvInit, QueueType DEF QueueTyped, Init
<1>2. Stage = [t \in Threads |-> "idle"]
  BY DEF Init, Stage, StageOf
<1> QED
  BY <1>1, <1>2 DEF Init, Fifo!Init, Queue, Stage

LEMMA FifoNext == IInv /\ IInv' /\ [Next]_vars => [Fifo!Next]_(Fifo!vars)
<1> SUFFICES ASSUME IInv, IInv', [Next]_vars PROVE Fifo!Next \/ UNCHANGED Fifo!vars
  OBVIOUS
<1>1. CASE Destroy \/ DeleteNext \/ DestroyDone \/ UNCHANGED vars
  <2>1. UNCHANGED <<chain, data, pc, lnext, item>>
    BY <1>1 DEF Destroy, DeleteNext, DestroyDone, vars, list, locals
  <2> QED
    BY <2>1 DEF Fifo!vars, StageOf
<1> QED
  BY <1>1, FifoCall, FifoEnqueue, FifoDequeue DEF Next, Gone

\* TwoLockQueue implements FifoQueue: every call takes effect at one instant
\* between its call and its return, in FIFO order, and a dequeue that returns
\* false saw the queue empty.
THEOREM IsLinearizable == Spec => Linearizable
BY Invariant, InvNext, FifoInit, FifoNext, PTL DEF Spec, Linearizable, Fifo!Spec

=============================================================================
