------------------------- MODULE ValoisQueueProofs -------------------------
(***************************************************************************)
(* Proofs about ValoisQueue for any number of threads and items.           *)
(*                                                                         *)
(* Neither TypeOK nor ListShape is inductive: what keeps head_ behind      *)
(* tail_ and tail_ on the list is what the threads remember between their  *)
(* shared accesses.  IInv adds it: every node a thread holds in its locals *)
(* was linked before (LocalsLinked), a next pointer once read as not null  *)
(* is the successor for good (NextKept), and the node of an enqueue that   *)
(* has not linked it is on no list (Fresh).  MemorySafe needs more: where  *)
(* every node is, from its allocation to the destructor (Retirement).      *)
(***************************************************************************)
EXTENDS ValoisQueue, Lists, TLAPS

----------------------------------------------------------------------------
(* Lists *)

LEMMA AppendType ==
  ASSUME NEW S, NEW s \in Seq(S), NEW x \in S
  PROVE  Append(s, x) \in Seq(S)
OBVIOUS

LEMMA BeforeTrans ==
  ASSUME NEW S, NEW c \in Seq(S), NoRepeat(c), NEW m, NEW n, NEW o,
         Before(c, m, n), Before(c, n, o)
  PROVE  Before(c, m, o)
BY DEF Before, NoRepeat

LEMMA BeforeFollows ==
  ASSUME NEW S, NEW c \in Seq(S), NoRepeat(c), NEW m, NEW n, NEW o,
         Before(c, m, n), Follows(c, n, o)
  PROVE  Before(c, m, o)
BY DEF Before, Follows, NoRepeat

LEMMA FollowsBefore ==
  ASSUME NEW S, NEW c \in Seq(S), NoRepeat(c), NEW m, NEW n, NEW o,
         Follows(c, m, n), Before(c, m, o), m # o
  PROVE  Before(c, n, o)
BY DEF Before, Follows, NoRepeat

LEMMA FollowsLastTwo ==
  ASSUME NEW S, NEW c \in Seq(S), NoRepeat(c), NEW m, NEW n,
         Follows(c, m, n), LastTwo(c, m)
  PROVE  LastTwo(c, n)
BY DEF Follows, LastTwo, NoRepeat

\* What is true of c stays true when x is appended to it.
LEMMA AppendKeeps ==
  ASSUME NEW S, NEW c \in Seq(S), NEW x \in S, NEW m, NEW n
  PROVE  /\ Before(c, m, n) => Before(Append(c, x), m, n)
         /\ Follows(c, m, n) => Follows(Append(c, x), m, n)
         /\ Has(Append(c, x), m) <=> Has(c, m) \/ m = x
BY DEF Before, Follows, Has

\* A pointer that was read from the list and is not null is the successor.
LEMMA ReadNext ==
  ASSUME NEW S, NEW c \in Seq(S), NEW null, NEW p, Spells(c, p, null), NEW m, NEW n,
         Before(c, m, n), p[m] # null
  PROVE  Follows(c, m, p[m])
BY DEF Before, Follows, Spells

\* A node before another whose next is null is the last one, and the other.
LEMMA LinkAtEnd ==
  ASSUME NEW S, NEW c \in Seq(S), NEW null, null \notin S, NoRepeat(c),
         NEW p, Spells(c, p, null), NEW m, NEW k, Before(c, m, k), p[m] = null
  PROVE  m = k /\ c # <<>> /\ m = c[Len(c)]
BY DEF Before, Spells, NoRepeat

\* Linking a new node x behind the last one.
LEMMA LinkLast ==
  ASSUME NEW S, NEW c \in Seq(S), c # <<>>, NoRepeat(c), NEW x \in S, ~Has(c, x),
         NEW null, NEW p \in [S -> S \union {null}], Spells(c, p, null), p[x] = null
  PROVE  /\ NoRepeat(Append(c, x))
         /\ Spells(Append(c, x), [p EXCEPT ![c[Len(c)]] = x], null)
         /\ Follows(Append(c, x), c[Len(c)], x)
         /\ LastTwo(Append(c, x), c[Len(c)])
<1> DEFINE d == Append(c, x)
<1>1. Len(d) = Len(c) + 1 /\ Len(c) >= 1 /\ Len(c) \in Nat
  OBVIOUS
<1>2. d[Len(d)] = x /\ \A i \in 1..Len(c) : d[i] = c[i] /\ c[i] \in S
  OBVIOUS
<1>3. \A i \in 1..Len(c) : c[i] # x
  BY DEF Has
<1> HIDE DEF d
<1>4. NoRepeat(d)
  BY <1>1, <1>2, <1>3 DEF NoRepeat
<1>5. Spells(d, [p EXCEPT ![c[Len(c)]] = x], null)
  BY <1>1, <1>2, <1>3 DEF Spells, NoRepeat
<1>6. Follows(d, c[Len(c)], x) /\ LastTwo(d, c[Len(c)])
  BY <1>1, <1>2 DEF Follows, LastTwo
<1> QED
  BY <1>4, <1>5, <1>6 DEF d

\* Appending x changes what is behind it for no other node.
LEMMA AppendOrder ==
  ASSUME NEW S, NEW c \in Seq(S), NEW x \in S, ~Has(c, x), NEW m, Has(c, m), NEW n
  PROVE  Before(Append(c, x), m, n) <=> Before(c, m, n) \/ n = x
<1>1. /\ Len(Append(c, x)) = Len(c) + 1 /\ Len(c) \in Nat /\ Append(c, x)[Len(c) + 1] = x
      /\ \A i \in 1..Len(c) : Append(c, x)[i] = c[i]
  OBVIOUS
<1>2. ASSUME Before(Append(c, x), m, n), n # x PROVE Before(c, m, n)
  BY <1>1, <1>2 DEF Before, Has
<1>3. Before(c, m, n) => Before(Append(c, x), m, n)
  BY AppendKeeps
<1>4. Before(Append(c, x), m, x)
  BY <1>1 DEF Before, Has
<1> QED
  BY <1>2, <1>3, <1>4

\* What is behind the successor of m is what is behind m, without m.
LEMMA FollowsOrder ==
  ASSUME NEW S, NEW c \in Seq(S), NoRepeat(c), NEW m, NEW n, Follows(c, m, n), NEW o
  PROVE  /\ Before(c, n, o) <=> Before(c, m, o) /\ o # m
         /\ Before(c, o, m) <=> Before(c, o, n) /\ o # n
BY DEF Before, Follows, NoRepeat

\* The pointer of a node leads to the one put on the list before it.
LEMMA ReadBack ==
  ASSUME NEW S, NEW c \in Seq(S), NEW null, null \notin S, NoRepeat(c),
         NEW p, SpellsBack(c, p, null), NEW m, Has(c, m)
  PROVE  /\ p[m] # null => Follows(c, p[m], m)
         /\ p[m] = null => \A n : Before(c, n, m) => n = m
<1>1. PICK i \in 1..Len(c) : c[i] = m
  BY DEF Has
<1>2. p[m] = IF i = 1 THEN null ELSE c[i - 1]
  BY <1>1 DEF SpellsBack
<1>3. i # 1 => i - 1 \in 1..(Len(c) - 1) /\ c[i - 1] \in S /\ (i - 1) + 1 = i
  BY <1>1
<1>4. p[m] # null => Follows(c, p[m], m)
  BY <1>1, <1>2, <1>3 DEF Follows
<1>5. p[m] = null => i = 1
  BY <1>2, <1>3
<1>6. p[m] = null => \A n : Before(c, n, m) => n = m
  BY <1>1, <1>5 DEF Before, NoRepeat
<1> QED
  BY <1>4, <1>6

\* Putting a new node on top.
LEMMA PutOnTop ==
  ASSUME NEW S, NEW c \in Seq(S), NoRepeat(c), NEW x \in S, ~Has(c, x),
         NEW null, NEW p \in [S -> S \union {null}], SpellsBack(c, p, null),
         NEW q, q = [p EXCEPT ![x] = Top(c, null)]
  PROVE  /\ Append(c, x) \in Seq(S) /\ NoRepeat(Append(c, x))
         /\ SpellsBack(Append(c, x), q, null)
         /\ Top(Append(c, x), null) = x
<1> DEFINE d == Append(c, x)
<1>1. /\ d \in Seq(S) /\ Len(d) = Len(c) + 1 /\ Len(c) \in Nat /\ d[Len(c) + 1] = x
      /\ \A i \in 1..Len(c) : d[i] = c[i] /\ c[i] \in S /\ c[i] # x
  BY DEF Has
<1>2. c = <<>> <=> Len(c) = 0
  OBVIOUS
<1> HIDE DEF d
<1>3. NoRepeat(d)
  BY <1>1 DEF NoRepeat
<1>4. Top(d, null) = x
  BY <1>1 DEF Top
<1>5. ASSUME NEW i \in 1..Len(d)
      PROVE  q[d[i]] = IF i = 1 THEN null ELSE d[i - 1]
  <2>1. CASE i = Len(c) + 1
    <3>1. q[d[i]] = Top(c, null)
      BY <1>1, <2>1
    <3>2. CASE Len(c) = 0
      BY <1>2, <2>1, <3>1, <3>2 DEF Top
    <3>3. CASE Len(c) # 0
      <4>1. i # 1 /\ i - 1 = Len(c) /\ Len(c) \in 1..Len(c)
        BY <1>1, <2>1, <3>3
      <4> QED
        BY <1>1, <1>2, <3>1, <3>3, <4>1 DEF Top
    <3> QED
      BY <3>2, <3>3
  <2>2. CASE i \in 1..Len(c)
    <3>1. i # 1 => i - 1 \in 1..Len(c)
      BY <1>1, <2>2
    <3>2. q[d[i]] = p[c[i]]
      BY <1>1, <2>2
    <3> QED
      BY <1>1, <2>2, <3>1, <3>2 DEF SpellsBack
  <2> QED
    BY <1>1, <2>1, <2>2
<1> QED
  BY <1>1, <1>3, <1>4, <1>5 DEF d, SpellsBack

LEMMA SeqEqual ==
  ASSUME NEW S, NEW s \in Seq(S), NEW u \in Seq(S), Len(s) = Len(u),
         \A i \in 1..Len(s) : s[i] = u[i]
  PROVE  s = u
OBVIOUS

\* What the rest of a list keeps when its first node is taken off.
LEMMA TailKeeps ==
  ASSUME NEW S, NEW c \in Seq(S), c # <<>>
  PROVE  /\ Tail(c) \in Seq(S) /\ Len(Tail(c)) = Len(c) - 1
         /\ \A i \in 1..(Len(c) - 1) : Tail(c)[i] = c[i + 1]
OBVIOUS

LEMMA PositionOf ==
  ASSUME NEW S, NEW c \in Seq(S), NoRepeat(c), NEW i \in 1..Len(c)
  PROVE  Position(c, c[i]) = i
BY DEF Position, NoRepeat

LEMMA RestType ==
  ASSUME NEW S, NEW c \in Seq(S), NoRepeat(c), NEW i \in 1..Len(c)
  PROVE  /\ Rest(c, c[i]) \in Seq(S) /\ Len(Rest(c, c[i])) = Len(c) - i
         /\ \A j \in 1..(Len(c) - i) : Rest(c, c[i])[j] = c[i + j]
<1>1. Rest(c, c[i]) = SubSeq(c, i + 1, Len(c))
  BY PositionOf DEF Rest
<1>2. Len(c) \in Nat /\ i \in Nat /\ i >= 1 /\ i <= Len(c)
  OBVIOUS
<1> QED
  BY <1>1, <1>2

\* Nothing is behind the last element.
LEMMA RestLast ==
  ASSUME NEW S, NEW c \in Seq(S), NoRepeat(c), c # <<>>
  PROVE  Rest(c, c[Len(c)]) = <<>>
<1>1. Len(c) \in 1..Len(c)
  OBVIOUS
<1>2. Rest(c, c[Len(c)]) \in Seq(S) /\ Len(Rest(c, c[Len(c)])) = 0
  BY <1>1, RestType
<1> QED
  BY <1>2

\* What is behind an element begins with its successor.
LEMMA RestFollows ==
  ASSUME NEW S, NEW c \in Seq(S), NoRepeat(c), NEW m, NEW n, Follows(c, m, n)
  PROVE  Rest(c, m) # <<>> /\ Head(Rest(c, m)) = n /\ Tail(Rest(c, m)) = Rest(c, n)
<1>1. PICK i \in 1..(Len(c) - 1) : c[i] = m /\ c[i + 1] = n
  BY DEF Follows
<1>2. Len(c) \in Nat /\ i \in 1..Len(c) /\ i + 1 \in 1..Len(c)
  BY <1>1
<1>3. /\ Rest(c, m) \in Seq(S) /\ Len(Rest(c, m)) = Len(c) - i
      /\ \A j \in 1..(Len(c) - i) : Rest(c, m)[j] = c[i + j]
  BY <1>1, <1>2, RestType
<1>4. /\ Rest(c, n) \in Seq(S) /\ Len(Rest(c, n)) = Len(c) - (i + 1)
      /\ \A j \in 1..(Len(c) - (i + 1)) : Rest(c, n)[j] = c[(i + 1) + j]
  BY <1>1, <1>2, RestType
<1>5. Rest(c, m) # <<>> /\ Head(Rest(c, m)) = n
  BY <1>1, <1>2, <1>3
<1>6. Tail(Rest(c, m)) = Rest(c, n)
  <2>1. /\ Tail(Rest(c, m)) \in Seq(S) /\ Len(Tail(Rest(c, m))) = Len(c) - (i + 1)
        /\ \A j \in 1..(Len(c) - (i + 1)) : Tail(Rest(c, m))[j] = Rest(c, m)[j + 1]
    BY <1>2, <1>3, <1>5, TailKeeps
  <2>2. ASSUME NEW j \in 1..(Len(c) - (i + 1))
        PROVE  Tail(Rest(c, m))[j] = Rest(c, n)[j]
    <3>1. j + 1 \in 1..(Len(c) - i) /\ i + (j + 1) = (i + 1) + j
      BY <1>2
    <3> QED
      BY <1>3, <1>4, <2>1, <3>1
  <2> QED
    BY <1>4, <2>1, <2>2, SeqEqual
<1> QED
  BY <1>5, <1>6

\* Appending to a sequence appends to what is behind each of its elements.
LEMMA RestAppend ==
  ASSUME NEW S, NEW c \in Seq(S), NoRepeat(c), NEW x \in S, ~Has(c, x), NEW n, Has(c, n)
  PROVE  Rest(Append(c, x), n) = Append(Rest(c, n), x)
<1> DEFINE d == Append(c, x)
<1>1. PICK i \in 1..Len(c) : c[i] = n
  BY DEF Has
<1>2. /\ d \in Seq(S) /\ Len(d) = Len(c) + 1 /\ Len(c) \in Nat
      /\ d[Len(c) + 1] = x /\ \A j \in 1..Len(c) : d[j] = c[j]
  OBVIOUS
<1> HIDE DEF d
<1>3. NoRepeat(d)
  BY <1>2 DEF NoRepeat, Has
<1>4. i \in 1..Len(d) /\ d[i] = n
  BY <1>1, <1>2
<1>5. /\ Rest(d, n) \in Seq(S) /\ Len(Rest(d, n)) = Len(d) - i
      /\ \A j \in 1..(Len(d) - i) : Rest(d, n)[j] = d[i + j]
  BY <1>2, <1>3, <1>4, RestType
<1>6. /\ Rest(c, n) \in Seq(S) /\ Len(Rest(c, n)) = Len(c) - i
      /\ \A j \in 1..(Len(c) - i) : Rest(c, n)[j] = c[i + j]
  BY <1>1, RestType
<1>7. /\ Append(Rest(c, n), x) \in Seq(S) /\ Len(Append(Rest(c, n), x)) = Len(d) - i
      /\ Append(Rest(c, n), x)[Len(d) - i] = x
      /\ \A j \in 1..(Len(c) - i) : Append(Rest(c, n), x)[j] = Rest(c, n)[j]
  <2>1. \A u \in Seq(S) :
          /\ Append(u, x) \in Seq(S) /\ Len(Append(u, x)) = Len(u) + 1
          /\ Append(u, x)[Len(u) + 1] = x
          /\ \A j \in 1..Len(u) : Append(u, x)[j] = u[j]
    OBVIOUS
  <2>2. Len(d) - i = Len(Rest(c, n)) + 1
    BY <1>1, <1>2, <1>6
  <2> QED
    BY <1>6, <2>1, <2>2
<1>8. ASSUME NEW j \in 1..(Len(d) - i) PROVE Rest(d, n)[j] = Append(Rest(c, n), x)[j]
  <2>1. CASE j = Len(d) - i
    BY <1>1, <1>2, <1>5, <1>7, <2>1
  <2>2. CASE j \in 1..(Len(c) - i)
    <3>1. i + j \in 1..Len(c)
      BY <1>1, <1>2, <2>2
    <3> QED
      BY <1>2, <1>5, <1>6, <1>7, <2>2, <3>1
  <2>3. \A k, l \in Nat : i <= l /\ k \in 1..((l + 1) - i) =>
          k = (l + 1) - i \/ k \in 1..(l - i)
    BY <1>1
  <2>4. /\ i <= Len(c) /\ j \in Nat /\ Len(d) - i = (Len(c) + 1) - i
        /\ j \in 1..((Len(c) + 1) - i)
    BY <1>1, <1>2
  <2>5. j = Len(d) - i \/ j \in 1..(Len(c) - i)
    BY <1>2, <2>3, <2>4
  <2> QED
    BY <2>1, <2>2, <2>5
<1> QED
  BY <1>5, <1>7, <1>8, SeqEqual DEF d

----------------------------------------------------------------------------

\* Which locals each step finds set.
LocalsSet ==
  \A t \in Threads :
    /\ pc[t] \in EnqueuePcs \union {"enqSwing"} => item[t] # Null
    /\ pc[t] \in {"enqNext", "enqCheck", "enqLink", "enqHelp", "enqSwing"} =>
         ltail[t] # Null
    /\ pc[t] \in {"deqTail", "deqNext", "deqCheck", "deqHelp", "deqSwing",
                  "retLoad", "retPush"} => lhead[t] # Null
    /\ pc[t] \in {"deqNext", "deqCheck", "deqHelp", "deqSwing"} => ltail[t] # Null
    /\ pc[t] \in {"enqHelp", "deqHelp", "deqSwing"} => lnext[t] # Null
    /\ pc[t] = "deqHelp" => lhead[t] = ltail[t]
    /\ pc[t] = "deqSwing" => lhead[t] # ltail[t]
    /\ pc[t] \in EnqueuePcs \union {"enqSwing", "idle", "deqHead"} => lhead[t] = Null
    /\ pc[t] \in {"idle", "enqTail", "deqHead", "deqTail"} => ltail[t] = Null
    /\ pc[t] \in {"idle", "enqTail", "enqNext", "deqHead", "deqTail", "deqNext"} =>
         lnext[t] = Null

LocalsLinked ==
  \A t \in Threads :
    /\ ltail[t] # Null => Before(chain, ltail[t], tail)
    /\ lhead[t] # Null => Before(chain, lhead[t], head)
    /\ (lhead[t] # Null /\ ltail[t] # Null) => Before(chain, lhead[t], ltail[t])

NextKept ==
  \A t \in Threads :
    /\ pc[t] \in EnqueuePcs /\ lnext[t] # Null => Follows(chain, ltail[t], lnext[t])
    /\ pc[t] \in DequeuePcs /\ lnext[t] # Null => Follows(chain, lhead[t], lnext[t])
    /\ pc[t] = "enqSwing" => Follows(chain, ltail[t], item[t])

Fresh ==
  /\ \A x \in unsent : ~Has(chain, x)
  /\ \A t \in Threads : pc[t] \in EnqueuePcs =>
       /\ item[t] \notin unsent /\ ~Has(chain, item[t])
       /\ \A u \in Threads \ {t} : pc[u] \in EnqueuePcs => item[u] # item[t]

Unlinked == \A n \in Nodes : next[n] # Null => Has(chain, n)

Shape ==
  /\ NoRepeat(chain) /\ Spells(chain, next, Null) /\ Unlinked
  /\ Before(chain, head, tail) /\ LastTwo(chain, tail)
  /\ LocalsLinked /\ NextKept /\ Fresh

\* The inductive invariant.
IInv == TypeOK /\ LocalsSet /\ Shape

----------------------------------------------------------------------------
(* Types *)

Types == TypeOK /\ LocalsSet

USE DEF Goto, Pcs, EnqueuePcs, DequeuePcs, NodeOrNull, Nodes

LEMMA TypesInit == Init => Types
BY NodeAssumption DEF Init, Types, TypeOK, LocalsSet

LEMMA TypesEnqueue ==
  ASSUME Types, NEW t \in Threads, Enqueue(t)
  PROVE  Types'
<1> USE NodeAssumption DEF Types, TypeOK, LocalsSet, list, retirement, locals, life
<1>1. CASE EnqReadTail(t)
  BY <1>1 DEF EnqReadTail
<1>2. CASE EnqReadNext(t)
  BY <1>2 DEF EnqReadNext
<1>3. CASE EnqCheck(t)
  BY <1>3 DEF EnqCheck, Again, DropLocals
<1>4. CASE EnqLink(t)
  <2>1. CASE Goto(t, "enqLink", "enqSwing") /\ UNCHANGED locals
    <3>1. pc[t] = "enqLink" /\ item[t] \in Items /\ ltail[t] \in Nodes
      BY <2>1
    <3>2. chain' \in Seq(Nodes)
      <4>1. chain' = chain \/ chain' = Append(chain, item[t])
        BY <1>4 DEF EnqLink
      <4>2. chain \in Seq(Nodes) /\ item[t] \in Nodes
        BY <3>1
      <4> QED
        BY <4>1, <4>2, AppendType
    <3>4. next' \in [Nodes -> Items \union {Null}]
      BY <1>4, <3>1 DEF EnqLink
    <3>3. LocalsSet'
      BY <2>1
    <3> QED
      BY <1>4, <2>1, <3>2, <3>3, <3>4 DEF EnqLink
  <2>2. CASE Again(t, "enqLink", "enqTail") /\ UNCHANGED <<next, chain>>
    BY <1>4, <2>2 DEF EnqLink, Again, DropLocals
  <2> QED
    BY <1>4, <2>1, <2>2 DEF EnqLink
<1>5. CASE EnqSwing(t)
  BY <1>5 DEF EnqSwing, Return, DropLocals, CasTail
<1>6. CASE EnqHelp(t)
  BY <1>6 DEF EnqHelp, Again, DropLocals, CasTail
<1> QED
  BY <1>1, <1>2, <1>3, <1>4, <1>5, <1>6 DEF Enqueue

LEMMA TypesDequeue ==
  ASSUME Types, NEW t \in Threads, Dequeue(t)
  PROVE  Types'
<1> USE NodeAssumption DEF Types, TypeOK, LocalsSet, list, retirement, locals, life
<1>1. CASE DeqReadHead(t)
  BY <1>1 DEF DeqReadHead
<1>2. CASE DeqReadTail(t)
  BY <1>2 DEF DeqReadTail
<1>3. CASE DeqReadNext(t)
  BY <1>3 DEF DeqReadNext
<1>4. CASE DeqReturnEmpty(t)
  BY <1>4 DEF DeqReturnEmpty, Return, DropLocals
<1>5. CASE DeqCheck(t)
  BY <1>5 DEF DeqCheck, Again, DropLocals
<1>6. CASE DeqHelp(t)
  BY <1>6 DEF DeqHelp, Again, DropLocals, CasTail
<1>7. CASE DeqSwing(t)
  <2>1. CASE Goto(t, "deqSwing", "retLoad") /\ head' = lnext[t]
    <3>1. pc[t] = "deqSwing" /\ lnext[t] \in Items
      BY <2>1
    <3>2. item' = [item EXCEPT ![t] = lnext[t]] /\ UNCHANGED <<lhead, ltail, lnext, lold>>
      BY <1>7, <2>1 DEF DeqSwing, Again
    <3>3. LocalsSet'
      BY <2>1, <3>2
    <3> QED
      BY <1>7, <2>1, <3>1, <3>2, <3>3 DEF DeqSwing
  <2>2. CASE Again(t, "deqSwing", "deqHead") /\ UNCHANGED head
    BY <1>7, <2>2 DEF DeqSwing, Again, DropLocals
  <2> QED
    BY <1>7, <2>1, <2>2 DEF DeqSwing
<1>8. CASE RetireLoad(t)
  BY <1>8 DEF RetireLoad
<1>9. CASE RetirePush(t)
  <2>1. pc[t] = "retPush" /\ lhead[t] \in Nodes
    BY <1>9 DEF RetirePush, Return
  <2>2. CASE Return(t, "retPush") /\ retired' = lhead[t]
    BY <1>9, <2>1, <2>2 DEF RetirePush, Return, DropLocals
  <2>3. CASE Goto(t, "retPush", "retPush")
    BY <1>9, <2>1, <2>3 DEF RetirePush, Return
  <2> QED
    BY <1>9, <2>2, <2>3 DEF RetirePush
<1> QED
  BY <1>1, <1>2, <1>3, <1>4, <1>5, <1>6, <1>7, <1>8, <1>9 DEF Dequeue

LEMMA TypesCall ==
  ASSUME Types, NEW t \in Threads, Call(t)
  PROVE  Types'
<1> USE NodeAssumption DEF Types, TypeOK, LocalsSet, list, retirement, locals, life
<1>1. CASE CallDequeue(t)
  BY <1>1 DEF CallDequeue
<1>2. CASE \E x \in Items : CallEnqueue(t, x)
  BY <1>2 DEF CallEnqueue
<1> QED
  BY <1>1, <1>2 DEF Call

LEMMA TypesDestructor ==
  ASSUME Types, Destroy \/ DeleteChain \/ DeleteRetired
  PROVE  Types'
<1> USE NodeAssumption DEF Types, TypeOK, LocalsSet, list, retirement, locals, life
<1>1. CASE Destroy
  BY <1>1 DEF Destroy
<1>2. CASE DeleteChain
  BY <1>2 DEF DeleteChain
<1>3. CASE DeleteRetired
  BY <1>3 DEF DeleteRetired
<1> QED
  BY <1>1, <1>2, <1>3

LEMMA TypesStutter == Types /\ UNCHANGED vars => Types'
BY DEF Types, TypeOK, LocalsSet, vars, list, retirement, locals, life

LEMMA TypesNext == Types /\ [Next]_vars => Types'
BY TypesEnqueue, TypesDequeue, TypesCall, TypesDestructor, TypesStutter DEF Next, Gone

\* Type correctness: every variable, and every local of every call, keeps its
\* type; no thread follows a pointer it has not read.
THEOREM TypeCorrect == Spec => []TypeOK
<1>1. Types => TypeOK
  BY DEF Types
<1> QED
  BY TypesInit, TypesNext, <1>1, PTL DEF Spec

----------------------------------------------------------------------------
(* The shape of the list *)

\* TypeOK gives the types the lemmas above ask for.
LEMMA ChainType ==
  ASSUME Types
  PROVE  /\ chain \in Seq(Nodes) /\ Null \notin Nodes
         /\ next \in [Nodes -> Nodes \union {Null}]
         /\ head \in Nodes /\ tail \in Nodes
BY NodeAssumption DEF Types, TypeOK

LEMMA ShapeInit == Init => Shape
<1> SUFFICES ASSUME Init PROVE Shape
  OBVIOUS
<1>1. chain = <<Dummy>> /\ head = Dummy /\ tail = Dummy /\ unsent = Items
  BY DEF Init
<1>2. Len(chain) = 1 /\ chain[1] = Dummy
  BY <1>1
<1>3. NoRepeat(chain) /\ Before(chain, head, tail) /\ LastTwo(chain, tail)
  BY <1>1, <1>2 DEF NoRepeat, Before, LastTwo
<1>4. Spells(chain, next, Null) /\ Unlinked
  BY <1>2 DEF Init, Spells, Unlinked
<1>5. LocalsLinked /\ NextKept
  BY DEF Init, LocalsLinked, NextKept
<1>6. Fresh
  BY <1>1, <1>2, NodeAssumption DEF Init, Fresh, Has
<1> QED
  BY <1>3, <1>4, <1>5, <1>6 DEF Shape

\* A step that leaves the list alone keeps the part of Shape about the list.
LEMMA ListKept ==
  ASSUME Shape, UNCHANGED list, LocalsLinked', NextKept', Fresh'
  PROVE  Shape'
BY DEF Shape, Unlinked, list

LEMMA FreshKept ==
  ASSUME Fresh, UNCHANGED <<chain, unsent>>,
         \A u \in Threads : pc'[u] \in EnqueuePcs =>
                              pc[u] \in EnqueuePcs /\ item'[u] = item[u]
  PROVE  Fresh'
BY DEF Fresh

\* head_ and tail_ only move forward.
Forward ==
  /\ chain' = chain
  /\ \A m : Before(chain, m, tail) => Before(chain, m, tail')
  /\ \A m : Before(chain, m, head) => Before(chain, m, head')

LEMMA ForwardStutter == UNCHANGED list => Forward
BY DEF Forward, list

\* A thread whose locals are dropped has nothing left to be linked.
LEMMA DroppedLocals ==
  ASSUME Types, Types', Shape, NEW t \in Threads, DropLocals(t), Forward,
         \A u \in Threads \ {t} : pc'[u] = pc[u] /\ item'[u] = item[u],
         pc'[t] # "enqSwing"
  PROVE  LocalsLinked' /\ NextKept'
<1>1. \A u \in Threads \ {t} :
        lhead'[u] = lhead[u] /\ ltail'[u] = ltail[u] /\ lnext'[u] = lnext[u]
  BY DEF DropLocals, Types, TypeOK
<1>2. lhead'[t] = Null /\ ltail'[t] = Null /\ lnext'[t] = Null
  BY DEF DropLocals, Types, TypeOK
<1>3. LocalsLinked'
  BY <1>1, <1>2 DEF LocalsLinked, Shape, Forward
<1>4. NextKept'
  BY <1>1, <1>2 DEF NextKept, Shape, Forward
<1> QED
  BY <1>3, <1>4

LEMMA ShapeEnqReads ==
  ASSUME Types, Types', Shape, NEW t \in Threads,
         EnqReadTail(t) \/ EnqReadNext(t) \/ EnqCheck(t)
  PROVE  Shape'
<1> USE DEF list, locals, life
<1>1. CASE EnqReadTail(t)
  <2>1. Before(chain, tail, tail)
    BY DEF Shape, LastTwo, Before
  <2>2. LocalsLinked'
    BY <1>1, <2>1 DEF EnqReadTail, LocalsLinked, Shape, Types, TypeOK, LocalsSet
  <2>3. NextKept'
    BY <1>1 DEF EnqReadTail, NextKept, Shape, Types, TypeOK, LocalsSet
  <2>4. Fresh'
    BY <1>1, FreshKept DEF EnqReadTail, Shape, Types, TypeOK
  <2> QED
    BY <1>1, <2>2, <2>3, <2>4, ListKept DEF EnqReadTail
<1>2. CASE EnqReadNext(t)
  <2>1. ltail[t] # Null /\ Before(chain, ltail[t], tail)
    BY <1>2 DEF EnqReadNext, Types, LocalsSet, Shape, LocalsLinked
  <2>2. next[ltail[t]] # Null => Follows(chain, ltail[t], next[ltail[t]])
    BY <2>1, ChainType, ReadNext DEF Shape
  <2>3. LocalsLinked'
    BY <1>2 DEF EnqReadNext, LocalsLinked, Shape
  <2>4. NextKept'
    BY <1>2, <2>2 DEF EnqReadNext, NextKept, Shape, Types, TypeOK
  <2>5. Fresh'
    BY <1>2, FreshKept DEF EnqReadNext, Shape, Types, TypeOK
  <2> QED
    BY <1>2, <2>3, <2>4, <2>5, ListKept DEF EnqReadNext
<1>3. CASE EnqCheck(t)
  <2>1. Fresh'
    BY <1>3, FreshKept DEF EnqCheck, Again, Shape, Types, TypeOK
  <2>2. CASE Again(t, "enqCheck", "enqTail")
    <3>1. LocalsLinked' /\ NextKept'
      BY <1>3, <2>2, DroppedLocals, ForwardStutter DEF EnqCheck, Again, Types, TypeOK
    <3> QED
      BY <1>3, <2>1, <3>1, ListKept DEF EnqCheck
  <2>3. CASE UNCHANGED locals /\ ~Again(t, "enqCheck", "enqTail")
    <3>1. LocalsLinked' /\ NextKept'
      BY <1>3, <2>3 DEF EnqCheck, LocalsLinked, NextKept, Shape, Types, TypeOK
    <3> QED
      BY <1>3, <2>1, <3>1, ListKept DEF EnqCheck
  <2> QED
    BY <1>3, <2>2, <2>3 DEF EnqCheck
<1> QED
  BY <1>1, <1>2, <1>3

\* The compare-and-swap of tail_ to the successor of the local tail.
LEMMA TailMoves ==
  ASSUME Types, Types', Shape, NEW t \in Threads, NEW n,
         Follows(chain, ltail[t], n), CasTail(t, n), UNCHANGED <<head, next, chain>>
  PROVE  Forward /\ Before(chain, head, tail)' /\ LastTwo(chain, tail)'
<1>1. chain \in Seq(Nodes) /\ NoRepeat(chain)
  BY ChainType DEF Shape
<1>2. tail' = tail \/ (tail = ltail[t] /\ tail' = n)
  BY DEF CasTail
<1>3. CASE tail' = tail
  BY <1>3 DEF Forward, Shape
<1>4. CASE tail = ltail[t] /\ tail' = n
  <2>1. \A m : Before(chain, m, tail) => Before(chain, m, tail')
    BY <1>1, <1>4, BeforeFollows
  <2>2. LastTwo(chain, tail')
    BY <1>1, <1>4, FollowsLastTwo DEF Shape
  <2> QED
    BY <2>1, <2>2 DEF Forward, Shape
<1> QED
  BY <1>2, <1>3, <1>4

LEMMA ShapeEnqSwing ==
  ASSUME Types, Types', Shape, NEW t \in Threads, EnqSwing(t) \/ EnqHelp(t)
  PROVE  Shape'
<1>1. CASE EnqSwing(t)
  <2>1. pc[t] = "enqSwing" /\ Follows(chain, ltail[t], item[t])
    BY <1>1 DEF EnqSwing, Return, Shape, NextKept
  <2>2. Forward /\ Before(chain, head, tail)' /\ LastTwo(chain, tail)'
    BY <1>1, <2>1, TailMoves DEF EnqSwing
  <2>3. LocalsLinked' /\ NextKept'
    BY <1>1, <2>2, DroppedLocals DEF EnqSwing, Return, Types, TypeOK
  <2>4. Fresh'
    BY <1>1, FreshKept DEF EnqSwing, Return, Shape, Types, TypeOK, life
  <2> QED
    BY <1>1, <2>2, <2>3, <2>4 DEF EnqSwing, Shape, Unlinked
<1>2. CASE EnqHelp(t)
  <2>1. pc[t] = "enqHelp" /\ lnext[t] # Null /\ Follows(chain, ltail[t], lnext[t])
    BY <1>2 DEF EnqHelp, Again, Shape, NextKept, Types, LocalsSet
  <2>2. Forward /\ Before(chain, head, tail)' /\ LastTwo(chain, tail)'
    BY <1>2, <2>1, TailMoves DEF EnqHelp
  <2>3. LocalsLinked' /\ NextKept'
    BY <1>2, <2>2, DroppedLocals DEF EnqHelp, Again, Types, TypeOK
  <2>4. Fresh'
    BY <1>2, FreshKept DEF EnqHelp, Again, Shape, Types, TypeOK, life
  <2> QED
    BY <1>2, <2>2, <2>3, <2>4 DEF EnqHelp, Shape, Unlinked
<1> QED
  BY <1>1, <1>2

LEMMA ShapeEnqLink ==
  ASSUME Types, Types', Shape, NEW t \in Threads, EnqLink(t)
  PROVE  Shape'
<1>1. CASE Again(t, "enqLink", "enqTail") /\ UNCHANGED <<next, chain>>
  <2>1. UNCHANGED list
    BY <1>1 DEF EnqLink, list
  <2>2. LocalsLinked' /\ NextKept'
    BY <1>1, <2>1, DroppedLocals, ForwardStutter DEF Again, Types, TypeOK
  <2>3. Fresh'
    BY <1>1, FreshKept DEF EnqLink, Again, Shape, Types, TypeOK, life
  <2> QED
    BY <2>1, <2>2, <2>3, ListKept
<1>2. CASE /\ Goto(t, "enqLink", "enqSwing") /\ next[ltail[t]] = Null
           /\ next' = [next EXCEPT ![ltail[t]] = item[t]]
           /\ chain' = Append(chain, item[t])
           /\ UNCHANGED locals
  <2> DEFINE x == item[t]
             l == ltail[t]
  <2>1. /\ pc[t] = "enqLink" /\ x \in Items /\ x \in Nodes /\ l # Null
        /\ UNCHANGED <<head, tail, unsent, item, lhead, ltail, lnext>>
    BY <1>2 DEF EnqLink, Types, TypeOK, LocalsSet, locals, life
  <2>2. Before(chain, l, tail) /\ ~Has(chain, x) /\ x \notin unsent
    BY <2>1 DEF Shape, LocalsLinked, Fresh
  <2>3. next[x] = Null
    BY <2>1, <2>2 DEF Shape, Unlinked
  <2>4. l = tail /\ chain # <<>> /\ l = chain[Len(chain)]
    BY <1>2, <2>2, ChainType, LinkAtEnd DEF Shape
  <2>5. /\ NoRepeat(chain') /\ Spells(chain', next', Null)
        /\ Follows(chain', l, x) /\ LastTwo(chain', l)
    BY <1>2, <2>1, <2>2, <2>3, <2>4, ChainType, LinkLast DEF Shape
  <2>6. \A m, n : /\ Before(chain, m, n) => Before(chain', m, n)
                  /\ Follows(chain, m, n) => Follows(chain', m, n)
                  /\ Has(chain', m) <=> Has(chain, m) \/ m = x
    BY <1>2, <2>1, ChainType, AppendKeeps
  <2>7. Has(chain, l)
    BY <2>2 DEF Before, Has
  <2>8. Unlinked'
    BY <1>2, <2>1, <2>6, <2>7 DEF Unlinked, Shape, Types, TypeOK
  <2>9. LocalsLinked'
    BY <2>1, <2>6 DEF LocalsLinked, Shape
  <2>10. NextKept'
    BY <1>2, <2>1, <2>5, <2>6 DEF NextKept, Shape, Types, TypeOK
  <2>11. Fresh'
    <3>1. pc'[t] = "enqSwing" /\ \A u \in Threads \ {t} : pc'[u] = pc[u]
      BY <1>2 DEF Types, TypeOK
    <3>2. \A u \in Threads \ {t} : pc[u] \in EnqueuePcs => item[u] # x
      BY <2>1 DEF Fresh, Shape
    <3>3. \A y \in unsent : ~Has(chain', y)
      BY <2>2, <2>6 DEF Fresh, Shape
    <3>4. ASSUME NEW u \in Threads, pc'[u] \in EnqueuePcs
          PROVE  /\ item[u] \notin unsent /\ ~Has(chain', item[u])
                 /\ \A v \in Threads \ {u} : pc'[v] \in EnqueuePcs => item[v] # item[u]
      <4>1. u # t /\ pc[u] \in EnqueuePcs
        BY <3>1, <3>4
      <4> QED
        BY <3>1, <3>2, <4>1, <2>6 DEF Fresh, Shape
    <3> QED
      BY <2>1, <3>3, <3>4 DEF Fresh
  <2> QED
    BY <2>1, <2>4, <2>5, <2>6, <2>8, <2>9, <2>10, <2>11 DEF Shape
<1> QED
  BY <1>1, <1>2 DEF EnqLink

LEMMA ShapeDeqReads ==
  ASSUME Types, Types', Shape, NEW t \in Threads,
         DeqReadHead(t) \/ DeqReadTail(t) \/ DeqReadNext(t) \/ RetireLoad(t)
  PROVE  Shape'
<1> USE DEF list, life
<1>1. CASE DeqReadHead(t)
  <2>1. Before(chain, head, head)
    BY DEF Shape, Before
  <2>2. LocalsLinked'
    BY <1>1, <2>1 DEF DeqReadHead, LocalsLinked, Shape, Types, TypeOK, LocalsSet
  <2>3. NextKept'
    BY <1>1 DEF DeqReadHead, NextKept, Shape, Types, TypeOK, LocalsSet
  <2>4. Fresh'
    BY <1>1, FreshKept DEF DeqReadHead, Shape, Types, TypeOK
  <2> QED
    BY <1>1, <2>2, <2>3, <2>4, ListKept DEF DeqReadHead
<1>2. CASE DeqReadTail(t)
  <2>1. lhead[t] # Null /\ Before(chain, lhead[t], head)
    BY <1>2 DEF DeqReadTail, Types, LocalsSet, Shape, LocalsLinked
  <2>2. Before(chain, lhead[t], tail) /\ Before(chain, tail, tail)
    BY <2>1, ChainType, BeforeTrans DEF Shape, LastTwo, Before
  <2>3. LocalsLinked'
    BY <1>2, <2>2 DEF DeqReadTail, LocalsLinked, Shape, Types, TypeOK
  <2>4. NextKept'
    BY <1>2 DEF DeqReadTail, NextKept, Shape, Types, TypeOK, LocalsSet
  <2>5. Fresh'
    BY <1>2, FreshKept DEF DeqReadTail, Shape, Types, TypeOK
  <2> QED
    BY <1>2, <2>3, <2>4, <2>5, ListKept DEF DeqReadTail
<1>3. CASE DeqReadNext(t)
  <2>1. lhead[t] # Null /\ Before(chain, lhead[t], head)
    BY <1>3 DEF DeqReadNext, Types, LocalsSet, Shape, LocalsLinked
  <2>2. next[lhead[t]] # Null => Follows(chain, lhead[t], next[lhead[t]])
    BY <2>1, ChainType, ReadNext DEF Shape
  <2>3. LocalsLinked'
    BY <1>3 DEF DeqReadNext, LocalsLinked, Shape
  <2>4. NextKept'
    BY <1>3, <2>2 DEF DeqReadNext, NextKept, Shape, Types, TypeOK
  <2>5. Fresh'
    BY <1>3, FreshKept DEF DeqReadNext, Shape, Types, TypeOK
  <2> QED
    BY <1>3, <2>3, <2>4, <2>5, ListKept DEF DeqReadNext
<1>4. CASE RetireLoad(t)
  <2>1. LocalsLinked' /\ NextKept'
    BY <1>4 DEF RetireLoad, LocalsLinked, NextKept, Shape, Types, TypeOK
  <2>2. Fresh'
    BY <1>4, FreshKept DEF RetireLoad, Shape, Types, TypeOK
  <2> QED
    BY <1>4, <2>1, <2>2, ListKept DEF RetireLoad
<1> QED
  BY <1>1, <1>2, <1>3, <1>4

LEMMA ShapeDeqCheck ==
  ASSUME Types, Types', Shape, NEW t \in Threads,
         DeqReturnEmpty(t) \/ DeqCheck(t) \/ RetirePush(t)
  PROVE  Shape'
<1>1. UNCHANGED <<list, unsent>>
  BY DEF DeqReturnEmpty, DeqCheck, RetirePush, life
<1>2. Fresh'
  BY <1>1, FreshKept
  DEF DeqReturnEmpty, DeqCheck, RetirePush, Return, Again, Shape, Types, TypeOK, list, locals
<1>3. CASE /\ pc' = [pc EXCEPT ![t] = pc'[t]] /\ pc'[t] # "enqSwing"
           /\ DropLocals(t)
           /\ \A u \in Threads \ {t} : item'[u] = item[u]
  <2>1. LocalsLinked' /\ NextKept'
    BY <1>1, <1>3, DroppedLocals, ForwardStutter DEF Types, TypeOK
  <2> QED
    BY <1>1, <1>2, <2>1, ListKept
<1>4. CASE /\ UNCHANGED <<item, lhead, ltail, lnext>>
           /\ \A u \in Threads \ {t} : pc'[u] = pc[u]
           /\ pc'[t] \notin EnqueuePcs \union {"enqSwing"}
           /\ pc'[t] \in DequeuePcs => pc[t] \in DequeuePcs
  <2>1. LocalsLinked'
    BY <1>1, <1>4 DEF LocalsLinked, Shape, list
  <2>2. NextKept'
    BY <1>1, <1>4 DEF NextKept, Shape, list
  <2> QED
    BY <1>1, <1>2, <2>1, <2>2, ListKept
<1>5. CASE DeqReturnEmpty(t)
  BY <1>3, <1>5 DEF DeqReturnEmpty, Return, Types, TypeOK
<1>6. CASE DeqCheck(t)
  <2>1. CASE Again(t, "deqCheck", "deqHead")
    BY <1>3, <2>1 DEF Again, Types, TypeOK
  <2>2. CASE UNCHANGED locals /\ ~Again(t, "deqCheck", "deqHead")
    BY <1>4, <1>6, <2>2 DEF DeqCheck, Types, TypeOK, locals
  <2> QED
    BY <1>6, <2>1, <2>2 DEF DeqCheck
<1>7. CASE RetirePush(t)
  <2>1. CASE Return(t, "retPush")
    BY <1>3, <2>1 DEF Return, Types, TypeOK
  <2>2. CASE Goto(t, "retPush", "retPush") /\ UNCHANGED <<item, lhead, ltail, lnext>>
    BY <1>4, <2>2 DEF Types, TypeOK
  <2> QED
    BY <1>7, <2>1, <2>2 DEF RetirePush
<1> QED
  BY <1>5, <1>6, <1>7

LEMMA ShapeDeqHelp ==
  ASSUME Types, Types', Shape, NEW t \in Threads, DeqHelp(t)
  PROVE  Shape'
<1>1. /\ pc[t] = "deqHelp" /\ lnext[t] # Null /\ lhead[t] = ltail[t]
      /\ Follows(chain, ltail[t], lnext[t])
  BY DEF DeqHelp, Again, Shape, NextKept, Types, LocalsSet
<1>2. Forward /\ Before(chain, head, tail)' /\ LastTwo(chain, tail)'
  BY <1>1, TailMoves DEF DeqHelp
<1>3. LocalsLinked' /\ NextKept'
  BY <1>2, DroppedLocals DEF DeqHelp, Again, Types, TypeOK
<1>4. Fresh'
  BY FreshKept DEF DeqHelp, Again, Shape, Types, TypeOK, life
<1> QED
  BY <1>2, <1>3, <1>4 DEF DeqHelp, Shape, Unlinked

\* The step ListShape is about: head_ moves only to a node that tail_ has
\* already reached, because the local tail was read after the local head, was
\* another node, and tail_ has not moved back since.
LEMMA ShapeDeqSwing ==
  ASSUME Types, Types', Shape, NEW t \in Threads, DeqSwing(t)
  PROVE  Shape'
<1>1. CASE Again(t, "deqSwing", "deqHead") /\ UNCHANGED head
  <2>1. UNCHANGED list
    BY <1>1 DEF DeqSwing, list
  <2>2. LocalsLinked' /\ NextKept'
    BY <1>1, <2>1, DroppedLocals, ForwardStutter DEF Again, Types, TypeOK
  <2>3. Fresh'
    BY <1>1, FreshKept DEF DeqSwing, Again, Shape, Types, TypeOK, life
  <2> QED
    BY <2>1, <2>2, <2>3, ListKept
<1>2. CASE /\ head = lhead[t] /\ Goto(t, "deqSwing", "retLoad") /\ head' = lnext[t]
           /\ item' = [item EXCEPT ![t] = lnext[t]]
           /\ UNCHANGED <<lhead, ltail, lnext, lold>>
  <2> DEFINE n == lnext[t]
  <2>1. /\ pc[t] = "deqSwing" /\ n # Null
        /\ ltail[t] # Null /\ lhead[t] # Null /\ lhead[t] # ltail[t]
        /\ UNCHANGED <<tail, next, chain, unsent>>
    BY <1>2 DEF DeqSwing, Types, LocalsSet, life
  <2>2. /\ Follows(chain, head, n) /\ Before(chain, head, ltail[t])
        /\ Before(chain, ltail[t], tail)
    BY <1>2, <2>1 DEF Shape, NextKept, LocalsLinked
  <2>3. Before(chain, n, tail)
    BY <1>2, <2>1, <2>2, ChainType, FollowsBefore, BeforeTrans DEF Shape
  <2>4. \A m : Before(chain, m, head) => Before(chain, m, n)
    BY <2>2, ChainType, BeforeFollows DEF Shape
  <2>5. LocalsLinked'
    BY <1>2, <2>1, <2>4 DEF LocalsLinked, Shape
  <2>6. NextKept'
    BY <1>2, <2>1 DEF NextKept, Shape, Types, TypeOK
  <2>7. Fresh'
    BY <1>2, <2>1, FreshKept DEF Shape, Types, TypeOK
  <2> QED
    BY <1>2, <2>1, <2>3, <2>5, <2>6, <2>7 DEF Shape, Unlinked
<1> QED
  BY <1>1, <1>2 DEF DeqSwing

LEMMA ShapeCall ==
  ASSUME Types, Types', Shape, NEW t \in Threads, Call(t)
  PROVE  Shape'
<1> USE DEF list, locals, life
<1>1. CASE CallDequeue(t)
  <2>1. LocalsLinked' /\ NextKept'
    BY <1>1 DEF CallDequeue, LocalsLinked, NextKept, Shape, Types, TypeOK, LocalsSet
  <2>2. Fresh'
    BY <1>1, FreshKept DEF CallDequeue, Shape, Types, TypeOK
  <2> QED
    BY <1>1, <2>1, <2>2, ListKept DEF CallDequeue
<1>2. ASSUME NEW x \in Items, CallEnqueue(t, x)
      PROVE  Shape'
  <2>1. LocalsLinked' /\ NextKept'
    BY <1>2 DEF CallEnqueue, LocalsLinked, NextKept, Shape, Types, TypeOK, LocalsSet
  <2>2. Fresh'
    <3>1. /\ x \in unsent /\ ~Has(chain, x)
          /\ \A u \in Threads : pc[u] \in EnqueuePcs => item[u] # x
      BY <1>2 DEF CallEnqueue, Fresh, Shape
    <3>2. /\ pc[t] = "idle" /\ pc'[t] = "enqTail" /\ item'[t] = x
          /\ \A u \in Threads \ {t} : pc'[u] = pc[u] /\ item'[u] = item[u]
          /\ unsent' = unsent \ {x} /\ chain' = chain
      BY <1>2 DEF CallEnqueue, Types, TypeOK
    <3>3. ASSUME NEW u \in Threads, pc'[u] \in EnqueuePcs
          PROVE  /\ item'[u] \notin unsent' /\ ~Has(chain, item'[u])
                 /\ \A v \in Threads \ {u} : pc'[v] \in EnqueuePcs => item'[v] # item'[u]
      <4>1. CASE u = t
        BY <3>1, <3>2, <4>1
      <4>2. CASE u # t
        BY <3>1, <3>2, <3>3, <4>2 DEF Fresh, Shape
      <4> QED
        BY <4>1, <4>2
    <3> QED
      BY <3>2, <3>3 DEF Fresh, Shape
  <2> QED
    BY <1>2, <2>1, <2>2, ListKept DEF CallEnqueue
<1> QED
  BY <1>1, <1>2 DEF Call

LEMMA ShapeDestructor ==
  ASSUME Shape, Destroy \/ DeleteChain \/ DeleteRetired \/ UNCHANGED vars
  PROVE  Shape'
<1>1. UNCHANGED <<list, pc, locals, unsent>>
  BY DEF Destroy, DeleteChain, DeleteRetired, vars, list, locals, life
<1>2. LocalsLinked' /\ NextKept' /\ Fresh'
  BY <1>1 DEF LocalsLinked, NextKept, Fresh, Shape, list, locals
<1> QED
  BY <1>1, <1>2, ListKept

LEMMA IInvInit == Init => IInv
BY TypesInit, ShapeInit DEF IInv, Types

LEMMA IInvNext == IInv /\ [Next]_vars => IInv'
<1> SUFFICES ASSUME IInv, [Next]_vars PROVE IInv'
  OBVIOUS
<1>1. Types /\ Types' /\ Shape
  BY TypesNext DEF IInv, Types
<1>2. ASSUME NEW t \in Threads, Enqueue(t) PROVE Shape'
  BY <1>1, <1>2, ShapeEnqReads, ShapeEnqSwing, ShapeEnqLink DEF Enqueue
<1>3. ASSUME NEW t \in Threads, Dequeue(t) PROVE Shape'
  BY <1>1, <1>3, ShapeDeqReads, ShapeDeqCheck, ShapeDeqHelp, ShapeDeqSwing DEF Dequeue
<1>4. Shape'
  BY <1>1, <1>2, <1>3, ShapeCall, ShapeDestructor DEF Next, Gone
<1> QED
  BY <1>1, <1>4 DEF IInv, Types

LEMMA IInvShape == IInv => ListShape
<1> SUFFICES ASSUME IInv PROVE ListShape
  OBVIOUS
<1>1. chain \in Seq(Nodes) /\ Spells(chain, next, Null) /\ NoRepeat(chain)
  BY DEF IInv, TypeOK, Shape
<1>2. PICK h, k \in 1..Len(chain) : chain[h] = head /\ chain[k] = tail /\ h <= k
  BY DEF IInv, Shape, Before
<1>3. Len(chain) <= k + 1
  BY <1>1, <1>2 DEF IInv, Shape, LastTwo, NoRepeat
<1> QED
  BY <1>1, <1>2, <1>3 DEF ListShape, Spells

\* The list keeps its shape: the nodes stay linked in the order of their links,
\* head_ never passes tail_ and tail_ is the last node or the one before it,
\* for any number of threads that enqueue, help and dequeue at once.
THEOREM ListKeepsShape == Spec => []ListShape
BY IInvInit, IInvNext, IInvShape, PTL DEF Spec

----------------------------------------------------------------------------
(* Linearizability: the refinement of FifoQueue *)

\* What the refinement maps the variables of FifoQueue to.
ValOf(t) == IF StageOf(t) \in {"enq", "enqDone", "deqDone"} THEN item[t] ELSE Null
Stage == [t \in Threads |-> StageOf(t)]
Val == [t \in Threads |-> ValOf(t)]
Queue == Rest(chain, head)

LEMMA QueueIs == Queue = SubSeq(chain, Pos(head) + 1, Len(chain))
<1>1. Pos(head) = Position(chain, head)
  BY Zenon DEF Position, Pos
<1> QED
  BY <1>1 DEF Queue, Rest

LEMMA QueueIsNext == Queue' = SubSeq(chain, Pos(head) + 1, Len(chain))'
<1>1. Pos(head)' = Position(chain', head')
  BY Zenon DEF Position, Pos
<1> QED
  BY <1>1 DEF Queue, Rest

\* Thread t alone makes a step.
Alone(t) ==
  \A u \in Threads \ {t} : pc'[u] = pc[u] /\ item'[u] = item[u] /\ lnext'[u] = lnext[u]

\* A step of thread t alone changes the stage and the value of thread t alone.
LEMMA StageStep ==
  ASSUME NEW t \in Threads, Alone(t)
  PROVE  Stage' = [Stage EXCEPT ![t] = StageOf(t)'] /\ Val' = [Val EXCEPT ![t] = ValOf(t)']
<1>1. \A u \in Threads \ {t} : StageOf(u)' = StageOf(u)
  BY DEF StageOf, Alone
<1>2. \A u \in Threads \ {t} : ValOf(u)' = ValOf(u)
  BY <1>1 DEF ValOf, Alone
<1> QED
  BY <1>1, <1>2 DEF Stage, Val

\* A step that passes no stage and leaves the queue alone is no step of FifoQueue.
LEMMA Silent ==
  ASSUME NEW t \in Threads, Alone(t), StageOf(t)' = StageOf(t), ValOf(t)' = ValOf(t),
         UNCHANGED <<chain, head>>
  PROVE  UNCHANGED Fifo!vars
<1>1. Stage' = Stage /\ Val' = Val
  BY StageStep DEF Stage, Val
<1>2. Queue' = Queue
  BY DEF Queue
<1> QED
  BY <1>1, <1>2, QueueIs, QueueIsNext DEF Fifo!vars, Stage, Val, ValOf

LEMMA FifoCall ==
  ASSUME IInv, NEW t \in Threads, Call(t)
  PROVE  Fifo!Next
<1>1. CASE CallDequeue(t)
  <2>1. /\ StageOf(t) = "idle" /\ StageOf(t)' = "deq" /\ ValOf(t)' = ValOf(t)
        /\ Alone(t) /\ UNCHANGED <<chain, head>>
    BY <1>1 DEF CallDequeue, list, locals, StageOf, ValOf, Alone, IInv, TypeOK
  <2>2. Stage' = [Stage EXCEPT ![t] = "deq"] /\ Stage[t] = "idle" /\ Val' = Val
    BY <2>1, StageStep DEF Stage, Val
  <2>3. Queue' = Queue
    BY <2>1 DEF Queue
  <2>4. Fifo!CallDequeue(t)
    BY <2>2, <2>3, QueueIs, QueueIsNext DEF Fifo!CallDequeue, Fifo!Pass, Stage, Val, ValOf
  <2> QED
    BY <2>4 DEF Fifo!Next
<1>2. ASSUME NEW x \in Items, CallEnqueue(t, x)
      PROVE  Fifo!Next
  <2>1. /\ StageOf(t) = "idle" /\ StageOf(t)' = "enq" /\ ValOf(t)' = x
        /\ Alone(t) /\ UNCHANGED <<chain, head>>
    BY <1>2 DEF CallEnqueue, list, StageOf, ValOf, Alone, IInv, TypeOK
  <2>2. Stage' = [Stage EXCEPT ![t] = "enq"] /\ Stage[t] = "idle" /\ Val' = [Val EXCEPT ![t] = x]
    BY <2>1, StageStep DEF Stage
  <2>3. Queue' = Queue
    BY <2>1 DEF Queue
  <2>4. Fifo!CallEnqueue(t, x)
    BY <2>2, <2>3, QueueIs, QueueIsNext DEF Fifo!CallEnqueue, Fifo!Pass, Stage, Val, ValOf
  <2> QED
    BY <2>4 DEF Fifo!Next
<1> QED
  BY <1>1, <1>2 DEF Call

\* The enqueue takes effect when its compare-and-swap links the node.
LEMMA FifoEnqueue ==
  ASSUME IInv, IInv', NEW t \in Threads, Enqueue(t)
  PROVE  Fifo!Next \/ UNCHANGED Fifo!vars
<1>1. CASE EnqReadTail(t) \/ EnqReadNext(t)
  BY <1>1, Silent DEF EnqReadTail, EnqReadNext, list, StageOf, ValOf, Alone, IInv, TypeOK
<1>2. CASE EnqCheck(t) \/ EnqHelp(t)
  BY <1>2, Silent
  DEF EnqCheck, EnqHelp, Again, DropLocals, list, locals, StageOf, ValOf, Alone, IInv, TypeOK
<1>3. CASE EnqLink(t)
  <2>1. CASE Again(t, "enqLink", "enqTail") /\ UNCHANGED <<next, chain>>
    BY <1>3, <2>1, Silent DEF EnqLink, Again, DropLocals, StageOf, ValOf, Alone, IInv, TypeOK
  <2>2. CASE /\ Goto(t, "enqLink", "enqSwing") /\ UNCHANGED locals
             /\ chain' = Append(chain, item[t])
    <3>1. /\ StageOf(t) = "enq" /\ StageOf(t)' = "enqDone" /\ ValOf(t) = item[t]
          /\ ValOf(t)' = ValOf(t) /\ Alone(t) /\ head' = head
      BY <1>3, <2>2 DEF EnqLink, locals, StageOf, ValOf, Alone, IInv, TypeOK
    <3>2. /\ Stage' = [Stage EXCEPT ![t] = "enqDone"] /\ Stage[t] = "enq"
          /\ Val' = Val /\ Val[t] = item[t]
      BY <3>1, StageStep DEF Stage, Val
    <3>3. /\ item[t] \in Nodes /\ ~Has(chain, item[t]) /\ Has(chain, head)
          /\ chain \in Seq(Nodes) /\ NoRepeat(chain)
      BY <2>2 DEF IInv, TypeOK, LocalsSet, Fresh, Shape, Before, Has
    <3>4. Queue' = Append(Queue, item[t])
      BY <2>2, <3>1, <3>3, RestAppend DEF Queue
    <3>5. Fifo!CommitEnqueue(t)
      BY <3>2, <3>4, QueueIs, QueueIsNext DEF Fifo!CommitEnqueue, Fifo!Pass, Stage, Val, ValOf
    <3> QED
      BY <3>5 DEF Fifo!Next
  <2> QED
    BY <1>3, <2>1, <2>2 DEF EnqLink
<1>4. CASE EnqSwing(t)
  <2>1. /\ StageOf(t) = "enqDone" /\ StageOf(t)' = "idle" /\ ValOf(t)' = Null
        /\ Alone(t) /\ UNCHANGED <<chain, head>>
    BY <1>4 DEF EnqSwing, Return, DropLocals, StageOf, ValOf, Alone, IInv, TypeOK
  <2>2. Stage' = [Stage EXCEPT ![t] = "idle"] /\ Stage[t] = "enqDone" /\ Val' = [Val EXCEPT ![t] = Null]
    BY <2>1, StageStep DEF Stage
  <2>3. Queue' = Queue
    BY <2>1 DEF Queue
  <2>4. Fifo!ReturnEnqueue(t)
    BY <2>2, <2>3, QueueIs, QueueIsNext DEF Fifo!ReturnEnqueue, Fifo!Pass, Stage, Val, ValOf
  <2> QED
    BY <2>4 DEF Fifo!Next
<1> QED
  BY <1>1, <1>2, <1>3, <1>4 DEF Enqueue

\* When DeqReadNext reads a null next, head_ is still where DeqReadHead saw it,
\* and it is the last node.
LEMMA EmptySeen ==
  ASSUME IInv, NEW t \in Threads, pc[t] = "deqNext", next[lhead[t]] = Null
  PROVE  Queue = <<>>
<1>1. lhead[t] \in Nodes /\ Before(chain, lhead[t], head) /\ next[lhead[t]] = Null
  BY DEF IInv, TypeOK, LocalsSet, LocalsLinked, Shape
<1>2. /\ chain \in Seq(Nodes) /\ Null \notin Nodes /\ NoRepeat(chain)
      /\ Spells(chain, next, Null)
  BY NodeAssumption DEF IInv, TypeOK, Shape
<1>3. lhead[t] = head /\ chain # <<>> /\ lhead[t] = chain[Len(chain)]
  BY ONLY <1>1, <1>2, LinkAtEnd
<1> QED
  BY <1>2, <1>3, RestLast DEF Queue

\* The dequeue takes effect when its compare-and-swap moves head_; one that
\* returns false, when it read a null next, unless the test of head_ that
\* follows sends it round again.
LEMMA FifoDequeue ==
  ASSUME IInv, IInv', NEW t \in Threads, Dequeue(t)
  PROVE  Fifo!Next \/ UNCHANGED Fifo!vars
<1>1. CASE DeqReadHead(t) \/ DeqReadTail(t)
  BY <1>1, Silent DEF DeqReadHead, DeqReadTail, list, StageOf, ValOf, Alone, IInv, TypeOK
<1>2. CASE DeqReadNext(t)
  <2>1. /\ pc[t] = "deqNext" /\ pc'[t] = "deqCheck" /\ StageOf(t) = "deq" /\ ValOf(t) = Null
        /\ Alone(t) /\ UNCHANGED <<chain, head>>
    BY <1>2 DEF DeqReadNext, list, StageOf, ValOf, Alone, IInv, TypeOK
  <2>2. CASE StageOf(t)' = "deq"
    BY <2>1, <2>2, Silent DEF ValOf
  <2>3. CASE StageOf(t)' = "deqEmpty"
    <3>1. next[lhead[t]] = Null
      BY <1>2, <2>1, <2>3 DEF DeqReadNext, StageOf, IInv, TypeOK
    <3>2. Queue = <<>> /\ Queue' = Queue
      <4>1. Queue = <<>>
        BY <2>1, <3>1, EmptySeen
      <4> QED
        BY <2>1, <4>1 DEF Queue
    <3>3. Stage' = [Stage EXCEPT ![t] = "deqEmpty"] /\ Stage[t] = "deq" /\ Val' = Val
      BY <2>1, <2>3, StageStep DEF Stage, Val, ValOf
    <3>4. Fifo!ObserveEmpty(t)
      BY <3>2, <3>3, QueueIs, QueueIsNext DEF Fifo!ObserveEmpty, Fifo!Pass, Stage, Val, ValOf
    <3> QED
      BY <3>4 DEF Fifo!Next
  <2> QED
    BY <2>1, <2>2, <2>3 DEF StageOf
<1>3. CASE DeqCheck(t)
  <2>1. /\ pc[t] = "deqCheck" /\ ValOf(t) = Null /\ ValOf(t)' = Null /\ StageOf(t)' = "deq"
        /\ Alone(t) /\ UNCHANGED <<chain, head>>
    BY <1>3 DEF DeqCheck, Again, DropLocals, list, locals, StageOf, ValOf, Alone, IInv, TypeOK
  <2>2. CASE StageOf(t) = "deq"
    BY <2>1, <2>2, Silent
  <2>3. CASE StageOf(t) = "deqEmpty"
    <3>1. Stage' = [Stage EXCEPT ![t] = "deq"] /\ Stage[t] = "deqEmpty" /\ Val' = Val
      BY <2>1, <2>3, StageStep DEF Stage, Val
    <3>2. Queue' = Queue
      BY <2>1 DEF Queue
    <3>3. Fifo!Retry(t)
      BY <3>1, <3>2, QueueIs, QueueIsNext DEF Fifo!Retry, Fifo!Pass, Stage, Val, ValOf
    <3> QED
      BY <3>3 DEF Fifo!Next
  <2> QED
    BY <2>1, <2>2, <2>3 DEF StageOf
<1>4. CASE DeqReturnEmpty(t)
  <2>1. /\ StageOf(t) = "deqEmpty" /\ StageOf(t)' = "idle" /\ ValOf(t) = Null /\ ValOf(t)' = Null
        /\ Alone(t) /\ UNCHANGED <<chain, head>>
    BY <1>4 DEF DeqReturnEmpty, Return, DropLocals, list, StageOf, ValOf, Alone, IInv, TypeOK
  <2>2. Stage' = [Stage EXCEPT ![t] = "idle"] /\ Stage[t] = "deqEmpty" /\ Val' = Val
    BY <2>1, StageStep DEF Stage, Val
  <2>3. Queue' = Queue
    BY <2>1 DEF Queue
  <2>4. Fifo!ReturnEmpty(t)
    BY <2>2, <2>3, QueueIs, QueueIsNext DEF Fifo!ReturnEmpty, Fifo!Pass, Stage, Val, ValOf
  <2> QED
    BY <2>4 DEF Fifo!Next
<1>5. CASE DeqHelp(t)
  BY <1>5, Silent DEF DeqHelp, Again, DropLocals, StageOf, ValOf, Alone, IInv, TypeOK
<1>6. CASE DeqSwing(t)
  <2>1. CASE Again(t, "deqSwing", "deqHead") /\ UNCHANGED head
    BY <1>6, <2>1, Silent DEF DeqSwing, Again, DropLocals, StageOf, ValOf, Alone, IInv, TypeOK
  <2>2. CASE /\ head = lhead[t] /\ Goto(t, "deqSwing", "retLoad")
             /\ head' = lnext[t] /\ UNCHANGED <<lhead, ltail, lnext, lold>>
             /\ item' = [item EXCEPT ![t] = lnext[t]]
    <3> DEFINE n == lnext[t]
    <3>1. /\ StageOf(t) = "deq" /\ StageOf(t)' = "deqDone" /\ ValOf(t)' = n
          /\ Alone(t) /\ chain' = chain
      BY <1>6, <2>2 DEF DeqSwing, StageOf, ValOf, Alone, IInv, TypeOK
    <3>2. /\ Stage' = [Stage EXCEPT ![t] = "deqDone"] /\ Stage[t] = "deq"
          /\ Val' = [Val EXCEPT ![t] = n]
      BY <3>1, StageStep DEF Stage
    <3>3. /\ chain \in Seq(Nodes) /\ NoRepeat(chain) /\ n # Null
          /\ Follows(chain, head, n)
      BY <2>2 DEF IInv, TypeOK, LocalsSet, Shape, NextKept
    <3>4. Queue # <<>> /\ Head(Queue) = n /\ Queue' = Tail(Queue)
      BY <2>2, <3>1, <3>3, RestFollows DEF Queue
    <3>5. Fifo!CommitDequeue(t)
      BY <3>2, <3>4, QueueIs, QueueIsNext DEF Fifo!CommitDequeue, Fifo!Pass, Stage, Val, ValOf
    <3> QED
      BY <3>5 DEF Fifo!Next
  <2> QED
    BY <1>6, <2>1, <2>2 DEF DeqSwing
<1>7. CASE RetireLoad(t)
  BY <1>7, Silent DEF RetireLoad, list, StageOf, ValOf, Alone, IInv, TypeOK
<1>8. CASE RetirePush(t)
  <2>1. CASE Goto(t, "retPush", "retPush") /\ UNCHANGED <<item, lnext>>
    BY <1>8, <2>1, Silent DEF RetirePush, list, StageOf, ValOf, Alone, IInv, TypeOK
  <2>2. CASE Return(t, "retPush")
    <3>1. /\ StageOf(t) = "deqDone" /\ StageOf(t)' = "idle" /\ ValOf(t)' = Null
          /\ Alone(t) /\ UNCHANGED <<chain, head>>
      BY <1>8, <2>2 DEF RetirePush, Return, DropLocals, list, StageOf, ValOf, Alone, IInv, TypeOK
    <3>2. /\ Stage' = [Stage EXCEPT ![t] = "idle"] /\ Stage[t] = "deqDone"
          /\ Val' = [Val EXCEPT ![t] = Null]
      BY <3>1, StageStep DEF Stage
    <3>3. Queue' = Queue
      BY <3>1 DEF Queue
    <3>4. Fifo!ReturnDequeue(t)
      BY <3>2, <3>3, QueueIs, QueueIsNext DEF Fifo!ReturnDequeue, Fifo!Pass, Stage, Val, ValOf
    <3> QED
      BY <3>4 DEF Fifo!Next
  <2> QED
    BY <1>8, <2>1, <2>2 DEF RetirePush
<1> QED
  BY <1>1, <1>2, <1>3, <1>4, <1>5, <1>6, <1>7, <1>8 DEF Dequeue

LEMMA FifoInit == Init => Fifo!Init
<1> SUFFICES ASSUME Init PROVE Fifo!Init
  OBVIOUS
<1>1. Queue = <<>>
  <2>1. /\ chain \in Seq(Nodes) /\ NoRepeat(chain) /\ chain # <<>>
        /\ head = chain[Len(chain)]
    BY IInvInit DEF Init, IInv, TypeOK, Shape
  <2> QED
    BY <2>1, RestLast DEF Queue
<1>2. Stage = [t \in Threads |-> "idle"] /\ Val = [t \in Threads |-> Null]
  BY DEF Init, Stage, StageOf, Val, ValOf
<1> QED
  BY <1>1, <1>2, QueueIs DEF Fifo!Init, Stage, Val, ValOf

LEMMA FifoNext == IInv /\ IInv' /\ [Next]_vars => [Fifo!Next]_(Fifo!vars)
<1> SUFFICES ASSUME IInv, IInv', [Next]_vars PROVE Fifo!Next \/ UNCHANGED Fifo!vars
  OBVIOUS
<1>1. CASE Destroy \/ DeleteChain \/ DeleteRetired \/ UNCHANGED vars
  <2>1. UNCHANGED <<chain, head, pc, item, lnext>>
    BY <1>1 DEF Destroy, DeleteChain, DeleteRetired, vars, list, locals
  <2>2. Queue' = Queue /\ Stage' = Stage /\ Val' = Val
    BY <2>1 DEF Queue, Stage, StageOf, Val, ValOf
  <2> QED
    BY <2>2, QueueIs, QueueIsNext DEF Fifo!vars, Stage, Val, ValOf
<1> QED
  BY <1>1, FifoCall, FifoEnqueue, FifoDequeue DEF Next, Gone

\* ValoisQueue implements FifoQueue: every call takes effect at one instant
\* between its call and its return, in FIFO order, and a dequeue that returns
\* false saw the queue empty.
THEOREM IsLinearizable == Spec => Linearizable
<1>1. Spec => []IInv
  BY IInvInit, IInvNext, PTL DEF Spec
<1> QED
  BY <1>1, IInvNext, FifoInit, FifoNext, PTL DEF Spec, Linearizable, Fifo!Spec

----------------------------------------------------------------------------
(* Memory safety: every node has one place.  A node is not yet linked (it  *)
(* belongs to no call, or to an enqueue), or it is on the list from head_  *)
(* on, or behind head_; a node behind head_ is held by the one dequeue     *)
(* that is about to retire it, or is on the retired list, once.            *)

Holds(t) == pc[t] \in {"retLoad", "retPush"}
Behind(n) == Has(chain, n) /\ ~Before(chain, head, n)

\* r holds the nodes of the retired list, the one retired last at its end.
RetiredList(r) ==
  /\ NoRepeat(r) /\ SpellsBack(r, retiredNext, Null) /\ retired = Top(r, Null)
  /\ \A n : Has(r, n) => Behind(n)
  /\ \A n : Behind(n) => Has(r, n) \/ \E t \in Threads : Holds(t) /\ lhead[t] = n

HeldOnce(r) ==
  \A t \in Threads : Holds(t) =>
    /\ Behind(lhead[t]) /\ ~Has(r, lhead[t])
    /\ \A u \in Threads \ {t} : Holds(u) => lhead[u] # lhead[t]

\* What is freed at each stage of the destructor, and where its cursor is.
Freed(r) ==
  /\ dtor # "live" => \A t \in Threads : pc[t] = "idle"
  /\ dtor = "live" => freed = {} /\ cursor = Null
  /\ dtor = "chain" =>
       /\ cursor # Null => Before(chain, head, cursor)
       /\ \A n : n \in freed <=>
                   Before(chain, head, n) /\ (cursor # Null => ~Before(chain, cursor, n))
  /\ dtor = "retired" =>
       /\ cursor # Null => Has(r, cursor)
       /\ \A n : n \in freed <=> \/ Before(chain, head, n)
                                 \/ Has(r, n) /\ (cursor # Null => ~Before(r, n, cursor))
  /\ dtor = "gone" => cursor = Null /\ \A n : n \in freed <=> Has(chain, n)

Allocated ==
  \A n \in Nodes :
    Has(chain, n) \/ n \in unsent \/ \E t \in Threads : pc[t] \in EnqueuePcs /\ item[t] = n

\* The inductive invariant, with IInv.
Retirement == \E r \in Seq(Nodes) : RetiredList(r) /\ HeldOnce(r) /\ Freed(r)

LEMMA AllocatedInit == Init => Allocated
BY DEF Init, Allocated, Has

LEMMA RetirementInit == Init => Retirement
<1> SUFFICES ASSUME Init PROVE Retirement
  OBVIOUS
<1> DEFINE r == <<>>
<1>1. r \in Seq(Nodes) /\ Len(r) = 0 /\ \A n : ~Has(r, n)
  BY DEF Has
<1>2. ASSUME NEW n PROVE ~Behind(n)
  BY DEF Behind, Init, Has, Before
<1>3. RetiredList(r)
  BY <1>1, <1>2 DEF RetiredList, NoRepeat, SpellsBack, Top, Init
<1>4. HeldOnce(r) /\ Freed(r)
  BY <1>1 DEF HeldOnce, Holds, Freed, Init
<1> QED
  BY <1>1, <1>3, <1>4 DEF Retirement

\* A node that is on the list stays on it, and the node of a call that
\* allocates or links one has its place.
LEMMA AllocatedNext == IInv /\ Allocated /\ [Next]_vars => Allocated'
<1> SUFFICES ASSUME IInv, Allocated, [Next]_vars PROVE Allocated'
  OBVIOUS
<1> USE DEF list, locals, life
<1>1. ASSUME UNCHANGED <<chain, unsent>>,
             \A u \in Threads : pc[u] \in EnqueuePcs =>
                                  pc'[u] \in EnqueuePcs /\ item'[u] = item[u]
      PROVE  Allocated'
  BY <1>1 DEF Allocated
<1>2. ASSUME NEW t \in Threads, Call(t) PROVE Allocated'
  <2>1. CASE CallDequeue(t)
    BY <1>1, <2>1 DEF CallDequeue, IInv, TypeOK
  <2>2. ASSUME NEW x \in Items, CallEnqueue(t, x) PROVE Allocated'
    <3>1. /\ pc[t] = "idle" /\ pc'[t] \in EnqueuePcs /\ item'[t] = x
          /\ \A u \in Threads \ {t} : pc'[u] = pc[u] /\ item'[u] = item[u]
          /\ unsent' = unsent \ {x} /\ chain' = chain
      BY <2>2 DEF CallEnqueue, IInv, TypeOK
    <3> QED
      BY <3>1 DEF Allocated
  <2> QED
    BY <1>2, <2>1, <2>2 DEF Call
<1>3. ASSUME NEW t \in Threads, Enqueue(t), ~EnqLink(t) PROVE Allocated'
  BY <1>1, <1>3 DEF Enqueue, EnqReadTail, EnqReadNext, EnqCheck, EnqSwing, EnqHelp,
                    Again, Return, IInv, TypeOK
<1>4. ASSUME NEW t \in Threads, EnqLink(t) PROVE Allocated'
  <2>1. CASE Again(t, "enqLink", "enqTail") /\ UNCHANGED <<next, chain>>
    BY <1>1, <1>4, <2>1 DEF EnqLink, Again, IInv, TypeOK
  <2>2. CASE Goto(t, "enqLink", "enqSwing") /\ UNCHANGED locals /\ chain' = Append(chain, item[t])
    <3>1. item[t] \in Nodes /\ chain \in Seq(Nodes)
      BY <2>2 DEF IInv, TypeOK, LocalsSet
    <3>2. \A n : Has(chain', n) <=> Has(chain, n) \/ n = item[t]
      BY <2>2, <3>1, AppendKeeps
    <3>3. unsent' = unsent /\ \A u \in Threads \ {t} : pc'[u] = pc[u] /\ item'[u] = item[u]
      BY <1>4, <2>2 DEF EnqLink, IInv, TypeOK
    <3> QED
      BY <3>2, <3>3 DEF Allocated
  <2> QED
    BY <1>4, <2>1, <2>2 DEF EnqLink
<1>5. ASSUME NEW t \in Threads, Dequeue(t) PROVE Allocated'
  BY <1>1, <1>5 DEF Dequeue, DeqReadHead, DeqReadTail, DeqReadNext, DeqReturnEmpty, DeqCheck,
                    DeqHelp, DeqSwing, RetireLoad, RetirePush, Again, Return, IInv, TypeOK
<1>6. CASE Destroy \/ DeleteChain \/ DeleteRetired \/ UNCHANGED vars
  BY <1>1, <1>6 DEF Destroy, DeleteChain, DeleteRetired, vars
<1> QED
  BY <1>2, <1>3, <1>4, <1>5, <1>6 DEF Next, Gone

\* A step that neither moves head_ nor touches the retired list, the list or
\* the node of a dequeue that has one to retire.
LEMMA RetirementKept ==
  ASSUME Retirement, UNCHANGED <<chain, head, retirement, dtor, cursor, freed>>,
         \A t \in Threads : /\ Holds(t)' <=> Holds(t)
                            /\ Holds(t) => lhead'[t] = lhead[t],
         dtor # "live" => UNCHANGED pc
  PROVE  Retirement'
<1>1. PICK r \in Seq(Nodes) : RetiredList(r) /\ HeldOnce(r) /\ Freed(r)
  BY DEF Retirement
<1>2. \A n : Behind(n)' <=> Behind(n)
  BY DEF Behind
<1>3. RetiredList(r)'
  BY <1>1, <1>2 DEF RetiredList, retirement
<1>4. HeldOnce(r)'
  BY <1>1, <1>2 DEF HeldOnce
<1>5. Freed(r)'
  BY <1>1 DEF Freed
<1> QED
  BY <1>3, <1>4, <1>5 DEF Retirement

\* Linking a node puts it in front of head_, not behind it.
LEMMA RetirementLink ==
  ASSUME IInv, IInv', Retirement, NEW t \in Threads, EnqLink(t)
  PROVE  Retirement'
<1>1. CASE Again(t, "enqLink", "enqTail") /\ UNCHANGED <<next, chain>>
  BY <1>1, RetirementKept
  DEF EnqLink, Again, DropLocals, Holds, IInv, TypeOK, life, Retirement, Freed
<1>2. CASE Goto(t, "enqLink", "enqSwing") /\ UNCHANGED locals /\ chain' = Append(chain, item[t])
  <2>1. /\ item[t] \in Nodes /\ ~Has(chain, item[t]) /\ Has(chain, head)
        /\ chain \in Seq(Nodes)
    BY <1>2 DEF IInv, TypeOK, LocalsSet, Shape, Fresh, Before, Has
  <2>2. /\ UNCHANGED <<head, retired, retiredNext, dtor, cursor, freed, lhead>>
        /\ pc[t] # "idle" /\ \A u \in Threads : Holds(u)' <=> Holds(u)
    BY <1>2 DEF EnqLink, retirement, life, locals, Holds, IInv, TypeOK
  <2>3. ASSUME NEW n PROVE Behind(n)' <=> Behind(n)
    <3>1. Has(chain', n) <=> Has(chain, n) \/ n = item[t]
      BY <1>2, <2>1, AppendKeeps
    <3>2. Before(chain', head, n) <=> Before(chain, head, n) \/ n = item[t]
      BY <1>2, <2>1, AppendOrder
    <3> QED
      BY <2>1, <2>2, <3>1, <3>2 DEF Behind
  <2>4. PICK r \in Seq(Nodes) : RetiredList(r) /\ HeldOnce(r) /\ Freed(r)
    BY DEF Retirement
  <2>5. RetiredList(r)' /\ HeldOnce(r)'
    BY <2>2, <2>3, <2>4 DEF RetiredList, HeldOnce
  <2>6. Freed(r)'
    <3>1. dtor = "live"
      BY <2>2, <2>4 DEF Freed
    <3> QED
      BY <2>2, <2>4, <3>1 DEF Freed
  <2> QED
    BY <2>5, <2>6 DEF Retirement
<1> QED
  BY <1>1, <1>2 DEF EnqLink

\* Swinging head_ leaves one more node behind it, which this dequeue holds.
LEMMA RetirementSwing ==
  ASSUME IInv, IInv', Retirement, NEW t \in Threads, DeqSwing(t)
  PROVE  Retirement'
<1>1. CASE Again(t, "deqSwing", "deqHead") /\ UNCHANGED head
  BY <1>1, RetirementKept
  DEF DeqSwing, Again, DropLocals, Holds, IInv, TypeOK, life, Retirement, Freed
<1>2. CASE /\ head = lhead[t] /\ Goto(t, "deqSwing", "retLoad") /\ head' = lnext[t]
           /\ UNCHANGED <<lhead, ltail, lnext, lold>>
  <2>1. /\ chain \in Seq(Nodes) /\ NoRepeat(chain) /\ Follows(chain, head, lnext[t])
    BY <1>2 DEF IInv, TypeOK, LocalsSet, Shape, NextKept
  <2>2. /\ UNCHANGED <<chain, retired, retiredNext, dtor, cursor, freed, lhead>>
        /\ pc[t] # "idle" /\ ~Holds(t) /\ Holds(t)' /\ lhead[t] = head
        /\ \A u \in Threads \ {t} : Holds(u)' <=> Holds(u)
    BY <1>2 DEF DeqSwing, retirement, life, Holds, IInv, TypeOK
  <2>3. Has(chain, head) /\ Before(chain, head, head)
    BY DEF IInv, Shape, Before, Has
  <2>4. ASSUME NEW n PROVE Behind(n)' <=> Behind(n) \/ n = head
    BY <1>2, <2>1, <2>2, <2>3, FollowsOrder DEF Behind
  <2>5. PICK r \in Seq(Nodes) : RetiredList(r) /\ HeldOnce(r) /\ Freed(r)
    BY DEF Retirement
  <2>6. ~Has(r, head) /\ \A u \in Threads : Holds(u) => lhead[u] # head
    BY <2>3, <2>5 DEF RetiredList, HeldOnce, Behind
  <2>7. RetiredList(r)'
    BY <2>2, <2>4, <2>5 DEF RetiredList
  <2>8. HeldOnce(r)'
    BY <2>2, <2>4, <2>5, <2>6 DEF HeldOnce
  <2>9. Freed(r)'
    <3>1. dtor = "live"
      BY <2>2, <2>5 DEF Freed
    <3> QED
      BY <2>2, <2>5, <3>1 DEF Freed
  <2> QED
    BY <2>7, <2>8, <2>9 DEF Retirement
<1> QED
  BY <1>1, <1>2 DEF DeqSwing

\* The push moves the node from the dequeue that holds it to the retired list;
\* a push that fails only writes to a node that is not shared yet.
LEMMA RetirementPush ==
  ASSUME IInv, IInv', Retirement, NEW t \in Threads, RetirePush(t)
  PROVE  Retirement'
<1> DEFINE x == lhead[t]
<1>1. PICK r \in Seq(Nodes) : RetiredList(r) /\ HeldOnce(r) /\ Freed(r)
  BY DEF Retirement
<1>2. /\ UNCHANGED <<chain, head, dtor, cursor, freed>> /\ pc[t] = "retPush" /\ Holds(t)
      /\ retiredNext' = [retiredNext EXCEPT ![x] = lold[t]]
      /\ \A u \in Threads \ {t} : (Holds(u)' <=> Holds(u)) /\ lhead'[u] = lhead[u]
  BY DEF RetirePush, Return, DropLocals, list, life, Holds, IInv, TypeOK
<1>3. /\ x \in Nodes /\ Behind(x) /\ ~Has(r, x)
      /\ \A u \in Threads \ {t} : Holds(u) => lhead[u] # x
      /\ retiredNext \in [Nodes -> Nodes \union {Null}] /\ Null \notin Nodes
  BY <1>1, <1>2, NodeAssumption DEF HeldOnce, Behind, Has, IInv, TypeOK, LocalsSet
<1>4. \A n : Behind(n)' <=> Behind(n)
  BY <1>2 DEF Behind
<1>5. dtor = "live"
  BY <1>1, <1>2 DEF Freed
<1>6. CASE Return(t, "retPush") /\ retired = lold[t] /\ retired' = x
  <2>0. PICK q \in Seq(Nodes) : q = Append(r, x)
    BY <1>3, AppendType
  <2>1. \A n : Has(q, n) <=> Has(r, n) \/ n = x
    BY <1>3, <2>0, AppendKeeps
  <2>2. NoRepeat(q) /\ SpellsBack(q, retiredNext', Null) /\ retired' = Top(q, Null)
    <3>1. NoRepeat(r) /\ SpellsBack(r, retiredNext, Null) /\ lold[t] = Top(r, Null)
      BY <1>1, <1>6 DEF RetiredList
    <3>2. /\ retiredNext' = [retiredNext EXCEPT ![x] = Top(r, Null)]
          /\ x \in Nodes /\ ~Has(r, x) /\ retiredNext \in [Nodes -> Nodes \union {Null}]
      BY <1>2, <1>3, <3>1
    <3> HIDE DEF x, Nodes
    <3>3. SpellsBack(Append(r, x), retiredNext', Null)
      BY ONLY <3>1, <3>2, PutOnTop
    <3>4. NoRepeat(Append(r, x))
      BY ONLY <3>1, <3>2, PutOnTop
    <3>5. Top(Append(r, x), Null) = x
      BY ONLY <3>1, <3>2, PutOnTop
    <3> QED
      BY <1>6, <2>0, <3>3, <3>4, <3>5
  <2>3. ~Holds(t)'
    BY <1>6 DEF Return, Holds, IInv, TypeOK
  <2>4. RetiredList(q)'
    BY <1>1, <1>2, <1>3, <1>4, <2>1, <2>2 DEF RetiredList
  <2>5. HeldOnce(q)'
    BY <1>1, <1>2, <1>3, <1>4, <2>1, <2>3 DEF HeldOnce
  <2>6. Freed(q)'
    BY <1>1, <1>2, <1>5 DEF Freed
  <2> QED
    BY <2>4, <2>5, <2>6 DEF Retirement
<1>7. CASE Goto(t, "retPush", "retPush") /\ UNCHANGED <<retired, lhead>>
  <2>1. Holds(t)'
    BY <1>7 DEF Holds, IInv, TypeOK
  <2>2. SpellsBack(r, retiredNext', Null)
    BY <1>1, <1>2, <1>3 DEF RetiredList, SpellsBack, Has
  <2>3. RetiredList(r)'
    BY <1>1, <1>2, <1>4, <1>7, <2>1, <2>2 DEF RetiredList
  <2>4. HeldOnce(r)'
    BY <1>1, <1>2, <1>4, <1>7, <2>1 DEF HeldOnce
  <2>5. Freed(r)'
    BY <1>1, <1>2, <1>5 DEF Freed
  <2> QED
    BY <2>3, <2>4, <2>5 DEF Retirement
<1> QED
  BY <1>6, <1>7 DEF RetirePush

\* The destructor frees the list from head_ on, then the retired list, each
\* node as its cursor leaves it.
LEMMA RetirementDestructor ==
  ASSUME IInv, Retirement, Destroy \/ DeleteChain \/ DeleteRetired
  PROVE  Retirement'
<1>1. PICK r \in Seq(Nodes) : RetiredList(r) /\ HeldOnce(r) /\ Freed(r)
  BY DEF Retirement
<1>2. UNCHANGED <<chain, head, next, retired, retiredNext, pc, lhead, unsent>>
  BY DEF Destroy, DeleteChain, DeleteRetired, list, retirement, locals, life
<1>3. \A n : Behind(n)' <=> Behind(n)
  BY <1>2 DEF Behind
<1>4. RetiredList(r)' /\ HeldOnce(r)'
  BY <1>1, <1>2, <1>3 DEF RetiredList, HeldOnce, Holds
<1>5. \A t \in Threads : pc[t] = "idle"
  BY <1>1 DEF Destroy, DeleteChain, DeleteRetired, Freed
<1>6. /\ chain \in Seq(Nodes) /\ NoRepeat(chain) /\ Spells(chain, next, Null)
      /\ Before(chain, head, head) /\ Null \notin Nodes /\ head \in Nodes
  BY NodeAssumption DEF IInv, TypeOK, Shape, Before
<1>7. /\ NoRepeat(r) /\ SpellsBack(r, retiredNext, Null) /\ retired = Top(r, Null)
      /\ \A n : Has(r, n) => Behind(n)
      /\ \A n : Behind(n) => Has(r, n)
  BY <1>1, <1>5 DEF RetiredList, Holds
<1>8. CASE Destroy
  <2>1. dtor' = "chain" /\ cursor' = head /\ freed' = freed /\ freed = {}
    BY <1>1, <1>8 DEF Destroy, Freed
  <2> QED
    BY <1>2, <1>4, <1>5, <1>6, <2>1 DEF Freed, Retirement
<1>9. CASE DeleteChain /\ cursor # Null
  <2>1. /\ dtor = "chain" /\ dtor' = dtor /\ freed' = freed \union {cursor}
        /\ cursor' = next[cursor] /\ Before(chain, head, cursor)
        /\ \A n : n \in freed <=> Before(chain, head, n) /\ ~Before(chain, cursor, n)
    BY <1>1, <1>9 DEF DeleteChain, Freed
  <2>2. CASE next[cursor] = Null
    <3>1. \A n : Before(chain, cursor, n) => n = cursor
      BY <1>6, <2>2, LinkAtEnd
    <3> QED
      BY <1>2, <1>4, <1>5, <2>1, <2>2, <3>1 DEF Freed, Retirement
  <2>3. CASE next[cursor] # Null
    <3>1. Before(chain, cursor, cursor)
      BY <2>1 DEF Before
    <3>2. Follows(chain, cursor, next[cursor])
      BY <1>6, <2>3, <3>1, ReadNext
    <3>3. \A n : Before(chain, cursor', n) <=> Before(chain, cursor, n) /\ n # cursor
      BY <1>6, <2>1, <3>2, FollowsOrder
    <3>4. Before(chain, head, cursor')
      BY <1>6, <2>1, <3>2, BeforeFollows
    <3> QED
      BY <1>2, <1>4, <1>5, <2>1, <2>3, <3>1, <3>3, <3>4 DEF Freed, Retirement
  <2> QED
    BY <2>2, <2>3
<1>10. CASE DeleteChain /\ cursor = Null
  <2>1. /\ dtor = "chain" /\ dtor' = "retired" /\ freed' = freed /\ cursor' = Top(r, Null)
        /\ \A n : n \in freed <=> Before(chain, head, n)
    BY <1>1, <1>7, <1>10 DEF DeleteChain, Freed
  <2>2. cursor' # Null => Has(r, cursor') /\ \A n : Has(r, n) => Before(r, n, cursor')
    <3>1. CASE r = <<>>
      BY <2>1, <3>1 DEF Top
    <3>2. CASE r # <<>>
      <4>1. Len(r) \in 1..Len(r) /\ cursor' = r[Len(r)]
        BY <2>1, <3>2 DEF Top
      <4> QED
        BY <4>1 DEF Has, Before
    <3> QED
      BY <3>1, <3>2
  <2>3. cursor' = Null => \A n : ~Has(r, n)
    <3>1. r # <<>> => Len(r) \in 1..Len(r) /\ r[Len(r)] \in Nodes
      OBVIOUS
    <3> QED
      BY <1>6, <2>1, <3>1 DEF Top, Has
  <2> QED
    BY <1>2, <1>4, <1>5, <2>1, <2>2, <2>3 DEF Freed, Retirement
<1>11. CASE DeleteRetired /\ cursor # Null
  <2>1. /\ dtor = "retired" /\ dtor' = dtor /\ freed' = freed \union {cursor}
        /\ cursor' = retiredNext[cursor] /\ Has(r, cursor)
        /\ \A n : n \in freed <=> Before(chain, head, n) \/ (Has(r, n) /\ ~Before(r, n, cursor))
    BY <1>1, <1>11 DEF DeleteRetired, Freed
  <2>2. Before(r, cursor, cursor)
    BY <2>1 DEF Has, Before
  <2>3. CASE retiredNext[cursor] = Null
    <3>1. \A n : Before(r, n, cursor) => n = cursor
      BY <1>6, <1>7, <2>1, <2>3, ReadBack
    <3> QED
      BY <1>2, <1>4, <1>5, <2>1, <2>3, <3>1 DEF Freed, Retirement
  <2>4. CASE retiredNext[cursor] # Null
    <3>1. Follows(r, cursor', cursor)
      BY <1>6, <1>7, <2>1, <2>4, ReadBack
    <3>2. \A n : Before(r, n, cursor') <=> Before(r, n, cursor) /\ n # cursor
      BY <1>7, <3>1, FollowsOrder
    <3>3. Has(r, cursor')
      BY <3>1 DEF Follows, Has
    <3> QED
      BY <1>2, <1>4, <1>5, <2>1, <2>2, <2>4, <3>2, <3>3 DEF Freed, Retirement
  <2> QED
    BY <2>3, <2>4
<1>12. CASE DeleteRetired /\ cursor = Null
  <2>1. /\ dtor' = "gone" /\ freed' = freed /\ cursor' = Null
        /\ \A n : n \in freed <=> Before(chain, head, n) \/ Has(r, n)
    BY <1>1, <1>12 DEF DeleteRetired, Freed
  <2>2. \A n : Before(chain, head, n) => Has(chain, n)
    BY DEF Before, Has
  <2>3. \A n : n \in freed <=> Has(chain, n)
    BY <1>7, <2>1, <2>2 DEF Behind
  <2> QED
    BY <1>2, <1>4, <1>5, <2>1, <2>3 DEF Freed, Retirement
<1> QED
  BY <1>8, <1>9, <1>10, <1>11, <1>12 DEF DeleteChain, DeleteRetired

LEMMA RetirementNext == IInv /\ IInv' /\ Retirement /\ [Next]_vars => Retirement'
<1> SUFFICES ASSUME IInv, IInv', Retirement, [Next]_vars PROVE Retirement'
  OBVIOUS
<1> USE DEF list, locals, life, Holds
<1>1. ASSUME NEW t \in Threads, pc[t] # "idle" PROVE dtor = "live"
  BY <1>1 DEF Retirement, Freed
<1>2. ASSUME NEW t \in Threads, Call(t) PROVE Retirement'
  BY <1>2, RetirementKept DEF Call, CallDequeue, CallEnqueue, IInv, TypeOK
<1>3. ASSUME NEW t \in Threads, Enqueue(t) PROVE Retirement'
  <2>1. CASE EnqLink(t)
    BY <2>1, RetirementLink
  <2>2. CASE ~EnqLink(t)
    <3>1. dtor = "live"
      BY <1>1, <1>3 DEF Enqueue, EnqReadTail, EnqReadNext, EnqCheck, EnqLink, EnqSwing,
                        EnqHelp, Again, Return
    <3> QED
      BY <1>3, <2>2, <3>1, RetirementKept
      DEF Enqueue, EnqReadTail, EnqReadNext, EnqCheck, EnqSwing, EnqHelp, Again, Return,
          DropLocals, IInv, TypeOK
  <2> QED
    BY <2>1, <2>2
<1>4. ASSUME NEW t \in Threads, Dequeue(t) PROVE Retirement'
  <2>1. CASE DeqSwing(t) \/ RetirePush(t)
    BY <2>1, RetirementSwing, RetirementPush
  <2>2. CASE ~(DeqSwing(t) \/ RetirePush(t))
    <3>1. dtor = "live"
      BY <1>1, <1>4, <2>2 DEF Dequeue, DeqReadHead, DeqReadTail, DeqReadNext, DeqReturnEmpty,
                              DeqCheck, DeqHelp, RetireLoad, Again, Return
    <3> QED
      BY <1>4, <2>2, <3>1, RetirementKept
      DEF Dequeue, DeqReadHead, DeqReadTail, DeqReadNext, DeqReturnEmpty, DeqCheck, DeqHelp,
          RetireLoad, Again, Return, DropLocals, IInv, TypeOK
  <2> QED
    BY <2>1, <2>2
<1>5. CASE UNCHANGED vars
  BY <1>5, RetirementKept DEF vars
<1> QED
  BY <1>2, <1>3, <1>4, <1>5, RetirementDestructor DEF Next, Gone

\* No call follows a null or a freed pointer.  The destructor frees no node
\* twice, and in the end has freed every node ever allocated: the list from
\* head_ on and the retired list share no node and miss none, however the
\* pushes of retire() interleave.
THEOREM MemoryIsSafe == Spec => []MemorySafe
<1>1. IInv /\ Allocated /\ Retirement => MemorySafe
  <2> SUFFICES ASSUME IInv, Allocated, Retirement PROVE MemorySafe
    OBVIOUS
  <2>1. PICK r \in Seq(Nodes) : RetiredList(r) /\ Freed(r)
    BY DEF Retirement
  <2>2. ASSUME NEW t \in Threads PROVE Deref(t) \intersect (freed \union {Null}) = {}
    <3>1. CASE pc[t] = "idle"
      BY <3>1 DEF Deref
    <3>2. CASE pc[t] # "idle"
      <4>1. freed = {}
        BY <2>1, <3>2 DEF Freed
      <4>2. Null \notin Deref(t)
        BY DEF Deref, IInv, LocalsSet
      <4> QED
        BY <4>1, <4>2
    <3> QED
      BY <3>1, <3>2
  <2>3. cursor \notin freed
    <3>1. freed \subseteq Nodes /\ Null \notin Nodes
      BY NodeAssumption DEF IInv, TypeOK
    <3>2. CASE cursor # Null
      <4>1. dtor = "chain" => Before(chain, cursor, cursor)
        BY <2>1, <3>2 DEF Freed, Before
      <4>2. dtor = "retired" => /\ Has(r, cursor) /\ Before(r, cursor, cursor)
                                /\ ~Before(chain, head, cursor)
        BY <2>1, <3>2 DEF Freed, RetiredList, Has, Before, Behind
      <4> QED
        BY <2>1, <3>2, <4>1, <4>2 DEF Freed, IInv, TypeOK
    <3> QED
      BY <3>1, <3>2
  <2>4. ASSUME dtor = "gone" PROVE freed = Nodes \ unsent
    <3>1. \A t \in Threads : pc[t] = "idle"
      BY <2>1, <2>4 DEF Freed
    <3>2. \A n : n \in freed <=> Has(chain, n)
      BY <2>1, <2>4 DEF Freed
    <3>3. \A n \in Nodes : Has(chain, n) <=> n \notin unsent
      BY <3>1 DEF Allocated, IInv, Shape, Fresh
    <3> QED
      BY <3>2, <3>3 DEF IInv, TypeOK
  <2> QED
    BY <2>2, <2>3, <2>4 DEF MemorySafe
<1>2. Init => IInv /\ Allocated /\ Retirement
  BY IInvInit, AllocatedInit, RetirementInit
<1>3. IInv /\ Allocated /\ Retirement /\ [Next]_vars => (IInv /\ Allocated /\ Retirement)'
  BY IInvNext, AllocatedNext, RetirementNext
<1> QED
  BY <1>1, <1>2, <1>3, PTL DEF Spec

=============================================================================
