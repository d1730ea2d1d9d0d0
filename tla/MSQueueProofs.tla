---------------------------- MODULE MSQueueProofs ----------------------------
(***************************************************************************)
(* Proofs about MSQueue for any number of threads and items, and for       *)
(* counters that wrap at any value: no step of the proof looks at a count. *)
(*                                                                         *)
(* The inductive invariant says what the threads remember between their    *)
(* shared accesses: every node in a local was linked before (LocalsLinked),*)
(* a next pointer once read as not null is the successor for good, and is  *)
(* not null if Tail was seen behind Head (NextKept), and the node of an    *)
(* enqueue that has not linked it is on no list (Fresh).                   *)
(***************************************************************************)
EXTENDS MSQueue, Lists, TLAPS

----------------------------------------------------------------------------
(* Lists *)

LEMMA AppendType ==
  ASSUME NEW S, NEW s \in Seq(S), NEW x \in S
  PROVE  Append(s, x) \in Seq(S)
OBVIOUS

LEMMA BeforeTrans ==
  ASSUME NEW S, NEW c \in Seq(S), NoRepeat(c), NEW m, NEW n, NEW o,
         Before(c, m, n), Before(c, n, o)
  PROVE  Before(c, m, o)
BY DEF Before, NoRepeat

LEMMA BeforeFollows ==
  ASSUME NEW S, NEW c \in Seq(S), NoRepeat(c), NEW m, NEW n, NEW o,
         Before(c, m, n), Follows(c, n, o)
  PROVE  Before(c, m, o)
BY DEF Before, Follows, NoRepeat

LEMMA FollowsBefore ==
  ASSUME NEW S, NEW c \in Seq(S), NoRepeat(c), NEW m, NEW n, NEW o,
         Follows(c, m, n), Before(c, m, o), m # o
  PROVE  Before(c, n, o)
BY DEF Before, Follows, NoRepeat

LEMMA FollowsLastTwo ==
  ASSUME NEW S, NEW c \in Seq(S), NoRepeat(c), NEW m, NEW n,
         Follows(c, m, n), LastTwo(c, m)
  PROVE  LastTwo(c, n)
BY DEF Follows, LastTwo, NoRepeat

\* The first node comes after no other.
LEMMA FollowsNotFirst ==
  ASSUME NEW S, NEW c \in Seq(S), NoRepeat(c), NEW m, NEW n, Follows(c, m, n)
  PROVE  n \in S /\ n # c[1]
BY DEF Follows, NoRepeat

\* What is true of c stays true when x is appended to it.
LEMMA AppendKeeps ==
  ASSUME NEW S, NEW c \in Seq(S), NEW x \in S, NEW m, NEW n
  PROVE  /\ Before(c, m, n) => Before(Append(c, x), m, n)
         /\ Follows(c, m, n) => Follows(Append(c, x), m, n)
         /\ Has(Append(c, x), m) <=> Has(c, m) \/ m = x
BY DEF Before, Follows, Has

\* A pointer that was read from the list and is not null is the successor.
LEMMA ReadNext ==
  ASSUME NEW S, NEW c \in Seq(S), NEW null, NEW p, Spells(c, p, null), NEW m, NEW n,
         Before(c, m, n), p[m] # null
  PROVE  Follows(c, m, p[m])
BY DEF Before, Follows, Spells

\* A node before another whose next is null is the last one, and the other.
LEMMA LinkAtEnd ==
  ASSUME NEW S, NEW c \in Seq(S), NEW null, null \notin S, NoRepeat(c),
         NEW p, Spells(c, p, null), NEW m, NEW k, Before(c, m, k), p[m] = null
  PROVE  m = k /\ c # <<>> /\ m = c[Len(c)]
BY DEF Before, Spells, NoRepeat

\* Linking a new node x behind the last one.
LEMMA LinkLast ==
  ASSUME NEW S, NEW c \in Seq(S), c # <<>>, NoRepeat(c), NEW x \in S, ~Has(c, x),
         NEW null, NEW p \in [S -> S \union {null}], Spells(c, p, null), p[x] = null
  PROVE  /\ NoRepeat(Append(c, x))
         /\ Spells(Append(c, x), [p EXCEPT ![c[Len(c)]] = x], null)
         /\ Follows(Append(c, x), c[Len(c)], x)
         /\ LastTwo(Append(c, x), c[Len(c)])
<1> DEFINE d == Append(c, x)
<1>1. Len(d) = Len(c) + 1 /\ Len(c) >= 1 /\ Len(c) \in Nat
  OBVIOUS
<1>2. d[Len(d)] = x /\ \A i \in 1..Len(c) : d[i] = c[i] /\ c[i] \in S
  OBVIOUS
<1>3. \A i \in 1..Len(c) : c[i] # x
  BY DEF Has
<1> HIDE DEF d
<1>4. NoRepeat(d)
  BY <1>1, <1>2, <1>3 DEF NoRepeat
<1>5. Spells(d, [p EXCEPT ![c[Len(c)]] = x], null)
  BY <1>1, <1>2, <1>3 DEF Spells, NoRepeat
<1>6. Follows(d, c[Len(c)], x) /\ LastTwo(d, c[Len(c)])
  BY <1>1, <1>2 DEF Follows, LastTwo
<1> QED
  BY <1>4, <1>5, <1>6 DEF d

LEMMA SeqEqual ==
  ASSUME NEW S, NEW s \in Seq(S), NEW u \in Seq(S), Len(s) = Len(u),
         \A i \in 1..Len(s) : s[i] = u[i]
  PROVE  s = u
OBVIOUS

\* What the rest of a list keeps when its first node is taken off.
LEMMA TailKeeps ==
  ASSUME NEW S, NEW c \in Seq(S), c # <<>>
  PROVE  /\ Tail(c) \in Seq(S) /\ Len(Tail(c)) = Len(c) - 1
         /\ \A i \in 1..(Len(c) - 1) : Tail(c)[i] = c[i + 1]
OBVIOUS

LEMMA PositionOf ==
  ASSUME NEW S, NEW c \in Seq(S), NoRepeat(c), NEW i \in 1..Len(c)
  PROVE  Position(c, c[i]) = i
BY DEF Position, NoRepeat

LEMMA RestType ==
  ASSUME NEW S, NEW c \in Seq(S), NoRepeat(c), NEW i \in 1..Len(c)
  PROVE  /\ Rest(c, c[i]) \in Seq(S) /\ Len(Rest(c, c[i])) = Len(c) - i
         /\ \A j \in 1..(Len(c) - i) : Rest(c, c[i])[j] = c[i + j]
<1>1. Rest(c, c[i]) = SubSeq(c, i + 1, Len(c))
  BY PositionOf DEF Rest
<1>2. Len(c) \in Nat /\ i \in Nat /\ i >= 1 /\ i <= Len(c)
  OBVIOUS
<1> QED
  BY <1>1, <1>2

\* Nothing is behind the last element.
LEMMA RestLast ==
  ASSUME NEW S, NEW c \in Seq(S), NoRepeat(c), c # <<>>
  PROVE  Rest(c, c[Len(c)]) = <<>>
<1>1. Len(c) \in 1..Len(c)
  OBVIOUS
<1>2. Rest(c, c[Len(c)]) \in Seq(S) /\ Len(Rest(c, c[Len(c)])) = 0
  BY <1>1, RestType
<1> QED
  BY <1>2

\* What is behind an element begins with its successor.
LEMMA RestFollows ==
  ASSUME NEW S, NEW c \in Seq(S), NoRepeat(c), NEW m, NEW n, Follows(c, m, n)
  PROVE  Rest(c, m) # <<>> /\ Head(Rest(c, m)) = n /\ Tail(Rest(c, m)) = Rest(c, n)
<1>1. PICK i \in 1..(Len(c) - 1) : c[i] = m /\ c[i + 1] = n
  BY DEF Follows
<1>2. Len(c) \in Nat /\ i \in 1..Len(c) /\ i + 1 \in 1..Len(c)
  BY <1>1
<1>3. /\ Rest(c, m) \in Seq(S) /\ Len(Rest(c, m)) = Len(c) - i
      /\ \A j \in 1..(Len(c) - i) : Rest(c, m)[j] = c[i + j]
  BY <1>1, <1>2, RestType
<1>4. /\ Rest(c, n) \in Seq(S) /\ Len(Rest(c, n)) = Len(c) - (i + 1)
      /\ \A j \in 1..(Len(c) - (i + 1)) : Rest(c, n)[j] = c[(i + 1) + j]
  BY <1>1, <1>2, RestType
<1>5. Rest(c, m) # <<>> /\ Head(Rest(c, m)) = n
  BY <1>1, <1>2, <1>3
<1>6. Tail(Rest(c, m)) = Rest(c, n)
  <2>1. /\ Tail(Rest(c, m)) \in Seq(S) /\ Len(Tail(Rest(c, m))) = Len(c) - (i + 1)
        /\ \A j \in 1..(Len(c) - (i + 1)) : Tail(Rest(c, m))[j] = Rest(c, m)[j + 1]
    BY <1>2, <1>3, <1>5, TailKeeps
  <2>2. ASSUME NEW j \in 1..(Len(c) - (i + 1))
        PROVE  Tail(Rest(c, m))[j] = Rest(c, n)[j]
    <3>1. j + 1 \in 1..(Len(c) - i) /\ i + (j + 1) = (i + 1) + j
      BY <1>2
    <3> QED
      BY <1>3, <1>4, <2>1, <3>1
  <2> QED
    BY <1>4, <2>1, <2>2, SeqEqual
<1> QED
  BY <1>5, <1>6

\* Appending to a sequence appends to what is behind each of its elements.
LEMMA RestAppend ==
  ASSUME NEW S, NEW c \in Seq(S), NoRepeat(c), NEW x \in S, ~Has(c, x), NEW n, Has(c, n)
  PROVE  Rest(Append(c, x), n) = Append(Rest(c, n), x)
<1> DEFINE d == Append(c, x)
<1>1. PICK i \in 1..Len(c) : c[i] = n
  BY DEF Has
<1>2. /\ d \in Seq(S) /\ Len(d) = Len(c) + 1 /\ Len(c) \in Nat
      /\ d[Len(c) + 1] = x /\ \A j \in 1..Len(c) : d[j] = c[j]
  OBVIOUS
<1> HIDE DEF d
<1>3. NoRepeat(d)
  BY <1>2 DEF NoRepeat, Has
<1>4. i \in 1..Len(d) /\ d[i] = n
  BY <1>1, <1>2
<1>5. /\ Rest(d, n) \in Seq(S) /\ Len(Rest(d, n)) = Len(d) - i
      /\ \A j \in 1..(Len(d) - i) : Rest(d, n)[j] = d[i + j]
  BY <1>2, <1>3, <1>4, RestType
<1>6. /\ Rest(c, n) \in Seq(S) /\ Len(Rest(c, n)) = Len(c) - i
      /\ \A j \in 1..(Len(c) - i) : Rest(c, n)[j] = c[i + j]
  BY <1>1, RestType
<1>7. /\ Append(Rest(c, n), x) \in Seq(S) /\ Len(Append(Rest(c, n), x)) = Len(d) - i
      /\ Append(Rest(c, n), x)[Len(d) - i] = x
      /\ \A j \in 1..(Len(c) - i) : Append(Rest(c, n), x)[j] = Rest(c, n)[j]
  <2>1. \A u \in Seq(S) :
          /\ Append(u, x) \in Seq(S) /\ Len(Append(u, x)) = Len(u) + 1
          /\ Append(u, x)[Len(u) + 1] = x
          /\ \A j \in 1..Len(u) : Append(u, x)[j] = u[j]
    OBVIOUS
  <2>2. Len(d) - i = Len(Rest(c, n)) + 1
    BY <1>1, <1>2, <1>6
  <2> QED
    BY <1>6, <2>1, <2>2
<1>8. ASSUME NEW j \in 1..(Len(d) - i) PROVE Rest(d, n)[j] = Append(Rest(c, n), x)[j]
  <2>1. CASE j = Len(d) - i
    BY <1>1, <1>2, <1>5, <1>7, <2>1
  <2>2. CASE j \in 1..(Len(c) - i)
    <3>1. i + j \in 1..Len(c)
      BY <1>1, <1>2, <2>2
    <3> QED
      BY <1>2, <1>5, <1>6, <1>7, <2>2, <3>1
  <2>3. \A k, l \in Nat : i <= l /\ k \in 1..((l + 1) - i) =>
          k = (l + 1) - i \/ k \in 1..(l - i)
    BY <1>1
  <2>4. /\ i <= Len(c) /\ j \in Nat /\ Len(d) - i = (Len(c) + 1) - i
        /\ j \in 1..((Len(c) + 1) - i)
    BY <1>1, <1>2
  <2>5. j = Len(d) - i \/ j \in 1..(Len(c) - i)
    BY <1>2, <2>3, <2>4
  <2> QED
    BY <2>1, <2>2, <2>5
<1> QED
  BY <1>5, <1>7, <1>8, SeqEqual DEF d

----------------------------------------------------------------------------

NextPtr == [n \in Nodes |-> next[n].ptr]

\* Which locals each step finds set.
LocalsSet ==
  \A t \in Threads :
    /\ pc[t] \in EnqueuePcs \union {"E17", "D20"} => item[t] # Null
    /\ pc[t] \in {"E6", "E7", "E9", "E13", "E17"} => ltail[t].ptr # Null
    /\ pc[t] = "E9" => lnext[t].ptr = Null
    /\ pc[t] \in {"D3", "D4", "D5", "D10", "D13"} => lhead[t].ptr # Null
    /\ pc[t] \in {"D4", "D5", "D10", "D13"} => ltail[t].ptr # Null
    /\ pc[t] \in {"E13", "D10", "D13"} => lnext[t].ptr # Null
    /\ pc[t] = "D10" => lhead[t].ptr = ltail[t].ptr
    /\ pc[t] = "D13" => lhead[t].ptr # ltail[t].ptr
    /\ pc[t] \in EnqueuePcs \union {"E17", "D20", "idle", "D2"} => lhead[t].ptr = Null
    /\ pc[t] \in {"idle", "E5", "D2", "D3", "D20"} => ltail[t].ptr = Null
    /\ pc[t] \in {"idle", "E5", "E6", "D2", "D3", "D4", "D20"} => lnext[t].ptr = Null

LocalsLinked ==
  \A t \in Threads :
    /\ ltail[t].ptr # Null => Before(chain, ltail[t].ptr, tail.ptr)
    /\ lhead[t].ptr # Null => Before(chain, lhead[t].ptr, head.ptr)
    /\ (lhead[t].ptr # Null /\ ltail[t].ptr # Null) => Before(chain, lhead[t].ptr, ltail[t].ptr)

\* D5 leads to D13 without a null test of next: that next is not null there
\* follows from the order in which Head, Tail and next were read.
NextKept ==
  \A t \in Threads :
    /\ pc[t] \in EnqueuePcs /\ lnext[t].ptr # Null => Follows(chain, ltail[t].ptr, lnext[t].ptr)
    /\ pc[t] \in DequeuePcs /\ lnext[t].ptr # Null => Follows(chain, lhead[t].ptr, lnext[t].ptr)
    /\ pc[t] = "E17" => Follows(chain, ltail[t].ptr, item[t])
    /\ pc[t] = "D5" /\ lhead[t].ptr # ltail[t].ptr => lnext[t].ptr # Null

Fresh ==
  /\ \A x \in unsent : ~Has(chain, x)
  /\ \A t \in Threads : pc[t] \in EnqueuePcs =>
       /\ item[t] \notin unsent /\ ~Has(chain, item[t])
       /\ \A u \in Threads \ {t} : pc[u] \in EnqueuePcs => item[u] # item[t]

Unlinked == \A n \in Nodes : NextPtr[n] # Null => Has(chain, n)

Linked ==
  /\ NoRepeat(chain) /\ Spells(chain, NextPtr, Null) /\ Unlinked /\ chain[1] = Dummy
  /\ Before(chain, head.ptr, tail.ptr) /\ LastTwo(chain, tail.ptr)

\* Nothing is freed before the destructor is done, and it runs alone.
Destroying ==
  /\ dtor # "live" => \A t \in Threads : pc[t] = "idle"
  /\ dtor # "gone" => freed = {}

\* The inductive invariant.
IInv == TypeOK /\ LocalsSet /\ Linked /\ LocalsLinked /\ NextKept /\ Fresh /\ Destroying

USE NodeAssumption, CountAssumption DEF Goto, Pcs, EnqueuePcs, DequeuePcs, Nodes

----------------------------------------------------------------------------
(* Types *)

LEMMA PointerType ==
  ASSUME NEW n \in Nodes \union {Null}, NEW c \in Nat
  PROVE  Pointer(n, c) \in Pointers /\ Pointer(n, c).ptr = n /\ Pointer(n, c + 1) \in Pointers
                                    /\ Pointer(n, c + 1).ptr = n
BY DEF Pointer, Pointers

LEMMA NextType ==
  ASSUME NEW n \in Nodes, NEW c \in Nat
  PROVE  Pointer(n, c + 1) \in Pointers /\ Pointer(n, c + 1).ptr # Null
BY PointerType

LEMMA NullType == NullPtr \in Pointers /\ NullPtr.ptr = Null
BY PointerType DEF NullPtr

LEMMA PointersType ==
  ASSUME NEW p \in Pointers
  PROVE  p.ptr \in Nodes \union {Null} /\ p.count \in Nat
BY DEF Pointers

\* The types of what the next steps use.
LEMMA ListType ==
  ASSUME TypeOK
  PROVE  /\ chain \in Seq(Nodes) /\ Null \notin Nodes
         /\ NextPtr \in [Nodes -> Nodes \union {Null}]
         /\ head.ptr \in Nodes /\ tail.ptr \in Nodes
BY PointersType DEF TypeOK, NextPtr

LEMMA TypesInit == Init => TypeOK /\ LocalsSet
BY PointerType, NullType DEF Init, TypeOK, LocalsSet

LEMMA TypesCall ==
  ASSUME IInv, NEW t \in Threads, Call(t)
  PROVE  TypeOK' /\ LocalsSet'
<1> USE DEF IInv, TypeOK, LocalsSet, list, locals, life
<1>1. CASE CallDequeue(t)
  BY <1>1 DEF CallDequeue
<1>2. CASE \E x \in Items : CallEnqueue(t, x)
  BY <1>2 DEF CallEnqueue
<1> QED
  BY <1>1, <1>2 DEF Call

\* The compare-and-swap of Tail keeps its type.
LEMMA CasTailType ==
  ASSUME TypeOK, NEW t \in Threads, NEW n \in Nodes, CasTail(t, n)
  PROVE  tail' \in Pointers /\ tail'.ptr # Null
<1>1. ltail[t].count \in Nat
  BY PointersType DEF TypeOK
<1> QED
  BY <1>1, PointerType DEF TypeOK, CasTail

\* Dropped locals are null.
LEMMA DropType ==
  ASSUME TypeOK, NEW t \in Threads, DropLocals(t)
  PROVE  /\ lhead' \in [Threads -> Pointers] /\ ltail' \in [Threads -> Pointers]
         /\ lnext' \in [Threads -> Pointers]
         /\ lhead'[t].ptr = Null /\ ltail'[t].ptr = Null /\ lnext'[t].ptr = Null
         /\ \A u \in Threads \ {t} :
              lhead'[u] = lhead[u] /\ ltail'[u] = ltail[u] /\ lnext'[u] = lnext[u]
BY NullType DEF TypeOK, DropLocals

LEMMA TypesEnqueue ==
  ASSUME IInv, NEW t \in Threads, Enqueue(t)
  PROVE  TypeOK' /\ LocalsSet'
<1> USE DEF IInv, TypeOK, LocalsSet, list, locals, life
<1>1. CASE E5(t)
  BY <1>1 DEF E5
<1>2. CASE E6(t)
  <2>1. pc[t] = "E6" /\ ltail[t].ptr \in Nodes
    BY <1>2, PointersType DEF E6
  <2>2. next[ltail[t].ptr] \in Pointers
    BY <2>1
  <2> QED
    BY <1>2, <2>1, <2>2 DEF E6
<1>3. CASE E7(t)
  <2>1. CASE Again(t, "E7", "E5")
    BY <1>3, <2>1, DropType DEF E7, Again
  <2>2. CASE UNCHANGED locals /\ ~Again(t, "E7", "E5")
    BY <1>3, <2>2 DEF E7
  <2> QED
    BY <1>3, <2>1, <2>2 DEF E7
<1>4. CASE E9(t)
  <2>1. CASE Again(t, "E9", "E5") /\ UNCHANGED <<next, chain>>
    BY <1>4, <2>1, DropType DEF E9, Again
  <2>2. CASE /\ Goto(t, "E9", "E17") /\ UNCHANGED locals
             /\ next' = [next EXCEPT ![ltail[t].ptr] = Pointer(item[t], lnext[t].count + 1)]
             /\ chain' = Append(chain, item[t])
    <3>1. pc[t] = "E9" /\ item[t] \in Items /\ lnext[t].count \in Nat
      BY <2>2, PointersType
    <3>2. chain' \in Seq(Nodes)
      BY <2>2, <3>1, AppendType
    <3>3. next' \in [Nodes -> Pointers]
      BY <2>2, <3>1, PointerType
    <3>4. LocalsSet'
      BY <2>2
    <3> QED
      BY <1>4, <2>2, <3>2, <3>3, <3>4 DEF E9
  <2> QED
    BY <1>4, <2>1, <2>2 DEF E9
<1>5. CASE E13(t)
  <2>1. lnext[t].ptr \in Nodes
    BY <1>5, PointersType DEF E13, Again
  <2>2. tail' \in Pointers /\ tail'.ptr # Null
    BY <1>5, <2>1, CasTailType DEF E13
  <2> QED
    BY <1>5, <2>2, DropType DEF E13, Again
<1>6. CASE E17(t)
  <2>1. item[t] \in Nodes
    BY <1>6 DEF E17, Return
  <2>2. tail' \in Pointers /\ tail'.ptr # Null
    BY <1>6, <2>1, CasTailType DEF E17
  <2> QED
    BY <1>6, <2>2, DropType DEF E17, Return
<1> QED
  BY <1>1, <1>2, <1>3, <1>4, <1>5, <1>6 DEF Enqueue

LEMMA TypesDequeue ==
  ASSUME IInv, NEW t \in Threads, Dequeue(t)
  PROVE  TypeOK' /\ LocalsSet'
<1> USE DEF IInv, TypeOK, LocalsSet, list, locals, life
<1>1. CASE D2(t)
  BY <1>1 DEF D2
<1>2. CASE D3(t)
  BY <1>2 DEF D3
<1>3. CASE D4(t)
  BY <1>3, PointersType DEF D4
<1>4. CASE D5(t)
  <2>1. CASE Again(t, "D5", "D2")
    BY <1>4, <2>1, DropType DEF D5, Again
  <2>2. CASE UNCHANGED locals /\ ~Again(t, "D5", "D2")
    BY <1>4, <2>2 DEF D5, NextKept
  <2> QED
    BY <1>4, <2>1, <2>2 DEF D5
<1>5. CASE D8(t) \/ D20(t)
  BY <1>5, DropType DEF D8, D20, Return
<1>6. CASE D10(t)
  <2>1. lnext[t].ptr \in Nodes
    BY <1>6, PointersType DEF D10, Again
  <2>2. tail' \in Pointers /\ tail'.ptr # Null
    BY <1>6, <2>1, CasTailType DEF D10
  <2> QED
    BY <1>6, <2>2, DropType DEF D10, Again
<1>7. CASE D13(t)
  <2>1. CASE Goto(t, "D13", "D20") /\ head' = Pointer(lnext[t].ptr, lhead[t].count + 1)
    <3>1. pc[t] = "D13" /\ lnext[t].ptr \in Nodes /\ lhead[t].count \in Nat
      BY <2>1, PointersType
    <3>2. head' \in Pointers /\ head'.ptr # Null
      <4>1. Pointer(lnext[t].ptr, lhead[t].count + 1) \in Pointers
        BY ONLY <3>1, NextType
      <4>2. Pointer(lnext[t].ptr, lhead[t].count + 1).ptr # Null
        BY ONLY <3>1, NextType
      <4> QED
        BY ONLY <2>1, <4>1, <4>2
    <3>3. lnext[t].ptr \in Items
      <4>1. Follows(chain, lhead[t].ptr, lnext[t].ptr)
        BY <3>1 DEF NextKept
      <4>2. chain \in Seq(Nodes) /\ NoRepeat(chain) /\ chain[1] = Dummy
        BY DEF Linked
      <4>3. lnext[t].ptr # Dummy
        BY <4>1, <4>2, FollowsNotFirst
      <4> QED
        BY <3>1, <4>3
    <3>4. item' = [item EXCEPT ![t] = lnext[t].ptr] /\ DropLocals(t)
      BY <1>7, <2>1 DEF D13, Again
    <3>5. TypeOK'
      BY <1>7, <2>1, <3>2, <3>3, <3>4, DropType DEF D13
    <3>6. LocalsSet'
      BY <2>1, <3>3, <3>4, DropType
    <3> QED
      BY <3>5, <3>6
  <2>2. CASE Again(t, "D13", "D2") /\ UNCHANGED head
    BY <1>7, <2>2, DropType DEF D13, Again
  <2> QED
    BY <1>7, <2>1, <2>2 DEF D13
<1> QED
  BY <1>1, <1>2, <1>3, <1>4, <1>5, <1>6, <1>7 DEF Dequeue

----------------------------------------------------------------------------
(* The list *)

LEMMA ListInit == Init => Linked /\ LocalsLinked /\ NextKept /\ Fresh /\ Destroying
<1> SUFFICES ASSUME Init PROVE Linked /\ LocalsLinked /\ NextKept /\ Fresh /\ Destroying
  OBVIOUS
<1>1. /\ Len(chain) = 1 /\ chain[1] = Dummy /\ head.ptr = Dummy /\ tail.ptr = Dummy
      /\ unsent = Items
  BY PointerType DEF Init
<1>2. \A n \in Nodes : NextPtr[n] = Null
  BY NullType DEF Init, NextPtr
<1>3. Linked
  BY <1>1, <1>2 DEF Linked, NoRepeat, Before, LastTwo, Spells, Unlinked
<1>4. LocalsLinked /\ NextKept
  BY NullType DEF Init, LocalsLinked, NextKept
<1>5. Fresh /\ Destroying
  BY <1>1 DEF Init, Fresh, Has, Destroying
<1> QED
  BY <1>3, <1>4, <1>5

LEMMA FreshKept ==
  ASSUME Fresh, UNCHANGED <<chain, unsent>>,
         \A u \in Threads : pc'[u] \in EnqueuePcs =>
                              pc[u] \in EnqueuePcs /\ item'[u] = item[u]
  PROVE  Fresh'
BY DEF Fresh

\* Head and Tail only move forward.
Forward ==
  /\ chain' = chain
  /\ \A m : Before(chain, m, tail.ptr) => Before(chain, m, tail'.ptr)
  /\ \A m : Before(chain, m, head.ptr) => Before(chain, m, head'.ptr)

LEMMA ForwardStutter == UNCHANGED list => Forward
BY DEF Forward, list

LEMMA LinkedKept == Linked /\ UNCHANGED list => Linked'
BY DEF Linked, Unlinked, NextPtr, list

\* A thread whose locals are dropped has nothing left to be linked.
LEMMA DroppedLocals ==
  ASSUME IInv, NEW t \in Threads, DropLocals(t), Forward,
         \A u \in Threads \ {t} : pc'[u] = pc[u] /\ item'[u] = item[u],
         pc'[t] \notin {"E17", "D5"}
  PROVE  LocalsLinked' /\ NextKept'
<1>1. /\ \A u \in Threads \ {t} :
           lhead'[u] = lhead[u] /\ ltail'[u] = ltail[u] /\ lnext'[u] = lnext[u]
      /\ lhead'[t].ptr = Null /\ ltail'[t].ptr = Null /\ lnext'[t].ptr = Null
  BY DropType DEF IInv
<1>2. LocalsLinked'
  BY <1>1 DEF LocalsLinked, IInv, Forward
<1>3. NextKept'
  BY <1>1 DEF NextKept, IInv, Forward
<1> QED
  BY <1>2, <1>3

\* The part of the invariant that TypesCall, TypesEnqueue and TypesDequeue
\* leave to be shown.
Shape == Linked /\ LocalsLinked /\ NextKept /\ Fresh /\ Destroying

\* No call runs once the destructor does.
LEMMA Live ==
  ASSUME IInv, NEW t \in Threads, Enqueue(t) \/ Dequeue(t) \/ Call(t)
  PROVE  dtor = "live"
BY DEF IInv, Destroying, Enqueue, Dequeue, Call, CallDequeue, CallEnqueue, Again, Return,
       E5, E6, E7, E9, E13, E17, D2, D3, D4, D5, D8, D10, D13, D20

LEMMA ShapeEnqReads ==
  ASSUME IInv, TypeOK', NEW t \in Threads, dtor = "live", E5(t) \/ E6(t) \/ E7(t)
  PROVE  Shape'
<1>1. UNCHANGED <<list, life, item>>
  BY DEF E5, E6, E7, Again, locals
<1>2. Linked' /\ Destroying'
  BY <1>1, LinkedKept DEF IInv, Destroying, life
<1>3. Fresh'
  BY <1>1, FreshKept DEF E5, E6, E7, Again, IInv, TypeOK, list, life
<1>4. CASE E5(t)
  <2>1. Before(chain, tail.ptr, tail.ptr)
    BY DEF IInv, Linked, LastTwo, Before
  <2>2. LocalsLinked'
    BY <1>1, <1>4, <2>1 DEF E5, LocalsLinked, IInv, TypeOK, LocalsSet, list
  <2>3. NextKept'
    BY <1>1, <1>4 DEF E5, NextKept, IInv, TypeOK, LocalsSet, list
  <2> QED
    BY <1>2, <1>3, <2>2, <2>3 DEF Shape
<1>5. CASE E6(t)
  <2>1. ltail[t].ptr \in Nodes /\ Before(chain, ltail[t].ptr, tail.ptr)
    BY <1>5, PointersType DEF E6, IInv, TypeOK, LocalsSet, LocalsLinked
  <2>2. next[ltail[t].ptr].ptr # Null => Follows(chain, ltail[t].ptr, next[ltail[t].ptr].ptr)
    <3>1. NextPtr[ltail[t].ptr] = next[ltail[t].ptr].ptr
      BY <2>1 DEF NextPtr
    <3> QED
      BY <2>1, <3>1, ListType, ReadNext DEF IInv, Linked
  <2>3. LocalsLinked'
    BY <1>1, <1>5 DEF E6, LocalsLinked, IInv, list
  <2>4. NextKept'
    BY <1>1, <1>5, <2>2 DEF E6, NextKept, IInv, TypeOK, list
  <2> QED
    BY <1>2, <1>3, <2>3, <2>4 DEF Shape
<1>6. CASE E7(t)
  <2>1. CASE Again(t, "E7", "E5")
    <3>1. LocalsLinked' /\ NextKept'
      BY <1>1, <1>6, <2>1, DroppedLocals, ForwardStutter DEF Again, IInv, TypeOK
    <3> QED
      BY <1>2, <1>3, <3>1 DEF Shape
  <2>2. CASE UNCHANGED locals /\ ~Again(t, "E7", "E5")
    <3>1. LocalsLinked' /\ NextKept'
      BY <1>1, <1>6, <2>2 DEF E7, LocalsLinked, NextKept, IInv, TypeOK, list, locals
    <3> QED
      BY <1>2, <1>3, <3>1 DEF Shape
  <2> QED
    BY <1>6, <2>1, <2>2 DEF E7
<1> QED
  BY <1>4, <1>5, <1>6

\* The compare-and-swap of Tail to the successor of the local tail.
LEMMA TailMoves ==
  ASSUME IInv, NEW t \in Threads, NEW n, Follows(chain, ltail[t].ptr, n),
         CasTail(t, n), UNCHANGED <<head, next, chain>>
  PROVE  Forward /\ Linked'
<1>1. chain \in Seq(Nodes) /\ NoRepeat(chain)
  BY ListType DEF IInv, Linked
<1>2. n \in Nodes
  BY <1>1, FollowsNotFirst
<1>3. tail' = tail \/ (tail.ptr = ltail[t].ptr /\ tail'.ptr = n)
  BY <1>2, PointersType, PointerType DEF CasTail, IInv, TypeOK
<1>4. CASE tail' = tail
  BY <1>4, LinkedKept DEF Forward, IInv, list
<1>5. CASE tail.ptr = ltail[t].ptr /\ tail'.ptr = n
  <2>1. \A m : Before(chain, m, tail.ptr) => Before(chain, m, tail'.ptr)
    BY <1>1, <1>5, BeforeFollows
  <2>2. LastTwo(chain, tail'.ptr)
    BY <1>1, <1>5, FollowsLastTwo DEF IInv, Linked
  <2>3. NextPtr' = NextPtr
    BY DEF NextPtr
  <2> QED
    BY <2>1, <2>2, <2>3 DEF Forward, IInv, Linked, Unlinked
<1> QED
  BY <1>3, <1>4, <1>5

LEMMA ShapeHelps ==
  ASSUME IInv, NEW t \in Threads, dtor = "live", E13(t) \/ E17(t) \/ D10(t)
  PROVE  Shape'
<1>1. PICK n : Follows(chain, ltail[t].ptr, n) /\ CasTail(t, n)
  <2>1. CASE E13(t)
    BY <2>1 DEF E13, Again, IInv, LocalsSet, NextKept
  <2>2. CASE E17(t)
    BY <2>2 DEF E17, Return, IInv, NextKept
  <2>3. CASE D10(t)
    BY <2>3 DEF D10, Again, IInv, LocalsSet, NextKept
  <2> QED
    BY <2>1, <2>2, <2>3
<1>2. /\ UNCHANGED <<head, next, chain, life>> /\ DropLocals(t)
      /\ pc'[t] \notin {"E17", "D5"}
      /\ \A u \in Threads \ {t} : pc'[u] = pc[u] /\ item'[u] = item[u]
  BY DEF E13, E17, D10, Again, Return, IInv, TypeOK
<1>3. Forward /\ Linked'
  BY <1>1, <1>2, TailMoves
<1>4. LocalsLinked' /\ NextKept'
  BY <1>2, <1>3, DroppedLocals
<1>5. Fresh' /\ Destroying'
  BY <1>2, FreshKept DEF E13, E17, D10, Again, Return, IInv, TypeOK, Destroying, life
<1> QED
  BY <1>3, <1>4, <1>5 DEF Shape

LEMMA ShapeE9 ==
  ASSUME IInv, NEW t \in Threads, dtor = "live", E9(t)
  PROVE  Shape'
<1>1. CASE Again(t, "E9", "E5") /\ UNCHANGED <<next, chain>>
  <2>1. UNCHANGED <<list, life>>
    BY <1>1 DEF E9, list
  <2>2. LocalsLinked' /\ NextKept'
    BY <1>1, <2>1, DroppedLocals, ForwardStutter DEF Again, IInv, TypeOK
  <2>3. Fresh' /\ Linked' /\ Destroying'
    BY <1>1, <2>1, FreshKept, LinkedKept DEF Again, IInv, TypeOK, Destroying, life
  <2> QED
    BY <2>2, <2>3 DEF Shape
<1>2. CASE /\ Goto(t, "E9", "E17") /\ next[ltail[t].ptr] = lnext[t]
           /\ next' = [next EXCEPT ![ltail[t].ptr] = Pointer(item[t], lnext[t].count + 1)]
           /\ chain' = Append(chain, item[t])
           /\ UNCHANGED locals
  <2> DEFINE x == item[t]
             l == ltail[t].ptr
  <2>1. /\ pc[t] = "E9" /\ x \in Items /\ x \in Nodes /\ l \in Nodes /\ lnext[t].ptr = Null
        /\ UNCHANGED <<head, tail, unsent, item, lhead, ltail, lnext, dtor, freed>>
    BY <1>2, PointersType DEF E9, IInv, TypeOK, LocalsSet, locals, life
  <2>2. Before(chain, l, tail.ptr) /\ ~Has(chain, x) /\ x \notin unsent
    BY <2>1 DEF IInv, LocalsLinked, Fresh
  <2>3. NextPtr[x] = Null /\ NextPtr[l] = Null
    BY <1>2, <2>1, <2>2 DEF IInv, Linked, Unlinked, NextPtr
  <2>4. l = tail.ptr /\ chain # <<>> /\ l = chain[Len(chain)]
    BY <2>2, <2>3, ListType, LinkAtEnd DEF IInv, Linked
  <2>5. NextPtr' = [NextPtr EXCEPT ![l] = x]
    <3>1. Pointer(x, lnext[t].count + 1).ptr = x
      BY <2>1, PointersType, PointerType DEF IInv, TypeOK
    <3> QED
      BY <1>2, <2>1, <3>1 DEF NextPtr, IInv, TypeOK
  <2>6. /\ NoRepeat(chain') /\ Spells(chain', NextPtr', Null)
        /\ Follows(chain', l, x) /\ LastTwo(chain', l)
    BY <1>2, <2>1, <2>2, <2>3, <2>4, <2>5, ListType, LinkLast DEF IInv, Linked
  <2>7. \A m, n : /\ Before(chain, m, n) => Before(chain', m, n)
                  /\ Follows(chain, m, n) => Follows(chain', m, n)
                  /\ Has(chain', m) <=> Has(chain, m) \/ m = x
    BY <1>2, <2>1, ListType, AppendKeeps DEF IInv
  <2>8. Unlinked'
    <3>1. Has(chain, l)
      BY <2>2 DEF Before, Has
    <3> QED
      BY <2>5, <2>7, <3>1, ListType DEF Unlinked, IInv, Linked
  <2>9. LocalsLinked'
    BY <2>1, <2>7 DEF LocalsLinked, IInv
  <2>10. NextKept'
    BY <1>2, <2>1, <2>6, <2>7 DEF NextKept, IInv, TypeOK
  <2>11. Fresh'
    <3>1. pc'[t] = "E17" /\ \A u \in Threads \ {t} : pc'[u] = pc[u]
      BY <1>2 DEF IInv, TypeOK
    <3>2. \A u \in Threads \ {t} : pc[u] \in EnqueuePcs => item[u] # x
      BY <2>1 DEF Fresh, IInv
    <3>3. \A y \in unsent : ~Has(chain', y)
      BY <2>2, <2>7 DEF Fresh, IInv
    <3>4. ASSUME NEW u \in Threads, pc'[u] \in EnqueuePcs
          PROVE  /\ item[u] \notin unsent /\ ~Has(chain', item[u])
                 /\ \A v \in Threads \ {u} : pc'[v] \in EnqueuePcs => item[v] # item[u]
      <4>1. u # t /\ pc[u] \in EnqueuePcs
        BY <3>1, <3>4
      <4> QED
        BY <3>1, <3>2, <4>1, <2>7 DEF Fresh, IInv
    <3> QED
      BY <2>1, <3>3, <3>4 DEF Fresh
  <2>12. chain'[1] = Dummy
    BY <1>2, <2>1, <2>4, ListType DEF IInv, Linked
  <2>13. Linked'
    BY <2>1, <2>4, <2>6, <2>7, <2>8, <2>12 DEF IInv, Linked
  <2>14. Destroying'
    BY <1>2, <2>1 DEF IInv, Destroying
  <2> QED
    BY <2>9, <2>10, <2>11, <2>13, <2>14 DEF Shape
<1> QED
  BY <1>1, <1>2 DEF E9

LEMMA ShapeDeqReads ==
  ASSUME IInv, TypeOK', NEW t \in Threads, dtor = "live", D2(t) \/ D3(t) \/ D4(t)
  PROVE  Shape'
<1>1. UNCHANGED <<list, life, item>>
  BY DEF D2, D3, D4
<1>2. Linked' /\ Destroying' /\ Fresh'
  BY <1>1, LinkedKept, FreshKept DEF D2, D3, D4, IInv, TypeOK, Destroying, list, life
<1>3. CASE D2(t)
  <2>1. Before(chain, head.ptr, head.ptr)
    BY DEF IInv, Linked, Before
  <2>2. LocalsLinked'
    BY <1>1, <1>3, <2>1 DEF D2, LocalsLinked, IInv, TypeOK, LocalsSet, list
  <2>3. NextKept'
    BY <1>1, <1>3 DEF D2, NextKept, IInv, TypeOK, LocalsSet, list
  <2> QED
    BY <1>2, <2>2, <2>3 DEF Shape
<1>4. CASE D3(t)
  <2>1. Before(chain, tail.ptr, tail.ptr)
    BY DEF IInv, Linked, LastTwo, Before
  <2>2. Before(chain, lhead[t].ptr, tail.ptr)
    BY <1>4, ListType, BeforeTrans DEF D3, IInv, Linked, LocalsLinked, LocalsSet
  <2>3. LocalsLinked'
    BY <1>1, <1>4, <2>1, <2>2 DEF D3, LocalsLinked, IInv, TypeOK, LocalsSet, list
  <2>4. NextKept'
    BY <1>1, <1>4 DEF D3, NextKept, IInv, TypeOK, LocalsSet, list
  <2> QED
    BY <1>2, <2>3, <2>4 DEF Shape
<1>5. CASE D4(t)
  <2>1. /\ lhead[t].ptr \in Nodes /\ Before(chain, lhead[t].ptr, head.ptr)
        /\ Before(chain, lhead[t].ptr, ltail[t].ptr)
    BY <1>5, PointersType DEF D4, IInv, TypeOK, LocalsSet, LocalsLinked
  <2>2. NextPtr[lhead[t].ptr] = next[lhead[t].ptr].ptr
    BY <2>1 DEF NextPtr
  <2>3. next[lhead[t].ptr].ptr # Null => Follows(chain, lhead[t].ptr, next[lhead[t].ptr].ptr)
    BY <2>1, <2>2, ListType, ReadNext DEF IInv, Linked
  <2>4. lhead[t].ptr # ltail[t].ptr => next[lhead[t].ptr].ptr # Null
    <3>1. /\ chain \in Seq(Nodes) /\ Null \notin Nodes /\ NoRepeat(chain)
          /\ Spells(chain, NextPtr, Null)
      BY ListType DEF IInv, Linked
    <3>2. NextPtr[lhead[t].ptr] = Null => lhead[t].ptr = ltail[t].ptr
      BY ONLY <2>1, <3>1, LinkAtEnd
    <3> QED
      BY <2>2, <3>2
  <2>5. LocalsLinked'
    BY <1>1, <1>5 DEF D4, LocalsLinked, IInv, list
  <2>6. NextKept'
    BY <1>1, <1>5, <2>3, <2>4 DEF D4, NextKept, IInv, TypeOK, list
  <2> QED
    BY <1>2, <2>5, <2>6 DEF Shape
<1> QED
  BY <1>3, <1>4, <1>5

LEMMA ShapeDeqCheck ==
  ASSUME IInv, NEW t \in Threads, dtor = "live", D5(t) \/ D8(t) \/ D20(t)
  PROVE  Shape'
<1>1. UNCHANGED <<list, life>>
  BY DEF D5, D8, D20
<1>2. Linked' /\ Destroying' /\ Fresh'
  BY <1>1, LinkedKept, FreshKept
  DEF D5, D8, D20, Again, Return, IInv, TypeOK, Destroying, list, life, locals
<1>3. CASE DropLocals(t)
  <2>1. LocalsLinked' /\ NextKept'
    BY <1>1, <1>3, DroppedLocals, ForwardStutter
    DEF D5, D8, D20, Again, Return, IInv, TypeOK, locals
  <2> QED
    BY <1>2, <2>1 DEF Shape
<1>4. CASE D5(t) /\ UNCHANGED locals /\ ~Again(t, "D5", "D2")
  <2>1. LocalsLinked' /\ NextKept'
    BY <1>1, <1>4 DEF D5, LocalsLinked, NextKept, IInv, TypeOK, list, locals
  <2> QED
    BY <1>2, <2>1 DEF Shape
<1> QED
  BY <1>3, <1>4 DEF D5, D8, D20, Again, Return

\* Head moves to the successor of the local head.
LEMMA HeadMoves ==
  ASSUME IInv, NEW n, Follows(chain, head.ptr, n), head.ptr # tail.ptr,
         head'.ptr = n, UNCHANGED <<tail, next, chain>>
  PROVE  Forward /\ Linked'
<1>1. chain \in Seq(Nodes) /\ NoRepeat(chain) /\ Before(chain, head.ptr, tail.ptr)
  BY ListType DEF IInv, Linked
<1>2. \A m : Before(chain, m, head.ptr) => Before(chain, m, n)
  BY <1>1, BeforeFollows
<1>3. Before(chain, n, tail.ptr)
  BY <1>1, FollowsBefore
<1>4. NextPtr' = NextPtr
  BY DEF NextPtr
<1> QED
  BY <1>2, <1>3, <1>4 DEF Forward, IInv, Linked, Unlinked

LEMMA ShapeD13 ==
  ASSUME IInv, NEW t \in Threads, dtor = "live", D13(t)
  PROVE  Shape'
<1>1. /\ UNCHANGED <<tail, next, chain, life>> /\ DropLocals(t)
      /\ pc[t] = "D13" /\ pc'[t] \in {"D20", "D2"}
      /\ \A u \in Threads \ {t} : pc'[u] = pc[u] /\ item'[u] = item[u]
  BY DEF D13, Again, IInv, TypeOK
<1>2. Forward /\ Linked'
  <2>1. CASE head' = head
    BY <1>1, <2>1, ForwardStutter, LinkedKept DEF IInv, list
  <2>2. CASE head = lhead[t] /\ head' = Pointer(lnext[t].ptr, lhead[t].count + 1)
    <3>1. /\ Follows(chain, head.ptr, lnext[t].ptr) /\ head.ptr # ltail[t].ptr
          /\ Before(chain, head.ptr, ltail[t].ptr) /\ Before(chain, ltail[t].ptr, tail.ptr)
      BY <1>1, <2>2 DEF IInv, LocalsSet, LocalsLinked, NextKept
    <3>2. head.ptr # tail.ptr
      BY <3>1, ListType DEF IInv, Linked, Before, NoRepeat
    <3>3. head'.ptr = lnext[t].ptr
      <4>1. lnext[t].ptr \in Nodes /\ lhead[t].count \in Nat
        BY <1>1, PointersType DEF IInv, TypeOK, LocalsSet
      <4> QED
        BY <2>2, <4>1, PointerType
    <3> QED
      BY <1>1, <3>1, <3>2, <3>3, HeadMoves
  <2> QED
    BY <2>1, <2>2 DEF D13
<1>3. LocalsLinked' /\ NextKept'
  BY <1>1, <1>2, DroppedLocals
<1>4. Fresh' /\ Destroying'
  BY <1>1, FreshKept DEF IInv, TypeOK, Destroying, life
<1> QED
  BY <1>2, <1>3, <1>4 DEF Shape

LEMMA ShapeCall ==
  ASSUME IInv, NEW t \in Threads, Call(t)
  PROVE  Shape'
<1>1. UNCHANGED <<list, lhead, ltail, lnext, dtor, freed>> /\ dtor = "live"
  BY DEF Call, CallDequeue, CallEnqueue, locals, life
<1>2. Linked' /\ Destroying' /\ LocalsLinked'
  BY <1>1, LinkedKept DEF IInv, Destroying, LocalsLinked, list
<1>3. NextKept'
  BY <1>1 DEF Call, CallDequeue, CallEnqueue, NextKept, IInv, TypeOK, LocalsSet, list, locals
<1>4. Fresh'
  <2>1. CASE CallDequeue(t)
    BY <2>1, FreshKept DEF CallDequeue, IInv, TypeOK, list, life, locals
  <2>2. CASE \E x \in Items : CallEnqueue(t, x)
    BY <2>2 DEF CallEnqueue, Fresh, IInv, TypeOK, list
  <2> QED
    BY <2>1, <2>2 DEF Call
<1> QED
  BY <1>2, <1>3, <1>4 DEF Shape

----------------------------------------------------------------------------
(* The destructor *)

LEMMA InvDestructor ==
  ASSUME IInv, Destroy \/ Drain \/ DeleteHead
  PROVE  IInv'
<1>1. UNCHANGED <<next, chain, pc, item, lhead, ltail, lnext, unsent>>
  BY DEF Destroy, Drain, DeleteHead, list, locals, life
<1>2. LocalsSet' /\ NextKept' /\ Fresh'
  BY <1>1 DEF IInv, LocalsSet, NextKept, Fresh
<1>3. \A t \in Threads : pc[t] = "idle"
  BY DEF Destroy, Drain, DeleteHead, IInv, Destroying
<1>4. LocalsLinked'
  BY <1>1, <1>3 DEF IInv, LocalsSet, LocalsLinked
<1>5. CASE Destroy \/ DeleteHead
  <2>1. UNCHANGED list
    BY <1>5 DEF Destroy, DeleteHead
  <2>2. Linked'
    BY <2>1, LinkedKept DEF IInv
  <2>3. TypeOK' /\ Destroying'
    BY <1>3, <1>5, ListType DEF Destroy, DeleteHead, IInv, TypeOK, Destroying, list, locals
  <2> QED
    BY <1>2, <1>4, <2>2, <2>3 DEF IInv
<1>6. CASE Drain
  <2> DEFINE n == next[head.ptr].ptr
  <2>1. n \in Nodes /\ head.count \in Nat /\ tail.count \in Nat /\ NextPtr[head.ptr] = n
    BY <1>6, ListType, PointersType DEF Drain, IInv, TypeOK, NextPtr
  <2>2. /\ head' \in Pointers /\ head'.ptr = n /\ tail' \in Pointers
        /\ tail'.ptr = IF tail.ptr = head.ptr THEN n ELSE tail.ptr
    BY <1>6, <2>1, PointerType DEF Drain, IInv, TypeOK
  <2>3. TypeOK'
    BY <1>1, <1>6, <2>1, <2>2, ListType DEF Drain, IInv, TypeOK, locals, life
  <2>4. chain \in Seq(Nodes) /\ NoRepeat(chain) /\ Before(chain, head.ptr, tail.ptr)
    BY ListType DEF IInv, Linked
  <2>5. Follows(chain, head.ptr, n)
    BY <1>6, <2>1, <2>4, ReadNext DEF Drain, IInv, Linked
  <2>6. Before(chain, n, tail'.ptr) /\ LastTwo(chain, tail'.ptr)
    <3>1. CASE tail.ptr = head.ptr
      <4>1. LastTwo(chain, n)
        BY <2>4, <2>5, <3>1, FollowsLastTwo DEF IInv, Linked
      <4> QED
        BY <2>2, <3>1, <4>1 DEF LastTwo, Before
    <3>2. CASE tail.ptr # head.ptr
      BY <2>2, <2>4, <2>5, <3>2, FollowsBefore DEF IInv, Linked
    <3> QED
      BY <3>1, <3>2
  <2>7. Linked'
    BY <1>1, <2>2, <2>6 DEF IInv, Linked, Unlinked, NextPtr
  <2>8. Destroying'
    BY <1>3, <1>6 DEF Drain, IInv, Destroying, life
  <2> QED
    BY <1>2, <1>4, <2>3, <2>7, <2>8 DEF IInv
<1> QED
  BY <1>5, <1>6

----------------------------------------------------------------------------
(* The invariant *)

LEMMA InvInit == Init => IInv
BY TypesInit, ListInit DEF IInv

LEMMA InvNext == IInv /\ [Next]_vars => IInv'
<1> SUFFICES ASSUME IInv, [Next]_vars PROVE IInv'
  OBVIOUS
<1>1. ASSUME NEW t \in Threads, Call(t) PROVE IInv'
  BY <1>1, TypesCall, ShapeCall DEF IInv, Shape
<1>2. ASSUME NEW t \in Threads, Enqueue(t) PROVE IInv'
  <2>1. dtor = "live" /\ TypeOK' /\ LocalsSet'
    BY <1>2, Live, TypesEnqueue
  <2>2. Shape'
    BY <1>2, <2>1, ShapeEnqReads, ShapeE9, ShapeHelps DEF Enqueue
  <2> QED
    BY <2>1, <2>2 DEF IInv, Shape
<1>3. ASSUME NEW t \in Threads, Dequeue(t) PROVE IInv'
  <2>1. dtor = "live" /\ TypeOK' /\ LocalsSet'
    BY <1>3, Live, TypesDequeue
  <2>2. Shape'
    BY <1>3, <2>1, ShapeDeqReads, ShapeDeqCheck, ShapeHelps, ShapeD13 DEF Dequeue
  <2> QED
    BY <2>1, <2>2 DEF IInv, Shape
<1>4. CASE UNCHANGED vars
  BY <1>4, LinkedKept
  DEF IInv, TypeOK, LocalsSet, LocalsLinked, NextKept, Fresh, Destroying, vars, list, locals, life
<1> QED
  BY <1>1, <1>2, <1>3, <1>4, InvDestructor DEF Next, Gone

LEMMA Invariant == Spec => []IInv
BY InvInit, InvNext, PTL DEF Spec

\* Every variable of MSQueue keeps its type, Head and Tail are never null, and
\* the counts stay below CountMod.
THEOREM TypeCorrect == Spec => []TypeOK
BY Invariant, PTL DEF IInv

\* The list holds the nodes in the order they were linked, Head never passes
\* Tail, and Tail is the last node or the one before it.
THEOREM ListKeepsShape == Spec => []ListShape
<1>1. IInv => ListShape
  <2> SUFFICES ASSUME IInv PROVE ListShape
    OBVIOUS
  <2>1. /\ chain \in Seq(Nodes) /\ NoRepeat(chain) /\ Spells(chain, NextPtr, Null)
        /\ Before(chain, head.ptr, tail.ptr) /\ LastTwo(chain, tail.ptr)
    BY ListType DEF IInv, Linked
  <2>2. ASSUME NEW i \in 1..Len(chain)
        PROVE  next[chain[i]].ptr = IF i = Len(chain) THEN Null ELSE chain[i + 1]
    <3>1. chain[i] \in Nodes
      BY <2>1
    <3> QED
      BY <2>1, <3>1 DEF Spells, NextPtr
  <2>3. PICK h, k \in 1..Len(chain) : chain[h] = head.ptr /\ chain[k] = tail.ptr /\ h <= k
    BY <2>1 DEF Before
  <2>4. Len(chain) <= k + 1
    BY <2>1, <2>3 DEF LastTwo, NoRepeat
  <2> QED
    BY <2>2, <2>3, <2>4 DEF ListShape
<1> QED
  BY <1>1, Invariant, PTL

\* No call follows a null or a freed pointer.  In particular the next pointer
\* that D5 lets through without a null test is not null at D13.
THEOREM MemoryIsSafe == Spec => []MemorySafe
<1>1. IInv => MemorySafe
  <2> SUFFICES ASSUME IInv, NEW t \in Threads PROVE Deref(t) \intersect (freed \union {Null}) = {}
    BY DEF MemorySafe
  <2>1. CASE pc[t] = "idle"
    BY <2>1 DEF Deref
  <2>2. CASE pc[t] # "idle"
    <3>1. freed = {}
      BY <2>2 DEF IInv, Destroying
    <3>2. Null \notin Deref(t)
      BY DEF Deref, IInv, LocalsSet
    <3> QED
      BY <3>1, <3>2
  <2> QED
    BY <2>1, <2>2
<1> QED
  BY <1>1, Invariant, PTL

----------------------------------------------------------------------------
(* Linearizability: the refinement of FifoQueue *)

\* What the refinement maps the variables of FifoQueue to.
ValOf(t) == IF StageOf(t) \in {"enq", "enqDone", "deqDone"} THEN item[t] ELSE Null
Stage == [t \in Threads |-> StageOf(t)]
Val == [t \in Threads |-> ValOf(t)]
Queue == Rest(chain, head.ptr)

LEMMA QueueIs == Queue = SubSeq(chain, Pos(head.ptr) + 1, Len(chain))
<1>1. Pos(head.ptr) = Position(chain, head.ptr)
  BY Zenon DEF Position, Pos
<1> QED
  BY <1>1 DEF Queue, Rest

LEMMA QueueIsNext == Queue' = SubSeq(chain, Pos(head.ptr) + 1, Len(chain))'
<1>1. Pos(head.ptr)' = Position(chain', head'.ptr)
  BY Zenon DEF Position, Pos
<1> QED
  BY <1>1 DEF Queue, Rest

\* Thread t alone makes a step.
Alone(t) ==
  \A u \in Threads \ {t} :
    /\ pc'[u] = pc[u] /\ item'[u] = item[u] /\ lhead'[u] = lhead[u]
    /\ ltail'[u] = ltail[u] /\ lnext'[u] = lnext[u]

\* A step of thread t alone changes the stage and the value of thread t alone.
LEMMA StageStep ==
  ASSUME NEW t \in Threads, Alone(t)
  PROVE  Stage' = [Stage EXCEPT ![t] = StageOf(t)'] /\ Val' = [Val EXCEPT ![t] = ValOf(t)']
<1>1. \A u \in Threads \ {t} : StageOf(u)' = StageOf(u)
  BY DEF StageOf, Alone
<1>2. \A u \in Threads \ {t} : ValOf(u)' = ValOf(u)
  BY <1>1 DEF ValOf, Alone
<1> QED
  BY <1>1, <1>2 DEF Stage, Val

\* A step that passes no stage and leaves the queue alone is no step of FifoQueue.
LEMMA Silent ==
  ASSUME NEW t \in Threads, Alone(t), StageOf(t)' = StageOf(t), ValOf(t)' = ValOf(t),
         UNCHANGED <<chain, head>>
  PROVE  UNCHANGED Fifo!vars
<1>1. Stage' = Stage /\ Val' = Val
  BY StageStep DEF Stage, Val
<1>2. Queue' = Queue
  BY DEF Queue
<1> QED
  BY <1>1, <1>2, QueueIs, QueueIsNext DEF Fifo!vars, Stage, Val, ValOf

LEMMA FifoCall ==
  ASSUME IInv, NEW t \in Threads, Call(t)
  PROVE  Fifo!Next
<1>1. CASE CallDequeue(t)
  <2>1. /\ StageOf(t) = "idle" /\ StageOf(t)' = "deq" /\ ValOf(t)' = ValOf(t)
        /\ Alone(t) /\ UNCHANGED <<chain, head>>
    BY <1>1 DEF CallDequeue, list, locals, StageOf, ValOf, Alone, IInv, TypeOK
  <2>2. Stage' = [Stage EXCEPT ![t] = "deq"] /\ Stage[t] = "idle" /\ Val' = Val
    BY <2>1, StageStep DEF Stage, Val
  <2>3. Queue' = Queue
    BY <2>1 DEF Queue
  <2>4. Fifo!CallDequeue(t)
    BY <2>2, <2>3, QueueIs, QueueIsNext DEF Fifo!CallDequeue, Fifo!Pass, Stage, Val, ValOf
  <2> QED
    BY <2>4 DEF Fifo!Next
<1>2. ASSUME NEW x \in Items, CallEnqueue(t, x)
      PROVE  Fifo!Next
  <2>1. /\ StageOf(t) = "idle" /\ StageOf(t)' = "enq" /\ ValOf(t)' = x
        /\ Alone(t) /\ UNCHANGED <<chain, head>>
    BY <1>2 DEF CallEnqueue, list, StageOf, ValOf, Alone, IInv, TypeOK
  <2>2. Stage' = [Stage EXCEPT ![t] = "enq"] /\ Stage[t] = "idle" /\ Val' = [Val EXCEPT ![t] = x]
    BY <2>1, StageStep DEF Stage
  <2>3. Queue' = Queue
    BY <2>1 DEF Queue
  <2>4. Fifo!CallEnqueue(t, x)
    BY <2>2, <2>3, QueueIs, QueueIsNext DEF Fifo!CallEnqueue, Fifo!Pass, Stage, Val, ValOf
  <2> QED
    BY <2>4 DEF Fifo!Next
<1> QED
  BY <1>1, <1>2 DEF Call

\* The enqueue takes effect when its compare-and-swap links the node.
LEMMA FifoEnqueue ==
  ASSUME IInv, IInv', NEW t \in Threads, Enqueue(t)
  PROVE  Fifo!Next \/ UNCHANGED Fifo!vars
<1>1. CASE E5(t) \/ E6(t)
  BY <1>1, Silent DEF E5, E6, list, StageOf, ValOf, Alone, IInv, TypeOK
<1>2. CASE E7(t) \/ E13(t)
  BY <1>2, Silent
  DEF E7, E13, Again, DropLocals, list, locals, StageOf, ValOf, Alone, IInv, TypeOK
<1>3. CASE E9(t)
  <2>1. CASE Again(t, "E9", "E5") /\ UNCHANGED <<next, chain>>
    BY <1>3, <2>1, Silent DEF E9, Again, DropLocals, StageOf, ValOf, Alone, IInv, TypeOK
  <2>2. CASE /\ Goto(t, "E9", "E17") /\ UNCHANGED locals
             /\ chain' = Append(chain, item[t])
    <3>1. /\ StageOf(t) = "enq" /\ StageOf(t)' = "enqDone" /\ ValOf(t) = item[t]
          /\ ValOf(t)' = ValOf(t) /\ Alone(t) /\ head' = head
      BY <1>3, <2>2 DEF E9, locals, StageOf, ValOf, Alone, IInv, TypeOK
    <3>2. /\ Stage' = [Stage EXCEPT ![t] = "enqDone"] /\ Stage[t] = "enq"
          /\ Val' = Val /\ Val[t] = item[t]
      BY <3>1, StageStep DEF Stage, Val
    <3>3. /\ item[t] \in Nodes /\ ~Has(chain, item[t]) /\ Has(chain, head.ptr)
          /\ chain \in Seq(Nodes) /\ NoRepeat(chain)
      BY <2>2 DEF IInv, TypeOK, LocalsSet, Fresh, Linked, Before, Has
    <3>4. Queue' = Append(Queue, item[t])
      BY <2>2, <3>1, <3>3, RestAppend DEF Queue
    <3>5. Fifo!CommitEnqueue(t)
      BY <3>2, <3>4, QueueIs, QueueIsNext DEF Fifo!CommitEnqueue, Fifo!Pass, Stage, Val, ValOf
    <3> QED
      BY <3>5 DEF Fifo!Next
  <2> QED
    BY <1>3, <2>1, <2>2 DEF E9
<1>4. CASE E17(t)
  <2>1. /\ StageOf(t) = "enqDone" /\ StageOf(t)' = "idle" /\ ValOf(t)' = Null
        /\ Alone(t) /\ UNCHANGED <<chain, head>>
    BY <1>4 DEF E17, Return, DropLocals, StageOf, ValOf, Alone, IInv, TypeOK
  <2>2. Stage' = [Stage EXCEPT ![t] = "idle"] /\ Stage[t] = "enqDone" /\ Val' = [Val EXCEPT ![t] = Null]
    BY <2>1, StageStep DEF Stage
  <2>3. Queue' = Queue
    BY <2>1 DEF Queue
  <2>4. Fifo!ReturnEnqueue(t)
    BY <2>2, <2>3, QueueIs, QueueIsNext DEF Fifo!ReturnEnqueue, Fifo!Pass, Stage, Val, ValOf
  <2> QED
    BY <2>4 DEF Fifo!Next
<1> QED
  BY <1>1, <1>2, <1>3, <1>4 DEF Enqueue

\* When D4 reads a null next, Head is still where D2 saw it, and the last node.
LEMMA EmptySeen ==
  ASSUME IInv, NEW t \in Threads, pc[t] = "D4", next[lhead[t].ptr].ptr = Null
  PROVE  Queue = <<>>
<1>1. /\ lhead[t].ptr \in Nodes /\ Before(chain, lhead[t].ptr, head.ptr)
      /\ NextPtr[lhead[t].ptr] = Null
  BY PointersType DEF IInv, TypeOK, LocalsSet, LocalsLinked, NextPtr
<1>2. /\ chain \in Seq(Nodes) /\ Null \notin Nodes /\ NoRepeat(chain)
      /\ Spells(chain, NextPtr, Null)
  BY ListType DEF IInv, Linked
<1>3. lhead[t].ptr = head.ptr /\ chain # <<>> /\ lhead[t].ptr = chain[Len(chain)]
  BY ONLY <1>1, <1>2, LinkAtEnd
<1> QED
  BY <1>2, <1>3, RestLast DEF Queue

\* The dequeue takes effect when its compare-and-swap moves Head; one that
\* returns false, when it read a null next, unless the test of Head that
\* follows sends it round again.
LEMMA FifoDequeue ==
  ASSUME IInv, IInv', NEW t \in Threads, Dequeue(t)
  PROVE  Fifo!Next \/ UNCHANGED Fifo!vars
<1>1. CASE D2(t) \/ D3(t)
  BY <1>1, Silent DEF D2, D3, list, StageOf, ValOf, Alone, IInv, TypeOK
<1>2. CASE D4(t)
  <2>1. /\ pc[t] = "D4" /\ pc'[t] = "D5" /\ StageOf(t) = "deq" /\ ValOf(t) = Null
        /\ Alone(t) /\ UNCHANGED <<chain, head>>
    BY <1>2 DEF D4, list, StageOf, ValOf, Alone, IInv, TypeOK
  <2>2. CASE StageOf(t)' = "deq"
    BY <2>1, <2>2, Silent DEF ValOf
  <2>3. CASE StageOf(t)' = "deqEmpty"
    <3>1. next[lhead[t].ptr].ptr = Null
      BY <1>2, <2>1, <2>3 DEF D4, StageOf, IInv, TypeOK
    <3>2. Queue = <<>> /\ Queue' = Queue
      <4>1. Queue = <<>>
        BY <2>1, <3>1, EmptySeen
      <4> QED
        BY <2>1, <4>1 DEF Queue
    <3>3. Stage' = [Stage EXCEPT ![t] = "deqEmpty"] /\ Stage[t] = "deq" /\ Val' = Val
      BY <2>1, <2>3, StageStep DEF Stage, Val, ValOf
    <3>4. Fifo!ObserveEmpty(t)
      BY <3>2, <3>3, QueueIs, QueueIsNext DEF Fifo!ObserveEmpty, Fifo!Pass, Stage, Val, ValOf
    <3> QED
      BY <3>4 DEF Fifo!Next
  <2> QED
    BY <2>1, <2>2, <2>3 DEF StageOf
<1>3. CASE D5(t)
  <2>1. /\ pc[t] = "D5" /\ ValOf(t) = Null /\ ValOf(t)' = Null /\ StageOf(t)' = "deq"
        /\ Alone(t) /\ UNCHANGED <<chain, head>>
    BY <1>3 DEF D5, Again, DropLocals, list, locals, StageOf, ValOf, Alone, IInv, TypeOK
  <2>2. CASE StageOf(t) = "deq"
    BY <2>1, <2>2, Silent
  <2>3. CASE StageOf(t) = "deqEmpty"
    <3>1. Stage' = [Stage EXCEPT ![t] = "deq"] /\ Stage[t] = "deqEmpty" /\ Val' = Val
      BY <2>1, <2>3, StageStep DEF Stage, Val
    <3>2. Queue' = Queue
      BY <2>1 DEF Queue
    <3>3. Fifo!Retry(t)
      BY <3>1, <3>2, QueueIs, QueueIsNext DEF Fifo!Retry, Fifo!Pass, Stage, Val, ValOf
    <3> QED
      BY <3>3 DEF Fifo!Next
  <2> QED
    BY <2>1, <2>2, <2>3 DEF StageOf
<1>4. CASE D8(t)
  <2>1. /\ StageOf(t) = "deqEmpty" /\ StageOf(t)' = "idle" /\ ValOf(t) = Null /\ ValOf(t)' = Null
        /\ Alone(t) /\ UNCHANGED <<chain, head>>
    BY <1>4 DEF D8, Return, DropLocals, list, StageOf, ValOf, Alone, IInv, TypeOK
  <2>2. Stage' = [Stage EXCEPT ![t] = "idle"] /\ Stage[t] = "deqEmpty" /\ Val' = Val
    BY <2>1, StageStep DEF Stage, Val
  <2>3. Queue' = Queue
    BY <2>1 DEF Queue
  <2>4. Fifo!ReturnEmpty(t)
    BY <2>2, <2>3, QueueIs, QueueIsNext DEF Fifo!ReturnEmpty, Fifo!Pass, Stage, Val, ValOf
  <2> QED
    BY <2>4 DEF Fifo!Next
<1>5. CASE D10(t)
  BY <1>5, Silent DEF D10, Again, DropLocals, StageOf, ValOf, Alone, IInv, TypeOK
<1>6. CASE D13(t)
  <2>1. CASE Again(t, "D13", "D2") /\ UNCHANGED head
    BY <1>6, <2>1, Silent DEF D13, Again, DropLocals, StageOf, ValOf, Alone, IInv, TypeOK
  <2>2. CASE /\ head = lhead[t] /\ Goto(t, "D13", "D20") /\ DropLocals(t)
             /\ head' = Pointer(lnext[t].ptr, lhead[t].count + 1)
             /\ item' = [item EXCEPT ![t] = lnext[t].ptr]
    <3> DEFINE n == lnext[t].ptr
    <3>1. /\ StageOf(t) = "deq" /\ StageOf(t)' = "deqDone" /\ ValOf(t)' = n
          /\ Alone(t) /\ chain' = chain
      BY <1>6, <2>2 DEF D13, DropLocals, StageOf, ValOf, Alone, IInv, TypeOK
    <3>2. /\ Stage' = [Stage EXCEPT ![t] = "deqDone"] /\ Stage[t] = "deq"
          /\ Val' = [Val EXCEPT ![t] = n]
      BY <3>1, StageStep DEF Stage
    <3>3. /\ chain \in Seq(Nodes) /\ NoRepeat(chain) /\ n # Null
          /\ Follows(chain, head.ptr, n)
      BY <2>2, ListType DEF IInv, LocalsSet, Linked, NextKept
    <3>4. head'.ptr = n
      <4>1. n \in Nodes /\ lhead[t].count \in Nat
        BY <3>3, PointersType DEF IInv, TypeOK
      <4> QED
        BY <2>2, <4>1, PointerType
    <3>5. Queue # <<>> /\ Head(Queue) = n /\ Queue' = Tail(Queue)
      BY <3>1, <3>3, <3>4, RestFollows DEF Queue
    <3>6. Fifo!CommitDequeue(t)
      BY <3>2, <3>5, QueueIs, QueueIsNext DEF Fifo!CommitDequeue, Fifo!Pass, Stage, Val, ValOf
    <3> QED
      BY <3>6 DEF Fifo!Next
  <2> QED
    BY <1>6, <2>1, <2>2 DEF D13
<1>7. CASE D20(t)
  <2>1. /\ StageOf(t) = "deqDone" /\ StageOf(t)' = "idle" /\ ValOf(t)' = Null
        /\ Alone(t) /\ UNCHANGED <<chain, head>>
    BY <1>7 DEF D20, Return, DropLocals, list, StageOf, ValOf, Alone, IInv, TypeOK
  <2>2. Stage' = [Stage EXCEPT ![t] = "idle"] /\ Stage[t] = "deqDone" /\ Val' = [Val EXCEPT ![t] = Null]
    BY <2>1, StageStep DEF Stage
  <2>3. Queue' = Queue
    BY <2>1 DEF Queue
  <2>4. Fifo!ReturnDequeue(t)
    BY <2>2, <2>3, QueueIs, QueueIsNext DEF Fifo!ReturnDequeue, Fifo!Pass, Stage, Val, ValOf
  <2> QED
    BY <2>4 DEF Fifo!Next
<1> QED
  BY <1>1, <1>2, <1>3, <1>4, <1>5, <1>6, <1>7 DEF Dequeue

LEMMA FifoInit == Init => Fifo!Init
<1> SUFFICES ASSUME Init PROVE Fifo!Init
  OBVIOUS
<1>1. Queue = <<>>
  <2>1. /\ chain \in Seq(Nodes) /\ NoRepeat(chain) /\ chain # <<>>
        /\ head.ptr = chain[Len(chain)]
    BY InvInit, PointerType DEF Init, IInv, TypeOK, Linked
  <2> QED
    BY <2>1, RestLast DEF Queue
<1>2. Stage = [t \in Threads |-> "idle"] /\ Val = [t \in Threads |-> Null]
  BY DEF Init, Stage, StageOf, Val, ValOf
<1> QED
  BY <1>1, <1>2, QueueIs DEF Fifo!Init, Stage, Val, ValOf

LEMMA FifoNext ==
  IInv /\ IInv' /\ [Next]_vars => [dtor = "live" => Fifo!Next \/ UNCHANGED Fifo!vars]_vars
<1> SUFFICES ASSUME IInv, IInv', Next, dtor = "live" PROVE Fifo!Next \/ UNCHANGED Fifo!vars
  OBVIOUS
<1>1. CASE Destroy
  <2>1. UNCHANGED <<chain, head, pc, item, lhead, ltail, lnext>>
    BY <1>1 DEF Destroy, list, locals
  <2>2. Queue' = Queue /\ Stage' = Stage /\ Val' = Val
    BY <2>1 DEF Queue, Stage, StageOf, Val, ValOf
  <2> QED
    BY <2>2, QueueIs, QueueIsNext DEF Fifo!vars, Stage, Val, ValOf
<1>2. CASE Drain \/ DeleteHead \/ Gone
  BY <1>2 DEF Drain, DeleteHead, Gone
<1> QED
  BY <1>1, <1>2, FifoCall, FifoEnqueue, FifoDequeue DEF Next

\* MSQueue implements FifoQueue until its destructor runs: every call takes
\* effect at one instant between its call and its return, in FIFO order, and a
\* dequeue that returns false saw the queue empty.
THEOREM IsLinearizable == Spec => Linearizable
BY Invariant, InvNext, FifoInit, FifoNext, PTL DEF Spec, Linearizable

=============================================================================
