--------------------------- MODULE PLJQueueProofs ---------------------------
(***************************************************************************)
(* Proofs about PLJQueue for any number of threads and items.              *)
(*                                                                         *)
(* The algorithm relies on its counters: a compare-and-swap succeeds only  *)
(* if the word has not changed since it was read.  A counter that wraps    *)
(* ends that, so FigureTwo, LinkCounted and Linearizable are proved for    *)
(* the time until one has reached its last value (NoWrap); TypeOK needs no *)
(* such condition.  A budget of two updates per object bounds the counters *)
(* (Budget), so that NoWrap holds for ever if there are fewer than half as *)
(* many objects as a counter has values.                                   *)
(*                                                                         *)
(* The inductive invariant says of each thread what follows from the words *)
(* it has read for as long as they have not changed (Known): with the tail *)
(* unchanged the node behind it is the last, with the head unchanged an    *)
(* empty queue is still empty, and so on for every state of Figure 2.  It  *)
(* is kept in two layers: each successful compare-and-swap is one of nine  *)
(* moves of the queue (Moves), and each move keeps the shape and tells     *)
(* what the other threads can rely on (Evolves).                           *)
(***************************************************************************)
EXTENDS PLJQueue, Lists, FiniteSetTheorems, TLAPS

----------------------------------------------------------------------------
(* Lists *)

LEMMA AppendType ==
  ASSUME NEW S, NEW s \in Seq(S), NEW x \in S
  PROVE  Append(s, x) \in Seq(S)
OBVIOUS

LEMMA FollowsLastTwo ==
  ASSUME NEW S, NEW c \in Seq(S), NoRepeat(c), NEW m, NEW n,
         Follows(c, m, n), LastTwo(c, m)
  PROVE  LastTwo(c, n)
BY DEF Follows, LastTwo, NoRepeat

\* The first node comes after no other.
LEMMA FollowsNotFirst ==
  ASSUME NEW S, NEW c \in Seq(S), NoRepeat(c), NEW m, NEW n, Follows(c, m, n)
  PROVE  n \in S /\ n # c[1]
BY DEF Follows, NoRepeat

\* What is true of c stays true when x is appended to it.
LEMMA AppendKeeps ==
  ASSUME NEW S, NEW c \in Seq(S), NEW x \in S, NEW m, NEW n
  PROVE  /\ Before(c, m, n) => Before(Append(c, x), m, n)
         /\ Follows(c, m, n) => Follows(Append(c, x), m, n)
         /\ Has(Append(c, x), m) <=> Has(c, m) \/ m = x
BY DEF Before, Follows, Has

\* Linking a new node x behind the last one.
LEMMA LinkLast ==
  ASSUME NEW S, NEW c \in Seq(S), c # <<>>, NoRepeat(c), NEW x \in S, ~Has(c, x),
         NEW null, NEW p \in [S -> S \union {null}], Spells(c, p, null), p[x] = null
  PROVE  /\ NoRepeat(Append(c, x))
         /\ Spells(Append(c, x), [p EXCEPT ![c[Len(c)]] = x], null)
         /\ Follows(Append(c, x), c[Len(c)], x)
         /\ LastTwo(Append(c, x), c[Len(c)])
<1> DEFINE d == Append(c, x)
<1>1. Len(d) = Len(c) + 1 /\ Len(c) >= 1 /\ Len(c) \in Nat
  OBVIOUS
<1>2. d[Len(d)] = x /\ \A i \in 1..Len(c) : d[i] = c[i] /\ c[i] \in S
  OBVIOUS
<1>3. \A i \in 1..Len(c) : c[i] # x
  BY DEF Has
<1> HIDE DEF d
<1>4. NoRepeat(d)
  BY <1>1, <1>2, <1>3 DEF NoRepeat
<1>5. Spells(d, [p EXCEPT ![c[Len(c)]] = x], null)
  BY <1>1, <1>2, <1>3 DEF Spells, NoRepeat
<1>6. Follows(d, c[Len(c)], x) /\ LastTwo(d, c[Len(c)])
  BY <1>1, <1>2 DEF Follows, LastTwo
<1> QED
  BY <1>4, <1>5, <1>6 DEF d

\* A pointer of a node outside the list may change.
LEMMA SpellsOther ==
  ASSUME NEW S, NEW c \in Seq(S), NEW null, NEW p \in [S -> S \union {null}],
         Spells(c, p, null), NEW x, ~Has(c, x), NEW y
  PROVE  Spells(c, [p EXCEPT ![x] = y], null)
BY DEF Spells, Has

\* What the rest of a list keeps when its first node is taken off.
LEMMA TailKeeps ==
  ASSUME NEW S, NEW c \in Seq(S), c # <<>>
  PROVE  /\ Tail(c) \in Seq(S) /\ Len(Tail(c)) = Len(c) - 1
         /\ \A i \in 1..(Len(c) - 1) : Tail(c)[i] = c[i + 1]
OBVIOUS

\* Taking the first node off a list without repetition: the rest is spelled
\* by the same pointers, and has every node but the first.
LEMMA UnlinkFirst ==
  ASSUME NEW S, NEW c \in Seq(S), c # <<>>, NoRepeat(c),
         NEW null, NEW p, Spells(c, p, null)
  PROVE  /\ NoRepeat(Tail(c)) /\ Spells(Tail(c), p, null)
         /\ \A n : Has(Tail(c), n) <=> Has(c, n) /\ n # c[1]
<1> DEFINE d == Tail(c)
<1>1. /\ d \in Seq(S) /\ Len(d) = Len(c) - 1 /\ Len(c) \in Nat \ {0}
      /\ \A i \in 1..(Len(c) - 1) : d[i] = c[i + 1]
  BY TailKeeps
<1> HIDE DEF d
<1>2. NoRepeat(d)
  BY <1>1 DEF NoRepeat
<1>3. Spells(d, p, null)
  BY <1>1 DEF Spells
<1>4. ASSUME NEW n PROVE Has(d, n) <=> Has(c, n) /\ n # c[1]
  <2>1. Has(d, n) => Has(c, n) /\ n # c[1]
    BY <1>1 DEF Has, NoRepeat
  <2>2. ASSUME NEW i \in 1..Len(c), c[i] = n, n # c[1] PROVE Has(d, n)
    <3>1. i - 1 \in 1..Len(d) /\ d[i - 1] = n
      BY <1>1, <2>2
    <3> QED
      BY <3>1 DEF Has
  <2> QED
    BY <2>1, <2>2 DEF Has
<1> QED
  BY <1>2, <1>3, <1>4 DEF d

----------------------------------------------------------------------------

NextPtr == [x \in Items |-> next[x].ptr]

----------------------------------------------------------------------------
(* What the locals hold, whatever the counters do *)

\* The call of thread t is an enqueue that has not taken effect, a dequeue
\* that has taken its object.
Enqueuing(t) == op[t] = "enq" /\ pc[t] \notin {"linkTail", "claimHead"}
Took(t) == pc[t] \in {"markTail", "markHead", "delinkLoad", "delinkStore"}

LocalsSet ==
  \A t \in Threads :
    /\ pc[t] = "idle" => op[t] = "deq"
    /\ pc[t] \in EnqueuePcs => op[t] = "enq"
    /\ pc[t] \in DequeuePcs => op[t] = "deq"
    /\ op[t] = "enq" => item[t] # Null
    /\ op[t] = "deq" /\ ~Took(t) => item[t] = Null
    /\ pc[t] \in {"snapNext", "link", "linkTail", "helpTail", "reload", "nullTail",
                  "helpHead", "deqLoad", "deqSwing", "mark", "markTail"} => ptail[t].ptr # Null
    /\ pc[t] \in {"link", "nullTail", "nullHead", "deqLoad", "deqSwing",
                  "mark", "markTail", "markHead"} => phead[t].ptr # Null
    /\ pc[t] \in {"deqLoad", "deqSwing"} => ptail[t].ptr # phead[t].ptr
    /\ pc[t] \in {"link", "mark"} => pnext[t].ptr = Null
    /\ pc[t] \in {"mark", "markTail"} => phead[t].ptr = ptail[t].ptr
    /\ pc[t] = "mark" => pnext[t].mark = "ENQ"
    /\ pc[t] \in {"reload"} => pnext[t].ptr # Null
    /\ pc[t] \in {"claimTail", "claimHead", "helpHead"} => phead[t].ptr = Null
    /\ pc[t] = "claimTail" => ptail[t].ptr = Null
    /\ pc[t] \in {"markTail", "markHead"} => item[t] = phead[t].ptr

----------------------------------------------------------------------------
(* The queue *)

\* Figure 2, with what it needs to be kept.
Empty ==
  /\ contents = <<>>
  /\ head.ptr = Null => tail.ptr = Null
  /\ tail.ptr # Null => tail.ptr = head.ptr /\ next[head.ptr].ptr = Null
                                            /\ next[head.ptr].mark = "DEQ"

Full ==
  /\ contents # <<>>
  /\ NoRepeat(contents) /\ Spells(contents, NextPtr, Null)
  /\ next[Last].mark = "ENQ"
  /\ LastTwo(contents, tail.ptr)
  /\ head.ptr = contents[1] \/ (head.ptr = Null /\ Len(contents) = 1)

\* The object x is in no word of the queue.
Outside(x) == ~Has(contents, x) /\ head.ptr # x /\ tail.ptr # x
Unlinked(x) == next[x].ptr = Null /\ next[x].mark = "ENQ"

\* Objects that are not in the queue belong to one call at most.
Private ==
  /\ \A x \in unsent : Outside(x) /\ Unlinked(x)
  /\ \A t \in Threads : Enqueuing(t) => Outside(item[t]) /\ Unlinked(item[t])
  /\ \A t \in Threads : Took(t) => ~Has(contents, item[t])
  /\ \A t \in Threads : Enqueuing(t) \/ Took(t) =>
       /\ item[t] \notin unsent
       /\ \A u \in Threads \ {t} : Enqueuing(u) \/ Took(u) => item[u] # item[t]

----------------------------------------------------------------------------
(* What a thread knows *)

\* The word has not changed since thread t read it.
SameHead(t) == head = phead[t]
SameTail(t) == tail = ptail[t]
SameNext(t) == next[ptail[t].ptr] = pnext[t]

HeadPcs == (SnapshotPcs \ {"snapHead"}) \union HelpPcs \union EnqueuePcs
           \union {"reload", "deqLoad", "deqSwing", "mark", "markTail", "markHead"}
TailPcs == HeadPcs \ {"snapTail"}

\* Counters only grow, so a word that has changed stays different.
Counted(t) ==
  /\ pc[t] \in HeadPcs => /\ phead[t].counter <= head.counter
                          /\ phead[t].counter = head.counter => SameHead(t)
  /\ pc[t] \in TailPcs => /\ ptail[t].counter <= tail.counter
                          /\ ptail[t].counter = tail.counter => SameTail(t)
  /\ pc[t] \in {"snapTail2", "snapHead2", "link", "mark"} /\ ptail[t].ptr # Null =>
       /\ pnext[t].counter <= next[ptail[t].ptr].counter
       /\ pnext[t].counter = next[ptail[t].ptr].counter => SameNext(t)

\* The snapshot has read head and tail.
ReadTail(t) ==
  pc[t] \in {"snapNext", "snapTail2", "snapHead2"} /\ SameHead(t) =>
    /\ phead[t].ptr # Null /\ ptail[t].ptr = Null => contents = <<>> /\ tail.ptr = Null
    /\ phead[t].ptr = Null /\ ptail[t].ptr # Null =>
         contents # <<>> /\ contents[1] = ptail[t].ptr
    /\ phead[t].ptr # Null /\ ptail[t].ptr \notin {Null, phead[t].ptr} =>
         contents # <<>> /\ tail.ptr # phead[t].ptr

\* The snapshot has read the link of the last node.  Before the tail is read
\* again it is worth something only if the tail has not changed.
ReadLink(t) ==
  pc[t] \in {"snapTail2", "snapHead2"} /\ ptail[t].ptr # Null
    /\ (pc[t] = "snapTail2" => SameTail(t)) =>
       /\ pnext[t].ptr = Null /\ pnext[t].mark = "ENQ" /\ SameNext(t) =>
            contents # <<>> /\ Last = ptail[t].ptr /\ SameTail(t)
       /\ pnext[t].ptr # Null /\ SameTail(t) =>
            Follows(contents, ptail[t].ptr, pnext[t].ptr)
       /\ pnext[t].ptr = Null /\ pnext[t].mark = "DEQ" =>
            /\ SameTail(t) => contents = <<>>
            /\ SameHead(t) => /\ phead[t].ptr = ptail[t].ptr
                              /\ contents = <<>> /\ (SameTail(t) \/ tail.ptr = Null)

\* After the switch.
Known(t) ==
  /\ pc[t] \in {"link", "mark"} /\ SameNext(t) =>
       contents # <<>> /\ Last = ptail[t].ptr /\ SameTail(t)
  /\ pc[t] = "link" => pnext[t].mark = "ENQ" /\ (SameNext(t) => head.ptr # Null)
  /\ pc[t] = "mark" /\ SameNext(t) => SameHead(t) /\ Len(contents) = 1
  /\ pc[t] = "linkTail" /\ SameTail(t) => Follows(contents, ptail[t].ptr, item[t])
  /\ pc[t] \in {"helpTail", "reload"} /\ SameTail(t) =>
       Follows(contents, ptail[t].ptr, pnext[t].ptr)
  /\ pc[t] = "helpHead" /\ SameHead(t) => contents # <<>> /\ contents[1] = ptail[t].ptr
  /\ pc[t] \in {"nullTail", "markTail"} =>
       /\ SameTail(t) => contents = <<>>
       /\ SameHead(t) => contents = <<>> /\ (SameTail(t) \/ tail.ptr = Null)
  /\ pc[t] \in {"nullHead", "markHead"} /\ SameHead(t) => contents = <<>> /\ tail.ptr = Null
  /\ pc[t] = "claimTail" /\ SameTail(t) => SameHead(t)
  /\ pc[t] = "claimHead" /\ SameHead(t) => contents # <<>> /\ contents[1] = item[t]
  /\ pc[t] \in {"deqLoad", "deqSwing"} /\ SameHead(t) =>
       contents # <<>> /\ tail.ptr # phead[t].ptr
  /\ pc[t] = "deqSwing" /\ SameHead(t) => Follows(contents, phead[t].ptr, pnext[t].ptr)
  /\ pc[t] \in {"markTail", "markHead"} /\ head.ptr = item[t] => SameHead(t)
  /\ pc[t] = "markTail" /\ tail.ptr = item[t] => SameTail(t)
  /\ pc[t] = "markHead" => tail.ptr # item[t]
  /\ pc[t] \in {"delinkLoad", "delinkStore"} => Outside(item[t])
  /\ pc[t] = "delinkStore" => pnext[t] = next[item[t]]

Types == TypeOK /\ LocalsSet

\* The inductive invariant.
IInv ==
  /\ Types /\ (Empty \/ Full) /\ Private
  /\ \A t \in Threads : Counted(t) /\ ReadTail(t) /\ ReadLink(t) /\ Known(t)

\* No counter has reached its last value: none has wrapped.
NoWrap ==
  /\ head.counter # CountMod - 1 /\ tail.counter # CountMod - 1
  /\ \A x \in Items : next[x].counter # CountMod - 1

USE NodeAssumption, CountAssumption
    DEF Goto, Enqueuing, Took, SnapshotPcs, HelpPcs, EnqueuePcs, DequeuePcs

----------------------------------------------------------------------------
(* Types *)

LEMMA IncType ==
  ASSUME NEW c \in Counters
  PROVE  Inc(c) \in Counters /\ (c # CountMod - 1 => Inc(c) = c + 1)
<1>1. c + 1 \in Nat /\ c + 1 <= CountMod /\ (c # CountMod - 1 => c + 1 < CountMod)
  BY DEF Counters
<1>2. \A a \in Nat, m \in Nat \ {0} : a % m \in 0..(m - 1) /\ (a < m => a % m = a)
  OBVIOUS
<1> QED
  BY <1>1, <1>2 DEF Inc, Counters

LEMMA PointerType ==
  ASSUME NEW n \in Items \union {Null}, NEW c \in Counters
  PROVE  /\ Pointer(n, c) \in Pointers /\ Pointer(n, c).ptr = n /\ Pointer(n, c).counter = c
         /\ \A m \in {"ENQ", "DEQ"} :
              /\ Link(n, c, m) \in Links /\ Link(n, c, m).ptr = n
              /\ Link(n, c, m).counter = c /\ Link(n, c, m).mark = m
BY DEF Pointer, Link, Pointers, Links

LEMMA PointersType ==
  /\ \A p \in Pointers : p.ptr \in Items \union {Null} /\ p.counter \in Counters
  /\ \A p \in Links : /\ p.ptr \in Items \union {Null} /\ p.counter \in Counters
                       /\ p.mark \in {"ENQ", "DEQ"}
BY DEF Pointers, Links

LEMMA NullType ==
  /\ Pointer(Null, 0) \in Pointers /\ Pointer(Null, 0).ptr = Null
  /\ Link(Null, 0, "ENQ") \in Links /\ Link(Null, 0, "ENQ").ptr = Null
  /\ Link(Null, 0, "ENQ").mark = "ENQ" /\ 0 \in Counters
<1>1. 0 \in Counters
  BY DEF Counters
<1> QED
  BY <1>1, PointerType

\* The words the next steps use.
LEMMA WordsType ==
  ASSUME TypeOK, NEW t \in Threads
  PROVE  /\ head.ptr \in Items \union {Null} /\ head.counter \in Counters
         /\ tail.ptr \in Items \union {Null} /\ tail.counter \in Counters
         /\ phead[t].ptr \in Items \union {Null} /\ phead[t].counter \in Counters
         /\ ptail[t].ptr \in Items \union {Null} /\ ptail[t].counter \in Counters
         /\ pnext[t].ptr \in Items \union {Null} /\ pnext[t].counter \in Counters
         /\ pnext[t].mark \in {"ENQ", "DEQ"}
         /\ item[t] \in Items \union {Null}
         /\ \A x \in Items : /\ next[x] \in Links /\ next[x].ptr \in Items \union {Null}
                             /\ next[x].counter \in Counters /\ next[x].mark \in {"ENQ", "DEQ"}
BY PointersType DEF TypeOK

\* A compare-and-swap of Shared_head or Shared_tail keeps its type.
LEMMA CasType ==
  ASSUME TypeOK, NEW t \in Threads, NEW n \in Items \union {Null}
  PROVE  /\ CasHead(t, n) => head' \in Pointers
         /\ CasTail(t, n) => tail' \in Pointers
<1>1. Inc(phead[t].counter) \in Counters /\ Inc(ptail[t].counter) \in Counters
  BY WordsType, IncType
<1> QED
  BY <1>1, PointerType DEF CasHead, CasTail, TypeOK

LEMMA DropType ==
  ASSUME TypeOK, NEW t \in Threads, DropPrivate(t)
  PROVE  /\ phead' \in [Threads -> Pointers] /\ ptail' \in [Threads -> Pointers]
         /\ pnext' \in [Threads -> Links]
         /\ \A u \in Threads \ {t} :
              phead'[u] = phead[u] /\ ptail'[u] = ptail[u] /\ pnext'[u] = pnext[u]
BY NullType DEF TypeOK, DropPrivate

LEMMA RestIs ==
  ASSUME TypeOK
  PROVE  /\ WithoutFirst \in Seq(Items)
         /\ contents # <<>> => WithoutFirst = Tail(contents)
<1>1. Len(contents) \in Nat /\ contents \in Seq(Items)
  BY DEF TypeOK
<1>2. WithoutFirst \in Seq(Items)
  BY <1>1 DEF WithoutFirst
<1>3. contents # <<>> => WithoutFirst = Tail(contents)
  BY <1>1 DEF WithoutFirst
<1> QED
  BY <1>2, <1>3

LEMMA TypesInit == Init => Types
BY NullType DEF Init, Types, TypeOK, LocalsSet

LEMMA TypesCall ==
  ASSUME Types, NEW t \in Threads, Call(t)
  PROVE  Types'
<1> USE DEF Types, TypeOK, LocalsSet, list, private
<1>1. CASE CallDequeue(t)
  BY <1>1 DEF CallDequeue
<1>2. CASE \E x \in Items : CallEnqueue(t, x)
  BY <1>2 DEF CallEnqueue
<1> QED
  BY <1>1, <1>2 DEF Call

\* A call that starts over or returns leaves good locals.
LEMMA TypesAgain ==
  ASSUME Types, NEW t \in Threads, NEW from, Again(t, from), ~Took(t),
         from # "idle"
  PROVE  /\ pc' \in [Threads -> {"idle"} \union SnapshotPcs \union HelpPcs
                                 \union EnqueuePcs \union DequeuePcs]
         /\ \A u \in Threads : Took(u)' => item'[u] # Null
         /\ LocalsSet'
BY DropType DEF Types, TypeOK, LocalsSet, Again

LEMMA TypesReturn ==
  ASSUME Types, NEW t \in Threads, NEW from, Return(t, from)
  PROVE  /\ pc' \in [Threads -> {"idle"} \union SnapshotPcs \union HelpPcs
                                 \union EnqueuePcs \union DequeuePcs]
         /\ op' \in [Threads -> {"enq", "deq"}]
         /\ item' \in [Threads -> Items \union {Null}]
         /\ \A u \in Threads : Took(u)' => item'[u] # Null
         /\ LocalsSet'
BY DropType DEF Types, TypeOK, LocalsSet, Return

\* What each of the states that DetermineState returns says of the snapshot.
LEMMA StateIs ==
  ASSUME TypeOK, NEW t \in Threads
  PROVE  /\ DetermineState(t) \in 1..8
         /\ DetermineState(t) \in {1, 2} => /\ phead[t].ptr # Null /\ ptail[t].ptr # Null
                                            /\ phead[t].ptr # ptail[t].ptr
         /\ DetermineState(t) \in {3, 4, 5} => phead[t].ptr # Null /\ ptail[t].ptr = phead[t].ptr
         /\ DetermineState(t) \in {1, 3, 4} => pnext[t].ptr = Null
         /\ DetermineState(t) \in {2, 5} => pnext[t].ptr # Null
         /\ DetermineState(t) = 3 => pnext[t].mark = "ENQ"
         /\ DetermineState(t) = 4 => pnext[t].mark = "DEQ"
         /\ DetermineState(t) = 6 => phead[t].ptr # Null /\ ptail[t].ptr = Null
         /\ DetermineState(t) = 7 => phead[t].ptr = Null /\ ptail[t].ptr = Null
         /\ DetermineState(t) = 8 => phead[t].ptr = Null /\ ptail[t].ptr # Null
<1>1. pnext[t].mark \in {"ENQ", "DEQ"}
  BY WordsType
<1>2. CASE phead[t].ptr # Null /\ phead[t].ptr = ptail[t].ptr
  BY <1>1, <1>2 DEF DetermineState
<1>3. CASE phead[t].ptr # Null /\ ptail[t].ptr # Null /\ phead[t].ptr # ptail[t].ptr
  BY <1>3 DEF DetermineState
<1>4. CASE phead[t].ptr = Null /\ ptail[t].ptr = Null
  BY <1>4 DEF DetermineState
<1>5. CASE phead[t].ptr # Null /\ ptail[t].ptr = Null
  BY <1>5 DEF DetermineState
<1>6. CASE phead[t].ptr = Null /\ ptail[t].ptr # Null
  BY <1>6 DEF DetermineState
<1> QED
  BY <1>2, <1>3, <1>4, <1>5, <1>6

LEMMA SwitchIs ==
  /\ EnqueueSwitch[1] = "link" /\ EnqueueSwitch[2] = "helpTail" /\ EnqueueSwitch[3] = "link"
  /\ EnqueueSwitch[4] = "nullTail" /\ EnqueueSwitch[5] = "helpTail"
  /\ EnqueueSwitch[6] = "nullHead" /\ EnqueueSwitch[7] = "claimTail"
  /\ EnqueueSwitch[8] = "helpHead"
  /\ DequeueSwitch[1] = "deqLoad" /\ DequeueSwitch[2] = "deqLoad" /\ DequeueSwitch[3] = "mark"
  /\ DequeueSwitch[4] = "nullTail" /\ DequeueSwitch[5] = "reload"
  /\ DequeueSwitch[6] = "nullHead" /\ DequeueSwitch[7] = "empty"
  /\ DequeueSwitch[8] = "helpHead"
BY DEF EnqueueSwitch, DequeueSwitch

\* What the snapshot of thread t was, if the switch leads to k.
Switched(t, k) ==
  LET h == phead[t].ptr
      l == ptail[t].ptr
      n == pnext[t]
  IN  /\ k \in {"link", "claimTail", "deqLoad", "mark", "reload", "empty"} \union
               {"helpTail", "helpHead", "nullTail", "nullHead"}
      /\ k \in {"link", "claimTail"} => op[t] = "enq"
      /\ k \in {"deqLoad", "mark", "reload", "empty"} => op[t] # "enq"
      /\ k = "link" => h # Null /\ l # Null /\ n.ptr = Null /\ (h # l \/ n.mark = "ENQ")
      /\ k = "claimTail" => h = Null /\ l = Null
      /\ k = "deqLoad" => h # Null /\ l \notin {Null, h}
      /\ k = "mark" => h # Null /\ l = h /\ n.ptr = Null /\ n.mark = "ENQ"
      /\ k \in {"helpTail", "reload"} => h # Null /\ l # Null /\ n.ptr # Null
      /\ k = "helpHead" => h = Null /\ l # Null
      /\ k = "nullTail" => h # Null /\ l = h /\ n.ptr = Null /\ n.mark = "DEQ"
      /\ k = "nullHead" => h # Null /\ l = Null
      /\ k = "empty" => h = Null /\ l = Null

LEMMA SwitchTo ==
  ASSUME TypeOK, NEW t \in Threads, NEW k,
         k = IF op[t] = "enq" THEN EnqueueSwitch[DetermineState(t)]
             ELSE DequeueSwitch[DetermineState(t)]
  PROVE  Switched(t, k)
<1> DEFINE s == DetermineState(t)
<1>1. s \in {1, 2, 3, 4, 5, 6, 7, 8}
  BY StateIs
<1>2. /\ s \in {1, 2} => phead[t].ptr # Null /\ ptail[t].ptr # Null /\ phead[t].ptr # ptail[t].ptr
      /\ s \in {3, 4, 5} => phead[t].ptr # Null /\ ptail[t].ptr = phead[t].ptr
      /\ s \in {1, 3, 4} => pnext[t].ptr = Null
      /\ s \in {2, 5} => pnext[t].ptr # Null
      /\ s = 3 => pnext[t].mark = "ENQ"
      /\ s = 4 => pnext[t].mark = "DEQ"
      /\ s = 6 => phead[t].ptr # Null /\ ptail[t].ptr = Null
      /\ s = 7 => phead[t].ptr = Null /\ ptail[t].ptr = Null
      /\ s = 8 => phead[t].ptr = Null /\ ptail[t].ptr # Null
  BY StateIs
<1>3. k = IF op[t] = "enq" THEN EnqueueSwitch[s] ELSE DequeueSwitch[s]
  OBVIOUS
<1> HIDE DEF s
<1>4. CASE op[t] = "enq"
  BY <1>1, <1>2, <1>3, <1>4, SwitchIs DEF Switched
<1>5. CASE op[t] # "enq"
  BY <1>1, <1>2, <1>3, <1>5, SwitchIs DEF Switched
<1> QED
  BY <1>4, <1>5

LEMMA TypesSnapshot ==
  ASSUME Types, NEW t \in Threads, Snapshot(t)
  PROVE  Types'
<1> USE DEF Types, TypeOK, LocalsSet, list, private
<1>1. CASE SnapHead(t)
  BY <1>1 DEF SnapHead
<1>2. CASE SnapTail(t)
  BY <1>2 DEF SnapTail
<1>3. CASE SnapNext(t)
  BY <1>3, WordsType DEF SnapNext
<1>4. CASE SnapTail2(t)
  <2>1. CASE Goto(t, "snapTail2", "snapHead2") /\ UNCHANGED <<ptail, pnext>>
    BY <1>4, <2>1 DEF SnapTail2
  <2>2. CASE /\ Goto(t, "snapTail2", "snapTail")
             /\ ptail' = [ptail EXCEPT ![t] = Pointer(Null, 0)]
             /\ pnext' = [pnext EXCEPT ![t] = Link(Null, 0, "ENQ")]
    BY <1>4, <2>2, NullType DEF SnapTail2
  <2> QED
    BY <1>4, <2>1, <2>2 DEF SnapTail2
<1>5. CASE SnapHead2(t)
  <2>1. CASE Again(t, "snapHead2")
    <3>1. pc[t] = "snapHead2"
      BY <2>1 DEF Again
    <3> QED
      BY <1>5, <2>1, <3>1, TypesAgain, DropType DEF SnapHead2, Again
  <2>2. CASE ~Again(t, "snapHead2")
    <3>1. PICK k : k = IF op[t] = "enq" THEN EnqueueSwitch[DetermineState(t)]
                       ELSE DequeueSwitch[DetermineState(t)]
      OBVIOUS
    <3>2. /\ pc[t] = "snapHead2" /\ pc' = [pc EXCEPT ![t] = k]
          /\ UNCHANGED <<list, op, item, private, unsent>>
      BY <1>5, <2>2, <3>1 DEF SnapHead2
    <3>3. Switched(t, k)
      BY <3>1, SwitchTo
    <3> QED
      BY <3>2, <3>3 DEF Switched
  <2> QED
    BY <2>1, <2>2
<1> QED
  BY <1>1, <1>2, <1>3, <1>4, <1>5 DEF Snapshot

LEMMA TypesHelp ==
  ASSUME Types, NEW t \in Threads, Help(t)
  PROVE  Types'
<1> USE DEF Types, TypeOK, LocalsSet, list, private
<1>1. CASE HelpTail(t)
  BY <1>1, TypesAgain, DropType, CasType, WordsType DEF HelpTail, Again
<1>2. CASE HelpHead(t)
  BY <1>2, TypesAgain, DropType, CasType, WordsType DEF HelpHead, Again
<1>3. CASE NullTail(t)
  BY <1>3, CasType DEF NullTail
<1>4. CASE NullHead(t)
  <2>1. CASE Again(t, "nullHead")
    BY <1>4, <2>1, TypesAgain, DropType, CasType DEF NullHead, Again
  <2>2. CASE Goto(t, "markHead", "delinkLoad") /\ DropPrivate(t) /\ UNCHANGED <<op, item, unsent>>
    BY <1>4, <2>2, DropType, CasType DEF NullHead
  <2> QED
    BY <1>4, <2>1, <2>2 DEF NullHead
<1> QED
  BY <1>1, <1>2, <1>3, <1>4 DEF Help

LEMMA TypesEnqueue ==
  ASSUME Types, NEW t \in Threads, Enqueue(t)
  PROVE  Types'
<1> USE DEF Types, TypeOK, LocalsSet, list, private
<1>1. CASE LinkNext(t)
  <2>1. CASE Again(t, "link") /\ UNCHANGED <<next, contents>>
    BY <1>1, <2>1, TypesAgain, DropType DEF LinkNext, Again
  <2>2. CASE ~(Again(t, "link") /\ UNCHANGED <<next, contents>>)
    <3>1. /\ pc[t] = "link" /\ pc' = [pc EXCEPT ![t] = "linkTail"]
          /\ next' = [next EXCEPT ![ptail[t].ptr] = Link(item[t], Inc(pnext[t].counter), "ENQ")]
          /\ contents' = Append(contents, item[t])
          /\ UNCHANGED <<head, tail, op, item, private, unsent>>
      BY <1>1, <2>2 DEF LinkNext
    <3>2. item[t] \in Items /\ Inc(pnext[t].counter) \in Counters
      BY <3>1, WordsType, IncType
    <3>3. Link(item[t], Inc(pnext[t].counter), "ENQ") \in Links
      BY <3>2, PointerType
    <3>4. contents' \in Seq(Items) /\ next' \in [Items -> Links]
      BY <3>1, <3>2, <3>3, AppendType
    <3>5. LocalsSet'
      BY <3>1
    <3> QED
      BY <3>1, <3>4, <3>5
  <2> QED
    BY <2>1, <2>2
<1>2. CASE LinkTail(t)
  <2>1. item[t] \in Items
    BY <1>2, WordsType DEF LinkTail, Return
  <2> QED
    BY <1>2, <2>1, TypesReturn, DropType, CasType DEF LinkTail, Return
<1>3. CASE ClaimTail(t)
  <2>1. tail' \in Pointers
    BY <1>3, CasType, WordsType DEF ClaimTail
  <2>2. CASE Again(t, "claimTail") /\ UNCHANGED contents
    BY <1>3, <2>1, <2>2, TypesAgain, DropType DEF ClaimTail, Again
  <2>3. CASE /\ Goto(t, "claimTail", "claimHead") /\ contents' = Append(contents, item[t])
             /\ UNCHANGED <<op, item, private, unsent>>
    <3>1. item[t] \in Items
      BY <2>3, WordsType
    <3>2. contents' \in Seq(Items)
      BY <2>3, <3>1, AppendType
    <3> QED
      BY <1>3, <2>1, <2>3, <3>2 DEF ClaimTail
  <2> QED
    BY <1>3, <2>2, <2>3 DEF ClaimTail
<1>4. CASE ClaimHead(t)
  <2>1. item[t] \in Items
    BY <1>4, WordsType DEF ClaimHead, Return
  <2> QED
    BY <1>4, <2>1, TypesReturn, DropType, CasType DEF ClaimHead, Return
<1> QED
  BY <1>1, <1>2, <1>3, <1>4 DEF Enqueue

LEMMA TypesDequeue ==
  ASSUME Types, NEW t \in Threads, Dequeue(t)
  PROVE  Types'
<1> USE DEF Types, TypeOK, LocalsSet, list, private
<1>1. CASE Reload(t)
  BY <1>1, WordsType DEF Reload
<1>2. CASE DeqLoad(t)
  BY <1>2, WordsType DEF DeqLoad
<1>3. CASE DeqSwing(t)
  <2>1. head' \in Pointers
    BY <1>3, CasType, WordsType DEF DeqSwing
  <2>2. CASE Again(t, "deqSwing") /\ UNCHANGED contents
    BY <1>3, <2>1, <2>2, TypesAgain, DropType DEF DeqSwing, Again
  <2>3. CASE /\ Goto(t, "deqSwing", "delinkLoad") /\ item' = [item EXCEPT ![t] = phead[t].ptr]
             /\ contents' = WithoutFirst /\ DropPrivate(t) /\ UNCHANGED <<op, unsent>>
    <3>1. phead[t].ptr \in Items
      BY <2>3, WordsType
    <3> QED
      BY <1>3, <2>1, <2>3, <3>1, RestIs, DropType DEF DeqSwing
  <2> QED
    BY <1>3, <2>2, <2>3 DEF DeqSwing
<1>4. CASE Mark(t)
  <2>1. CASE Again(t, "mark") /\ UNCHANGED <<next, contents>>
    BY <1>4, <2>1, TypesAgain, DropType DEF Mark, Again
  <2>2. CASE ~(Again(t, "mark") /\ UNCHANGED <<next, contents>>)
    <3>1. /\ pc[t] = "mark" /\ pc' = [pc EXCEPT ![t] = "markTail"]
          /\ next' = [next EXCEPT ![ptail[t].ptr] =
                        Link(pnext[t].ptr, Inc(pnext[t].counter), "DEQ")]
          /\ item' = [item EXCEPT ![t] = phead[t].ptr]
          /\ contents' = WithoutFirst
          /\ UNCHANGED <<head, tail, op, private, unsent>>
      BY <1>4, <2>2 DEF Mark
    <3>2. phead[t].ptr \in Items /\ Inc(pnext[t].counter) \in Counters
      BY <3>1, WordsType, IncType
    <3>3. Link(pnext[t].ptr, Inc(pnext[t].counter), "DEQ") \in Links
      BY <3>2, WordsType, PointerType
    <3>4. contents' \in Seq(Items) /\ next' \in [Items -> Links]
      BY <3>1, <3>3, RestIs
    <3>5. LocalsSet'
      BY <3>1
    <3> QED
      BY <3>1, <3>2, <3>4, <3>5
  <2> QED
    BY <2>1, <2>2
<1>5. CASE DelinkLoad(t)
  BY <1>5, WordsType DEF DelinkLoad
<1>6. CASE DelinkStore(t)
  <2>1. Inc(pnext[t].counter) \in Counters /\ item[t] \in Items
    BY <1>6, WordsType, IncType DEF DelinkStore, Return
  <2>2. Link(Null, Inc(pnext[t].counter), "ENQ") \in Links
    BY <2>1, PointerType
  <2>3. next' \in [Items -> Links]
    BY <1>6, <2>2 DEF DelinkStore
  <2> QED
    BY <1>6, <2>3, TypesReturn, DropType DEF DelinkStore, Return
<1>7. CASE DeqReturnEmpty(t)
  BY <1>7, TypesReturn, DropType DEF DeqReturnEmpty, Return
<1> QED
  BY <1>1, <1>2, <1>3, <1>4, <1>5, <1>6, <1>7 DEF Dequeue

LEMMA TypesNext == Types /\ [Next]_vars => Types'
<1> SUFFICES ASSUME Types, [Next]_vars PROVE Types'
  OBVIOUS
<1>1. CASE UNCHANGED vars
  BY <1>1 DEF Types, TypeOK, LocalsSet, vars, list, private
<1> QED
  BY <1>1, TypesCall, TypesSnapshot, TypesHelp, TypesEnqueue, TypesDequeue DEF Next, Step

LEMMA TypesAlways == Spec => []Types
BY TypesInit, TypesNext, PTL DEF Spec

\* Every variable of PLJQueue keeps its type, even when counters wrap; in
\* particular a dequeue that succeeds has an object.
THEOREM TypeCorrect == Spec => []TypeOK
<1>1. Types => TypeOK
  BY DEF Types
<1> QED
  BY TypesAlways, <1>1, PTL

\* The pointer whose target thread t accesses next.
Followed(t) ==
  CASE pc[t] \in {"snapNext", "reload", "link", "mark"} -> ptail[t].ptr
    [] pc[t] = "deqLoad"                                -> phead[t].ptr
    [] pc[t] \in {"delinkLoad", "delinkStore"}          -> item[t]

NullSafe ==
  \A t \in Threads :
    pc[t] \in {"snapNext", "reload", "link", "mark", "deqLoad", "delinkLoad", "delinkStore"}
      => Followed(t) \in Items

\* No call follows a null pointer, even when counters wrap: the code tests the
\* tail before it reads the link behind it, and the switch leads to no access
\* of an object that the snapshot has not shown.
THEOREM NoNullFollowed == Spec => []NullSafe
<1>1. Types => NullSafe
  BY WordsType DEF Types, TypeOK, LocalsSet, NullSafe, Followed
<1> QED
  BY TypesAlways, <1>1, PTL

----------------------------------------------------------------------------
(* What a step of thread t does to the words of the queue *)

\* A word that changes gets a greater counter.
CountersGrow ==
  /\ head' # head => head.counter < head'.counter
  /\ tail' # tail => tail.counter < tail'.counter
  /\ \A x \in Items : next'[x] # next[x] => next[x].counter < next'[x].counter

\* What stays true of the queue while one word does not change.
TailKept ==
  tail' = tail =>
    /\ \A n : Follows(contents, tail.ptr, n) => Follows(contents', tail.ptr, n)
    /\ tail.ptr # Null /\ contents = <<>> => contents' = <<>>
    /\ tail.ptr = Null /\ head.ptr = Null => head' = head

HeadKept ==
  head' = head =>
    /\ head.ptr # Null /\ contents = <<>> =>
         contents' = <<>> /\ (tail' = tail \/ tail'.ptr = Null)
    /\ head.ptr = Null /\ contents # <<>> => contents' # <<>> /\ contents'[1] = contents[1]
    /\ head.ptr # Null /\ contents # <<>> =>
         /\ tail.ptr # head.ptr => contents' # <<>> /\ tail'.ptr # head.ptr
         /\ \A n : Follows(contents, head.ptr, n) => Follows(contents', head.ptr, n)

LinkKept ==
  contents # <<>> /\ tail.ptr = Last /\ next'[Last] = next[Last] =>
    /\ contents' # <<>> /\ Last' = Last /\ tail' = tail
    /\ head.ptr # Null => head'.ptr # Null
    /\ head.ptr # Null /\ Len(contents) = 1 => head' = head /\ Len(contents') = 1

\* Only thread t brings an object in, its own, and only it changes the link of
\* an object that is not in the queue, of the one it has taken out.
OwnObject(t) ==
  /\ \A y : Has(contents', y) => \/ Has(contents, y)
                                 \/ Enqueuing(t) /\ ~Enqueuing(t)' /\ y = item[t]
  /\ head' = head \/ head'.ptr = Null \/ Has(contents', head'.ptr)
  /\ tail' = tail \/ tail'.ptr = Null \/ Has(contents', tail'.ptr)
  /\ \A y \in Items : next'[y] = next[y] \/ Has(contents, y) \/ (Took(t) /\ y = item[t])

Evolves(t) == CountersGrow /\ TailKept /\ HeadKept /\ LinkKept /\ OwnObject(t)

LEMMA EvolvesStutter ==
  ASSUME NEW t \in Threads, UNCHANGED list
  PROVE  Evolves(t)
BY DEF Evolves, CountersGrow, TailKept, HeadKept, LinkKept, OwnObject, list, Last

\* Thread u knows what it knew, if thread t makes a step.
LEMMA CountedKept ==
  ASSUME TypeOK, TypeOK', NEW u \in Threads, Counted(u), CountersGrow,
         pc'[u] = pc[u], phead'[u] = phead[u], ptail'[u] = ptail[u], pnext'[u] = pnext[u]
  PROVE  /\ Counted(u)'
         /\ pc[u] \in HeadPcs /\ SameHead(u)' => SameHead(u) /\ head' = head
         /\ pc[u] \in TailPcs /\ SameTail(u)' => SameTail(u) /\ tail' = tail
         /\ pc[u] \in {"snapTail2", "snapHead2", "link", "mark"} /\ ptail[u].ptr # Null
              /\ SameNext(u)' => SameNext(u) /\ next'[ptail[u].ptr] = next[ptail[u].ptr]
<1>1. /\ head.counter \in Nat /\ head'.counter \in Nat
      /\ tail.counter \in Nat /\ tail'.counter \in Nat
      /\ phead[u].counter \in Nat /\ ptail[u].counter \in Nat /\ pnext[u].counter \in Nat
  BY PointersType DEF TypeOK, Counters
<1>2. ptail[u].ptr # Null => /\ ptail[u].ptr \in Items
                             /\ next[ptail[u].ptr].counter \in Nat
                             /\ next'[ptail[u].ptr].counter \in Nat
  BY PointersType DEF TypeOK, Counters
<1>3. \A a, b, c \in Nat : a <= b /\ b < c => a <= c /\ a # c
  OBVIOUS
<1> QED
  BY <1>1, <1>2, <1>3 DEF Counted, CountersGrow, SameHead, SameTail, SameNext

\* Nothing of thread u has changed.
Same(u) ==
  /\ pc'[u] = pc[u] /\ op'[u] = op[u] /\ item'[u] = item[u]
  /\ phead'[u] = phead[u] /\ ptail'[u] = ptail[u] /\ pnext'[u] = pnext[u]

LEMMA OthersKnow ==
  ASSUME IInv, Types', NEW t \in Threads, NEW u \in Threads \ {t}, Evolves(t), Same(u)
  PROVE  Counted(u)' /\ ReadTail(u)' /\ ReadLink(u)' /\ Known(u)'
<1> DEFINE h == phead[u]
           l == ptail[u]
           n == pnext[u]
<1>1. /\ pc'[u] = pc[u] /\ item'[u] = item[u] /\ phead'[u] = h /\ ptail'[u] = l /\ pnext'[u] = n
  BY DEF Same
<1>2. /\ Counted(u)'
      /\ pc[u] \in HeadPcs /\ SameHead(u)' => head = h /\ head' = head
      /\ pc[u] \in TailPcs /\ SameTail(u)' => tail = l /\ tail' = tail
      /\ pc[u] \in {"snapTail2", "snapHead2", "link", "mark"} /\ l.ptr # Null
           /\ SameNext(u)' => next[l.ptr] = n /\ next'[l.ptr] = next[l.ptr]
  <2>1. Counted(u) /\ TypeOK /\ TypeOK' /\ CountersGrow /\ u \in Threads
    BY DEF IInv, Types, Evolves
  <2>2. /\ pc'[u] = pc[u] /\ phead'[u] = phead[u] /\ ptail'[u] = ptail[u]
        /\ pnext'[u] = pnext[u]
    BY DEF Same
  <2> QED
    BY <2>1, <2>2, CountedKept DEF SameHead, SameTail, SameNext
<1>3. /\ SameHead(u) <=> head = h
      /\ SameTail(u) <=> tail = l
      /\ SameNext(u) <=> next[l.ptr] = n
      /\ SameHead(u)' <=> head' = h
      /\ SameTail(u)' <=> tail' = l
      /\ SameNext(u)' <=> next'[l.ptr] = n
  BY <1>1 DEF SameHead, SameTail, SameNext
<1>4. TailKept /\ HeadKept /\ LinkKept /\ OwnObject(t)
  BY DEF Evolves
<1>5. ReadTail(u) /\ ReadLink(u) /\ Known(u)
  BY DEF IInv
<1> HIDE DEF h, l, n
<1>6. ReadTail(u)'
  BY <1>1, <1>2, <1>3, <1>4, <1>5 DEF ReadTail, HeadKept, HeadPcs, h, l
<1>7. ReadLink(u)'
  <2>1. SUFFICES ASSUME pc[u] \in {"snapTail2", "snapHead2"}, l.ptr # Null,
                        pc[u] = "snapTail2" => tail' = l
                 PROVE  /\ n.ptr = Null /\ n.mark = "ENQ" /\ next'[l.ptr] = n =>
                             contents' # <<>> /\ Last' = l.ptr /\ tail' = l
                        /\ n.ptr # Null /\ tail' = l => Follows(contents', l.ptr, n.ptr)
                        /\ n.ptr = Null /\ n.mark = "DEQ" =>
                             /\ tail' = l => contents' = <<>>
                             /\ head' = h => /\ h.ptr = l.ptr
                                             /\ contents' = <<>> /\ (tail' = l \/ tail'.ptr = Null)
    BY <1>1, <1>3 DEF ReadLink, h, l, n
  <2>2. pc[u] \in HeadPcs /\ pc[u] \in TailPcs /\ (pc[u] = "snapTail2" => tail = l)
    BY <1>2, <1>3, <2>1 DEF HeadPcs, TailPcs
  <2>3. /\ n.ptr = Null /\ n.mark = "ENQ" /\ next[l.ptr] = n =>
             contents # <<>> /\ Last = l.ptr /\ tail = l
        /\ n.ptr # Null /\ tail = l => Follows(contents, l.ptr, n.ptr)
        /\ n.ptr = Null /\ n.mark = "DEQ" =>
             /\ tail = l => contents = <<>>
             /\ head = h => h.ptr = l.ptr /\ contents = <<>> /\ (tail = l \/ tail.ptr = Null)
    BY <1>3, <1>5, <2>1, <2>2 DEF ReadLink, h, l, n
  <2>4. n.ptr = Null /\ n.mark = "ENQ" /\ next'[l.ptr] = n =>
             contents' # <<>> /\ Last' = l.ptr /\ tail' = l
    BY <1>2, <1>3, <1>4, <2>1, <2>3 DEF LinkKept
  <2>5. n.ptr # Null /\ tail' = l => Follows(contents', l.ptr, n.ptr)
    BY <1>2, <1>3, <1>4, <2>2, <2>3 DEF TailKept
  <2>6. n.ptr = Null /\ n.mark = "DEQ" /\ tail' = l => contents' = <<>>
    BY <1>2, <1>3, <1>4, <2>1, <2>2, <2>3 DEF TailKept
  <2>7. n.ptr = Null /\ n.mark = "DEQ" /\ head' = h =>
          /\ h.ptr = l.ptr
          /\ contents' = <<>> /\ (tail' = l \/ tail'.ptr = Null)
    BY <1>2, <1>3, <1>4, <2>1, <2>2, <2>3 DEF HeadKept
  <2> QED
    BY <2>4, <2>5, <2>6, <2>7
<1>8. /\ pc[u] \in {"snapNext", "link", "linkTail", "helpTail", "reload", "nullTail",
                    "helpHead", "deqLoad", "deqSwing", "mark", "markTail"} => l.ptr # Null
      /\ pc[u] \in {"link", "nullTail", "nullHead", "deqLoad", "deqSwing",
                    "mark", "markTail", "markHead"} => h.ptr # Null
      /\ pc[u] \in {"link", "mark"} => n.ptr = Null
      /\ pc[u] \in {"mark", "markTail"} => h.ptr = l.ptr
      /\ pc[u] = "mark" => n.mark = "ENQ"
      /\ pc[u] \in {"claimTail", "claimHead", "helpHead"} => h.ptr = Null
      /\ pc[u] = "claimTail" => l.ptr = Null
      /\ pc[u] \in {"markTail", "markHead"} => item[u] = h.ptr
  BY DEF IInv, Types, LocalsSet, h, l, n
<1>9. /\ pc[u] \in {"link", "mark"} /\ next'[l.ptr] = n =>
           contents' # <<>> /\ Last' = l.ptr /\ tail' = l
      /\ pc[u] = "link" => n.mark = "ENQ" /\ (next'[l.ptr] = n => head'.ptr # Null)
      /\ pc[u] = "mark" /\ next'[l.ptr] = n => head' = h /\ Len(contents') = 1
  BY <1>2, <1>3, <1>4, <1>5, <1>8 DEF Known, LinkKept, h, l, n
<1>10. /\ pc[u] = "linkTail" /\ tail' = l => Follows(contents', l.ptr, item[u])
       /\ pc[u] \in {"helpTail", "reload"} /\ tail' = l => Follows(contents', l.ptr, n.ptr)
  BY <1>2, <1>3, <1>4, <1>5 DEF Known, TailKept, TailPcs, HeadPcs, HelpPcs, EnqueuePcs, l, n
<1>11. /\ pc[u] = "helpHead" /\ head' = h => contents' # <<>> /\ contents'[1] = l.ptr
       /\ pc[u] = "claimHead" /\ head' = h => contents' # <<>> /\ contents'[1] = item[u]
       /\ pc[u] = "claimTail" /\ tail' = l => head' = h
  BY <1>2, <1>3, <1>4, <1>5, <1>8
  DEF Known, TailKept, HeadKept, TailPcs, HeadPcs, HelpPcs, EnqueuePcs, h, l
<1>12. /\ pc[u] \in {"nullTail", "markTail"} =>
            /\ tail' = l => contents' = <<>>
            /\ head' = h => contents' = <<>> /\ (tail' = l \/ tail'.ptr = Null)
       /\ pc[u] \in {"nullHead", "markHead"} /\ head' = h => contents' = <<>> /\ tail'.ptr = Null
  BY <1>2, <1>3, <1>4, <1>5, <1>8
  DEF Known, TailKept, HeadKept, TailPcs, HeadPcs, HelpPcs, EnqueuePcs, h, l
<1>13. /\ pc[u] \in {"deqLoad", "deqSwing"} /\ head' = h => contents' # <<>> /\ tail'.ptr # h.ptr
       /\ pc[u] = "deqSwing" /\ head' = h => Follows(contents', h.ptr, n.ptr)
  BY <1>2, <1>3, <1>4, <1>5, <1>8 DEF Known, HeadKept, HeadPcs, h, n
<1>14. /\ pc[u] \in {"markTail", "markHead"} /\ head'.ptr = item[u] => head' = h
       /\ pc[u] = "markTail" /\ tail'.ptr = item[u] => tail' = l
       /\ pc[u] = "markHead" => tail'.ptr # item[u]
       /\ pc[u] \in {"delinkLoad", "delinkStore"} =>
            ~Has(contents', item[u]) /\ head'.ptr # item[u] /\ tail'.ptr # item[u]
       /\ pc[u] = "delinkStore" => n = next'[item[u]]
  <2>1. Took(u) => /\ item[u] \in Items /\ ~Has(contents, item[u])
                   /\ Enqueuing(t) \/ Took(t) => item[t] # item[u]
    BY WordsType DEF IInv, Types, TypeOK, Private
  <2>2. Took(u) => /\ ~Has(contents', item[u])
                   /\ head' = head \/ head'.ptr # item[u]
                   /\ tail' = tail \/ tail'.ptr # item[u]
                   /\ next'[item[u]] = next[item[u]]
    BY <1>4, <2>1 DEF OwnObject
  <2> QED
    BY <1>3, <1>5, <2>2 DEF Known, Outside, h, l, n
<1>15. Known(u)'
  BY <1>1, <1>3, <1>9, <1>10, <1>11, <1>12, <1>13, <1>14 DEF Known, Outside, h, l, n
<1> QED
  BY <1>2, <1>6, <1>7, <1>15

----------------------------------------------------------------------------
(* The moves of the queue: all that steps do to its words *)

\* States 1 and 3: an object is linked behind the last one.
LinkMove(t) ==
  /\ Full /\ tail.ptr = Last /\ head.ptr # Null
  /\ Enqueuing(t) /\ ~Enqueuing(t)' /\ item[t] \in Items
  /\ Outside(item[t]) /\ Unlinked(item[t])
  /\ next' = [next EXCEPT ![Last] = Link(item[t], next[Last].counter + 1, "ENQ")]
  /\ contents' = Append(contents, item[t])
  /\ UNCHANGED <<head, tail>>

\* States 2 and 5: the tail moves to the object behind it.
TailMove ==
  /\ Full /\ UNCHANGED <<head, next, contents>>
  /\ \E n : Follows(contents, tail.ptr, n) /\ tail' = Pointer(n, tail.counter + 1)

\* State 7: an object becomes the tail of an empty queue.
ClaimMove(t) ==
  /\ Empty /\ tail.ptr = Null /\ head.ptr = Null
  /\ Enqueuing(t) /\ ~Enqueuing(t)' /\ item[t] \in Items /\ Unlinked(item[t])
  /\ tail' = Pointer(item[t], tail.counter + 1)
  /\ contents' = Append(contents, item[t])
  /\ UNCHANGED <<head, next>>

\* State 8: the head follows.
HeadMove ==
  /\ Full /\ head.ptr = Null /\ UNCHANGED <<tail, next, contents>>
  /\ head' = Pointer(contents[1], head.counter + 1)

\* States 1 and 2: the head leaves the first of several objects.
SwingMove ==
  /\ Full /\ head.ptr # Null /\ tail.ptr # head.ptr /\ UNCHANGED <<tail, next>>
  /\ \E n : Follows(contents, head.ptr, n) /\ head' = Pointer(n, head.counter + 1)
  /\ contents' = Tail(contents)

\* State 3: the only object is marked.
MarkMove ==
  /\ Full /\ Len(contents) = 1 /\ head.ptr # Null /\ tail.ptr = Last
  /\ next' = [next EXCEPT ![Last] = Link(Null, next[Last].counter + 1, "DEQ")]
  /\ contents' = Tail(contents)
  /\ UNCHANGED <<head, tail>>

\* States 4 and 6: tail and head leave the marked object.
TailNullMove ==
  /\ Empty /\ tail.ptr # Null /\ UNCHANGED <<head, next, contents>>
  /\ tail' = Pointer(Null, tail.counter + 1)

HeadNullMove ==
  /\ Empty /\ head.ptr # Null /\ tail.ptr = Null /\ UNCHANGED <<tail, next, contents>>
  /\ head' = Pointer(Null, head.counter + 1)

\* A dequeue resets the link of its object.
DelinkMove(t) ==
  /\ Took(t) /\ ~Took(t)' /\ item[t] \in Items /\ Outside(item[t])
  /\ next' = [next EXCEPT ![item[t]] = Link(Null, next[item[t]].counter + 1, "ENQ")]
  /\ UNCHANGED <<head, tail, contents>>

Moves(t) ==
  \/ UNCHANGED list
  \/ LinkMove(t) \/ TailMove \/ ClaimMove(t) \/ HeadMove
  \/ SwingMove \/ MarkMove \/ TailNullMove \/ HeadNullMove \/ DelinkMove(t)

LEMMA CountIs ==
  ASSUME TypeOK
  PROVE  /\ head.counter \in Nat /\ tail.counter \in Nat
         /\ head.counter + 1 \in Nat /\ head.counter < head.counter + 1
         /\ tail.counter + 1 \in Nat /\ tail.counter < tail.counter + 1
         /\ \A x \in Items : /\ next[x].counter \in Nat /\ next[x].counter + 1 \in Nat
                             /\ next[x].counter < next[x].counter + 1
<1>1. /\ head.counter \in Nat /\ tail.counter \in Nat
      /\ \A x \in Items : next[x].counter \in Nat
  BY PointersType DEF TypeOK, Counters
<1>2. \A c \in Nat : c + 1 \in Nat /\ c < c + 1
  OBVIOUS
<1> QED
  BY <1>1, <1>2


\* What each move keeps.
LEMMA LinkStep ==
  ASSUME TypeOK, NEW t \in Threads, LinkMove(t)
  PROVE  Full' /\ Evolves(t) /\ Follows(contents', tail.ptr, item[t])
<1> USE DEF LinkMove
<1> DEFINE x == item[t]
           k == contents'
           c == next[Last].counter + 1
<1>1. /\ contents \in Seq(Items) /\ contents # <<>> /\ Last \in Items
      /\ Last = contents[Len(contents)] /\ Has(contents, Last)
  BY DEF TypeOK, Full, Last, Has
<1>0. c \in Nat /\ next[Last].counter < c
  BY <1>1, CountIs
<1> HIDE DEF c
<1>2. NextPtr \in [Items -> Items \union {Null}] /\ NextPtr[x] = Null
  BY WordsType DEF NextPtr, Unlinked
<1>3. NextPtr' = [NextPtr EXCEPT ![Last] = x]
  BY <1>1 DEF NextPtr, Link, TypeOK
<1>4. NoRepeat(k) /\ Spells(k, NextPtr', Null) /\ Follows(k, Last, x) /\ LastTwo(k, Last)
  <2>1. /\ NoRepeat(contents) /\ Spells(contents, NextPtr, Null) /\ ~Has(contents, x)
        /\ x \in Items /\ k = Append(contents, x) /\ NextPtr' = [NextPtr EXCEPT ![contents[Len(contents)]] = x]
    BY <1>1, <1>3 DEF Full, Outside
  <2> HIDE DEF x, k
  <2>2. /\ NoRepeat(Append(contents, x))
        /\ Spells(Append(contents, x), [NextPtr EXCEPT ![contents[Len(contents)]] = x], Null)
        /\ Follows(Append(contents, x), contents[Len(contents)], x)
        /\ LastTwo(Append(contents, x), contents[Len(contents)])
    BY ONLY <1>1, <1>2, <2>1, LinkLast
  <2> QED
    BY <1>1, <2>1, <2>2
<1>5. /\ k # <<>> /\ Len(k) = Len(contents) + 1 /\ k[Len(k)] = x /\ k[1] = contents[1]
      /\ x # Last
  BY <1>1 DEF Outside
<1>6. next'[x].mark = "ENQ" /\ next'[Last].counter = c
  BY <1>1, <1>5 DEF TypeOK, Unlinked, Link, c
<1>7. Full'
  BY <1>4, <1>5, <1>6 DEF Full, Last
<1>8. \A m, n : /\ Follows(contents, m, n) => Follows(k, m, n)
                /\ Has(k, m) <=> Has(contents, m) \/ m = x
  BY <1>1, AppendKeeps
<1>9. CountersGrow /\ LinkKept
  BY <1>0, <1>1, <1>6 DEF CountersGrow, LinkKept, TypeOK
<1>10. TailKept /\ HeadKept
  BY <1>1, <1>5, <1>8 DEF TailKept, HeadKept
<1>11. OwnObject(t)
  BY <1>1, <1>8 DEF OwnObject, TypeOK
<1> QED
  BY <1>4, <1>7, <1>9, <1>10, <1>11 DEF Evolves

LEMMA TailStep ==
  ASSUME TypeOK, NEW t \in Threads, TailMove
  PROVE  Full' /\ Evolves(t)
<1> USE DEF TailMove
<1> SUFFICES ASSUME NEW n, Follows(contents, tail.ptr, n), tail' = Pointer(n, tail.counter + 1)
             PROVE  Full' /\ Evolves(t)
  OBVIOUS
<1> DEFINE c == tail.counter + 1
<1>0. c \in Nat /\ tail.counter < c
  BY CountIs
<1> HIDE DEF c
<1>1. contents \in Seq(Items) /\ NoRepeat(contents) /\ LastTwo(contents, tail.ptr)
  BY DEF TypeOK, Full
<1>2. LastTwo(contents, n) /\ n \in Items /\ n # contents[1] /\ Has(contents, n)
  <2>1. LastTwo(contents, n) /\ n \in Items /\ n # contents[1]
    BY <1>1, FollowsLastTwo, FollowsNotFirst
  <2> QED
    BY <1>1, <2>1 DEF Follows, Has
<1>3. tail.ptr # Last
  BY <1>1 DEF Follows, NoRepeat, Last
<1>4. tail'.ptr = n /\ tail' # tail
  BY <1>0 DEF Pointer, c
<1>5. Full'
  BY <1>2, <1>4 DEF Full, Last, NextPtr
<1>6. CountersGrow /\ TailKept
  BY <1>0, <1>4 DEF CountersGrow, TailKept, Pointer, c
<1>7. HeadKept
  BY <1>2, <1>4 DEF HeadKept, Full
<1>8. LinkKept /\ OwnObject(t)
  BY <1>2, <1>3, <1>4 DEF LinkKept, OwnObject
<1> QED
  BY <1>5, <1>6, <1>7, <1>8 DEF Evolves

LEMMA ClaimStep ==
  ASSUME TypeOK, NEW t \in Threads, ClaimMove(t)
  PROVE  Full' /\ Evolves(t) /\ contents' # <<>> /\ contents'[1] = item[t]
<1> USE DEF ClaimMove
<1> DEFINE c == tail.counter + 1
<1>0. c \in Nat /\ tail.counter < c
  BY CountIs
<1> HIDE DEF c
<1> DEFINE x == item[t]
<1>1. contents = <<>> /\ contents' = <<x>> /\ Len(contents') = 1 /\ contents'[1] = x
  BY DEF Empty
<1>2. tail'.ptr = x /\ tail' # tail /\ NextPtr' = NextPtr /\ NextPtr[x] = Null
  BY <1>0, WordsType DEF Pointer, NextPtr, Unlinked, c
<1>3. NoRepeat(contents') /\ Spells(contents', NextPtr', Null) /\ LastTwo(contents', x)
  BY <1>1, <1>2 DEF NoRepeat, Spells, LastTwo
<1>4. Full'
  BY <1>1, <1>2, <1>3 DEF Full, Last, Unlinked
<1>5. CountersGrow /\ TailKept /\ HeadKept /\ LinkKept
  BY <1>0, <1>1, <1>2 DEF CountersGrow, TailKept, HeadKept, LinkKept, Pointer, c
<1>6. OwnObject(t)
  BY <1>1, <1>2 DEF OwnObject, Has
<1> QED
  BY <1>1, <1>4, <1>5, <1>6 DEF Evolves

LEMMA HeadStep ==
  ASSUME TypeOK, NEW t \in Threads, HeadMove
  PROVE  Full' /\ Evolves(t)
<1> USE DEF HeadMove
<1> DEFINE c == head.counter + 1
<1>0. c \in Nat /\ head.counter < c
  BY CountIs
<1> HIDE DEF c
<1>1. head'.ptr = contents[1] /\ head' # head
  BY <1>0 DEF Pointer, c
<1>2. contents \in Seq(Items) /\ contents # <<>> /\ LastTwo(contents, tail.ptr)
  BY DEF TypeOK, Full
<1>3. Has(contents, contents[1]) /\ tail.ptr \in Items
  BY <1>2 DEF Has, LastTwo
<1>4. Full'
  BY <1>1 DEF Full, Last, NextPtr
<1>5. CountersGrow /\ TailKept /\ HeadKept /\ LinkKept
  BY <1>0, <1>1, <1>2, <1>3
  DEF CountersGrow, TailKept, HeadKept, LinkKept, Pointer, Last, c
<1>6. OwnObject(t)
  BY <1>1, <1>3 DEF OwnObject
<1> QED
  BY <1>4, <1>5, <1>6 DEF Evolves

LEMMA SwingStep ==
  ASSUME TypeOK, NEW t \in Threads, SwingMove
  PROVE  /\ Full' /\ Evolves(t) /\ Has(contents, head.ptr)
         /\ ~Has(contents', head.ptr) /\ head'.ptr # head.ptr
<1> USE DEF SwingMove
<1> SUFFICES ASSUME NEW n, Follows(contents, head.ptr, n), head' = Pointer(n, head.counter + 1)
             PROVE  /\ Full' /\ Evolves(t) /\ Has(contents, head.ptr)
                      /\ ~Has(contents', head.ptr) /\ head'.ptr # head.ptr
  OBVIOUS
<1> DEFINE c == head.counter + 1
<1>0. c \in Nat /\ head.counter < c
  BY CountIs
<1> HIDE DEF c
<1> DEFINE k == contents'
<1>1. /\ contents \in Seq(Items) /\ contents # <<>> /\ head.ptr = contents[1]
      /\ NoRepeat(contents) /\ Spells(contents, NextPtr, Null)
      /\ LastTwo(contents, tail.ptr)
  BY DEF TypeOK, Full
<1>2. /\ k \in Seq(Items) /\ Len(k) = Len(contents) - 1
      /\ \A i \in 1..(Len(contents) - 1) : k[i] = contents[i + 1]
  BY <1>1, TailKeeps
<1>3. /\ NoRepeat(k) /\ Spells(k, NextPtr, Null)
      /\ \A m : Has(k, m) <=> Has(contents, m) /\ m # contents[1]
  BY <1>1, UnlinkFirst
<1>4. Len(contents) >= 2 /\ contents[2] = n
  <2>1. PICK i \in 1..(Len(contents) - 1) : contents[i] = contents[1] /\ contents[i + 1] = n
    BY <1>1 DEF Follows
  <2>2. i = 1
    BY <1>1, <2>1 DEF NoRepeat
  <2> QED
    BY <1>1, <2>1, <2>2
<1>5. k # <<>> /\ k[1] = n /\ n \in Items /\ Last' = Last
  <2>1. Len(contents) \in Nat /\ Len(k) \in 1..(Len(contents) - 1)
    BY <1>1, <1>2, <1>4
  <2>2. k[1] = n /\ k[Len(k)] = contents[Len(contents)] /\ n \in Items
    BY <1>1, <1>2, <1>4, <2>1
  <2>3. Last' = k[Len(k)]
    BY DEF Last
  <2> QED
    BY <2>1, <2>2, <2>3 DEF Last
<1>6. head'.ptr = n /\ head' # head /\ n # head.ptr
  BY <1>0, <1>1, <1>4 DEF Pointer, NoRepeat, c
<1> HIDE DEF k
<1>7. LastTwo(k, tail.ptr)
  <2>1. PICK i \in 1..Len(contents) : contents[i] = tail.ptr /\ Len(contents) <= i + 1
    BY <1>1 DEF LastTwo
  <2>2. i # 1
    BY <1>1, <2>1
  <2>3. i - 1 \in 1..Len(k) /\ k[i - 1] = tail.ptr /\ Len(k) <= (i - 1) + 1
    BY <1>1, <1>2, <2>1, <2>2
  <2> QED
    BY <2>3 DEF LastTwo
<1>8. Full'
  BY <1>1, <1>3, <1>5, <1>6, <1>7 DEF Full, NextPtr, k
<1>9. \A m : Follows(contents, tail.ptr, m) => Follows(k, tail.ptr, m)
  <2> SUFFICES ASSUME NEW m, NEW i \in 1..(Len(contents) - 1),
                      contents[i] = tail.ptr, contents[i + 1] = m
               PROVE  Follows(k, tail.ptr, m)
    BY DEF Follows
  <2>1. i # 1
    BY <1>1
  <2>2. i - 1 \in 1..(Len(k) - 1) /\ k[i - 1] = tail.ptr /\ k[(i - 1) + 1] = m
    BY <1>1, <1>2, <2>1
  <2> QED
    BY <2>2 DEF Follows
<1>10. CountersGrow /\ TailKept /\ HeadKept
  BY <1>0, <1>1, <1>6, <1>9 DEF CountersGrow, TailKept, HeadKept, Pointer, k, c
<1>11. LinkKept
  BY <1>1, <1>4, <1>5, <1>6 DEF LinkKept, k
<1>12. Has(k, n)
  BY <1>2, <1>5 DEF Has
<1>13. OwnObject(t)
  BY <1>3, <1>6, <1>12 DEF OwnObject, k
<1>14. Has(contents, contents[1])
  BY <1>1 DEF Has
<1> QED
  BY <1>1, <1>3, <1>6, <1>8, <1>10, <1>11, <1>13, <1>14 DEF Evolves, k

LEMMA MarkStep ==
  ASSUME TypeOK, NEW t \in Threads, MarkMove
  PROVE  /\ Empty' /\ Evolves(t) /\ contents' = <<>>
         /\ Has(contents, head.ptr) /\ ~Has(contents', head.ptr)
<1> USE DEF MarkMove
<1> DEFINE c == next[Last].counter + 1
<1>1. /\ contents \in Seq(Items) /\ contents # <<>> /\ head.ptr = contents[1]
      /\ Last = contents[1] /\ Last \in Items /\ Has(contents, Last)
  BY DEF TypeOK, Full, Last, Has
<1>0. c \in Nat /\ next[Last].counter < c
  BY <1>1, CountIs
<1> HIDE DEF c
<1>2. contents' = <<>>
  BY <1>1
<1>3. next'[Last].ptr = Null /\ next'[Last].mark = "DEQ" /\ next'[Last].counter = c
  BY <1>1 DEF TypeOK, Link, c
<1>4. Empty'
  BY <1>1, <1>2, <1>3 DEF Empty
<1>5. CountersGrow /\ LinkKept
  BY <1>0, <1>1, <1>3 DEF CountersGrow, LinkKept, TypeOK
<1>6. \A m, n : ~Follows(contents, m, n)
  BY <1>1 DEF Follows
<1>7. TailKept /\ HeadKept
  <2>1. tail.ptr = head.ptr /\ tail.ptr # Null
    BY <1>1
  <2> QED
    BY <1>1, <1>6, <2>1 DEF TailKept, HeadKept
<1>8. \A y : ~Has(contents', y)
  <2>1. \A y : ~Has(<<>>, y)
    BY DEF Has
  <2> QED
    BY <1>2, <2>1
<1>9. OwnObject(t)
  <2>1. \A y \in Items : next'[y] = next[y] \/ y = Last
    BY <1>1 DEF TypeOK
  <2> QED
    BY <1>1, <1>8, <2>1 DEF OwnObject
<1> QED
  BY <1>1, <1>2, <1>4, <1>5, <1>7, <1>8, <1>9 DEF Evolves

LEMMA TailNullStep ==
  ASSUME TypeOK, NEW t \in Threads, TailNullMove
  PROVE  Empty' /\ Evolves(t)
<1> USE DEF TailNullMove
<1> DEFINE c == tail.counter + 1
<1>0. c \in Nat /\ tail.counter < c
  BY CountIs
<1> HIDE DEF c
<1>1. tail'.ptr = Null /\ tail' # tail
  BY <1>0 DEF Pointer, c
<1>2. Empty'
  BY <1>1 DEF Empty
<1>3. Evolves(t)
  BY <1>0, <1>1
  DEF Empty, Evolves, CountersGrow, TailKept, HeadKept, LinkKept, OwnObject, Pointer, c
<1> QED
  BY <1>2, <1>3

LEMMA HeadNullStep ==
  ASSUME TypeOK, NEW t \in Threads, HeadNullMove
  PROVE  Empty' /\ Evolves(t)
<1> USE DEF HeadNullMove
<1> DEFINE c == head.counter + 1
<1>0. c \in Nat /\ head.counter < c
  BY CountIs
<1> HIDE DEF c
<1>1. head'.ptr = Null /\ head' # head
  BY <1>0 DEF Pointer, c
<1>2. Empty'
  BY <1>1 DEF Empty
<1>3. Evolves(t)
  BY <1>0, <1>1
  DEF Empty, Evolves, CountersGrow, TailKept, HeadKept, LinkKept, OwnObject, Pointer, c
<1> QED
  BY <1>2, <1>3

LEMMA DelinkStep ==
  ASSUME TypeOK, Empty \/ Full, NEW t \in Threads, DelinkMove(t)
  PROVE  (Empty \/ Full)' /\ Evolves(t)
<1> USE DEF DelinkMove
<1> DEFINE c == next[item[t]].counter + 1
<1>0. c \in Nat /\ next[item[t]].counter < c
  BY CountIs
<1> HIDE DEF c
<1> DEFINE x == item[t]
<1>1. /\ next'[x].counter = c /\ next' \in [Items -> {next'[y] : y \in Items}]
      /\ \A y \in Items \ {x} : next'[y] = next[y]
  BY DEF TypeOK, Link, c
<1>2. NextPtr \in [Items -> Items \union {Null}] /\ NextPtr' = [NextPtr EXCEPT ![x] = Null]
  BY WordsType DEF NextPtr, Link, TypeOK
<1>3. ASSUME Empty PROVE Empty'
  BY <1>1, <1>3, WordsType DEF Empty, Outside
<1>4. ASSUME Full PROVE Full'
  <2>1. /\ contents \in Seq(Items) /\ ~Has(contents, x) /\ Spells(contents, NextPtr, Null)
        /\ contents # <<>> /\ Last \in Items /\ Has(contents, Last)
    BY <1>4 DEF Full, Outside, TypeOK, Last, Has
  <2>2. Spells(contents, NextPtr', Null)
    BY <1>2, <2>1, SpellsOther
  <2>3. next'[Last] = next[Last]
    BY <1>1, <2>1
  <2> QED
    BY <1>4, <2>2, <2>3 DEF Full, Last
<1>5. CountersGrow
  BY <1>0, <1>1 DEF CountersGrow
<1>6. TailKept /\ HeadKept /\ LinkKept
  BY DEF TailKept, HeadKept, LinkKept, Last
<1>7. OwnObject(t)
  BY <1>1 DEF OwnObject
<1> QED
  BY <1>3, <1>4, <1>5, <1>6, <1>7 DEF Evolves

----------------------------------------------------------------------------
(* The steps of a thread *)

\* A compare-and-swap succeeds if the word has not changed, and counts.
LEMMA CasIs ==
  ASSUME TypeOK, NoWrap, NEW t \in Threads, NEW n
  PROVE  /\ CasHead(t, n) /\ SameHead(t) => head' = Pointer(n, head.counter + 1)
         /\ CasHead(t, n) /\ ~SameHead(t) => head' = head
         /\ CasTail(t, n) /\ SameTail(t) => tail' = Pointer(n, tail.counter + 1)
         /\ CasTail(t, n) /\ ~SameTail(t) => tail' = tail
<1>1. Inc(head.counter) = head.counter + 1 /\ Inc(tail.counter) = tail.counter + 1
  BY WordsType, IncType DEF NoWrap
<1> QED
  BY <1>1 DEF CasHead, CasTail, SameHead, SameTail

LEMMA IncIs ==
  ASSUME TypeOK, NoWrap
  PROVE  \A x \in Items : Inc(next[x].counter) = next[x].counter + 1
BY PointersType, IncType DEF TypeOK, NoWrap

\* An object stays with the call it belongs to.
LEMMA PrivateKept ==
  ASSUME IInv, Types', NEW t \in Threads, OwnObject(t), unsent' = unsent,
         \A u \in Threads \ {t} : Same(u),
         Enqueuing(t)' => Enqueuing(t) /\ item'[t] = item[t],
         Took(t)' => \/ Took(t) /\ item'[t] = item[t]
                     \/ Has(contents, item'[t]) /\ ~Has(contents', item'[t])
  PROVE  Private'
<1> DEFINE Mine(u) == Enqueuing(u) \/ Took(u)
<1>1. /\ \A u \in Threads : Mine(u) => item[u] \in Items
      /\ \A u \in Threads : ~(Enqueuing(u) /\ Took(u))
      /\ unsent \subseteq Items
  BY WordsType DEF IInv, Types, TypeOK, LocalsSet
<1>2. /\ \A x \in unsent : Outside(x) /\ Unlinked(x)
      /\ \A u \in Threads : Enqueuing(u) => Outside(item[u]) /\ Unlinked(item[u])
      /\ \A u \in Threads : Took(u) => ~Has(contents, item[u])
      /\ \A u \in Threads : Mine(u) =>
           item[u] \notin unsent /\ \A v \in Threads \ {u} : Mine(v) => item[u] # item[v]
  BY DEF IInv, Private
<1>3. \A u \in Threads \ {t} :
        /\ Enqueuing(u)' <=> Enqueuing(u)
        /\ Took(u)' <=> Took(u)
        /\ item'[u] = item[u]
  BY DEF Same
<1>4. \A x \in Items : ~Has(contents, x) /\ (Enqueuing(t) => x # item[t] \/ Enqueuing(t)') =>
        /\ ~Has(contents', x)
        /\ head.ptr # x => head'.ptr # x
        /\ tail.ptr # x => tail'.ptr # x
        /\ (Took(t) => x # item[t]) => next'[x] = next[x]
  BY DEF OwnObject
<1> HIDE DEF Mine
<1>5. \A x \in unsent : (Outside(x) /\ Unlinked(x))'
  BY <1>1, <1>2, <1>4 DEF Outside, Unlinked, Mine
<1>6. ASSUME NEW u \in Threads, Enqueuing(u)' PROVE (Outside(item[u]) /\ Unlinked(item[u]))'
  <2>1. /\ Enqueuing(u) /\ item'[u] = item[u] /\ item[u] \in Items
        /\ Mine(t) /\ t # u => item[u] # item[t]
        /\ u = t => ~Took(t) /\ Enqueuing(t)'
    BY <1>1, <1>2, <1>3, <1>6 DEF Mine
  <2> HIDE DEF Enqueuing, Took
  <2> QED
    BY <1>2, <1>4, <2>1 DEF Outside, Unlinked, Mine
<1>7. ASSUME NEW u \in Threads, Took(u)' PROVE ~Has(contents', item'[u])
  <2>1. CASE Took(u) /\ item'[u] = item[u]
    <3> HIDE DEF Enqueuing, Took
    <3>1. /\ item[u] \in Items /\ ~Has(contents, item[u])
          /\ Enqueuing(t) => item[u] # item[t]
      BY <1>1, <1>2, <2>1 DEF Mine
    <3> QED
      BY <1>4, <2>1, <3>1
  <2>2. CASE u = t /\ ~Has(contents', item'[u])
    BY <2>2
  <2> QED
    BY <1>3, <1>7, <2>1, <2>2
<1>8. \A u \in Threads : Mine(u)' => \/ Mine(u) /\ item'[u] = item[u]
                                     \/ u = t /\ Has(contents, item'[u])
  BY <1>3 DEF Mine
<1>9. ASSUME NEW u \in Threads, Mine(u)'
      PROVE  item'[u] \notin unsent' /\ \A v \in Threads \ {u} : Mine(v)' => item'[u] # item'[v]
  <2>1. \A y : Has(contents, y) => y \notin unsent /\ \A v \in Threads : Mine(v) => y # item[v]
    BY <1>2 DEF Outside, Mine
  <2> QED
    BY <1>2, <1>8, <1>9, <2>1
<1> QED
  BY <1>5, <1>6, <1>7, <1>9 DEF Private, Mine

\* What is left to show of a step of thread t: what it knows itself.
LEMMA InvKept ==
  ASSUME IInv, Types', NEW t \in Threads, (Empty \/ Full)', Evolves(t), unsent' = unsent,
         \A u \in Threads \ {t} : Same(u),
         Enqueuing(t)' => Enqueuing(t) /\ item'[t] = item[t],
         Took(t)' => \/ Took(t) /\ item'[t] = item[t]
                     \/ Has(contents, item'[t]) /\ ~Has(contents', item'[t]),
         Counted(t)', ReadTail(t)', ReadLink(t)', Known(t)'
  PROVE  IInv'
<1>1. Private'
  BY PrivateKept DEF Evolves
<1>2. \A u \in Threads \ {t} : Counted(u)' /\ ReadTail(u)' /\ ReadLink(u)' /\ Known(u)'
  BY OthersKnow
<1>3. \A u \in Threads : Counted(u)' /\ ReadTail(u)' /\ ReadLink(u)' /\ Known(u)'
  BY <1>2
<1> QED
  BY ONLY Types', (Empty \/ Full)', <1>1, <1>3 DEF IInv

\* A thread that begins a call or has returned from one knows nothing.
LEMMA NothingKnown ==
  ASSUME NEW t \in Threads, pc'[t] \in {"idle", "snapHead"}
  PROVE  Counted(t)' /\ ReadTail(t)' /\ ReadLink(t)' /\ Known(t)'
BY DEF Counted, ReadTail, ReadLink, Known, HeadPcs, TailPcs

LEMMA AgainIs ==
  ASSUME TypeOK, NEW t \in Threads, NEW from, Again(t, from)
  PROVE  /\ pc[t] = from /\ pc'[t] = "snapHead" /\ op'[t] = op[t] /\ item'[t] = item[t]
         /\ unsent' = unsent /\ \A u \in Threads \ {t} : Same(u)
BY DropType DEF TypeOK, Again, Same

LEMMA ReturnIs ==
  ASSUME TypeOK, NEW t \in Threads, NEW from, Return(t, from)
  PROVE  /\ pc[t] = from /\ pc'[t] = "idle" /\ op'[t] = "deq"
         /\ unsent' = unsent /\ \A u \in Threads \ {t} : Same(u)
BY DropType DEF TypeOK, Return, Same

LEMMA InvAgain ==
  ASSUME IInv, Types', NEW t \in Threads, NEW from, from \notin {"linkTail", "claimHead"},
         Again(t, from), (Empty \/ Full)', Evolves(t)
  PROVE  IInv'
<1>1. TypeOK
  BY DEF IInv, Types
<1>2. /\ pc[t] = from /\ pc'[t] = "snapHead" /\ op'[t] = op[t] /\ item'[t] = item[t]
      /\ unsent' = unsent /\ \A u \in Threads \ {t} : Same(u)
  BY <1>1, AgainIs
<1>3. Counted(t)' /\ ReadTail(t)' /\ ReadLink(t)' /\ Known(t)'
  BY <1>2, NothingKnown
<1>4. /\ Enqueuing(t)' => Enqueuing(t) /\ item'[t] = item[t]
      /\ ~Took(t)'
  BY <1>2
<1> HIDE DEF Enqueuing, Took
<1> QED
  BY <1>2, <1>3, <1>4, InvKept

LEMMA InvReturn ==
  ASSUME IInv, Types', NEW t \in Threads, NEW from,
         Return(t, from), (Empty \/ Full)', Evolves(t)
  PROVE  IInv'
<1>1. TypeOK
  BY DEF IInv, Types
<1>2. /\ pc'[t] = "idle" /\ op'[t] = "deq"
      /\ unsent' = unsent /\ \A u \in Threads \ {t} : Same(u)
  BY <1>1, ReturnIs
<1>3. Counted(t)' /\ ReadTail(t)' /\ ReadLink(t)' /\ Known(t)'
  BY <1>2, NothingKnown
<1>4. ~Enqueuing(t)' /\ ~Took(t)'
  BY <1>2
<1> HIDE DEF Enqueuing, Took
<1> QED
  BY <1>2, <1>3, <1>4, InvKept

\* A step that changes no shared word.
LEMMA EvolvesNot ==
  ASSUME IInv, NEW t \in Threads, UNCHANGED list
  PROVE  (Empty \/ Full)' /\ Evolves(t)
<1>1. Evolves(t)
  BY EvolvesStutter
<1>2. UNCHANGED <<head, tail, next, contents>>
  BY DEF list
<1>3. NextPtr' = NextPtr /\ Last' = Last
  BY <1>2 DEF NextPtr, Last
<1> QED
  BY <1>1, <1>2, <1>3 DEF IInv, Empty, Full

LEMMA InvCall ==
  ASSUME IInv, Types', NEW t \in Threads, Call(t)
  PROVE  IInv'
<1>1. TypeOK
  BY DEF IInv, Types
<1>2. UNCHANGED list /\ UNCHANGED private /\ pc' = [pc EXCEPT ![t] = "snapHead"] /\ pc[t] = "idle"
  BY DEF Call, CallDequeue, CallEnqueue
<1>3. (Empty \/ Full)' /\ Evolves(t)
  BY <1>2, EvolvesNot
<1>4. pc'[t] = "snapHead"
  BY <1>1, <1>2 DEF TypeOK
<1>5. Counted(t)' /\ ReadTail(t)' /\ ReadLink(t)' /\ Known(t)'
  BY <1>4, NothingKnown
<1>6. CASE CallDequeue(t)
  <2>1. /\ \A u \in Threads \ {t} : Same(u)
        /\ unsent' = unsent /\ item'[t] = item[t] /\ op'[t] = op[t] /\ op[t] = "deq"
    BY <1>1, <1>2, <1>6 DEF CallDequeue, Same, TypeOK, private, IInv, Types, LocalsSet
  <2>2. ~Enqueuing(t)' /\ ~Took(t)'
    BY <1>4, <2>1
  <2> HIDE DEF Enqueuing, Took
  <2> QED
    BY <1>3, <1>5, <2>1, <2>2, InvKept
<1>7. ASSUME NEW x \in Items, CallEnqueue(t, x) PROVE IInv'
  <2>1. /\ \A u \in Threads \ {t} : Same(u)
        /\ x \in unsent /\ unsent' = unsent \ {x} /\ item'[t] = x /\ op'[t] = "enq"
    BY <1>1, <1>2, <1>7 DEF CallEnqueue, Same, TypeOK, private
  <2>2. \A y : /\ Outside(y)' <=> Outside(y)
               /\ Unlinked(y)' <=> Unlinked(y)
               /\ Has(contents', y) <=> Has(contents, y)
    BY <1>2 DEF list, Outside, Unlinked
  <2>3. /\ \A u \in Threads \ {t} : (Enqueuing(u)' <=> Enqueuing(u)) /\ (Took(u)' <=> Took(u))
                                    /\ item'[u] = item[u]
        /\ ~Took(t)'
    BY <1>4, <2>1 DEF Same
  <2> HIDE DEF Enqueuing, Took
  <2>4. Private'
    <3> USE DEF IInv, Private
    <3>1. \A y \in unsent' : Outside(y)' /\ Unlinked(y)'
      BY <2>1, <2>2
    <3>2. \A u \in Threads : Enqueuing(u)' => (Outside(item[u]) /\ Unlinked(item[u]))'
      <4> SUFFICES ASSUME NEW u \in Threads, Enqueuing(u)'
                   PROVE  /\ ~Has(contents', item'[u])
                          /\ head'.ptr # item'[u] /\ tail'.ptr # item'[u]
                          /\ next'[item'[u]].ptr = Null /\ next'[item'[u]].mark = "ENQ"
        BY DEF Outside, Unlinked
      <4>1. Outside(item'[u]) /\ Unlinked(item'[u])
        BY <2>1, <2>3
      <4> QED
        BY <1>2, <4>1 DEF Outside, Unlinked, list
    <3>3. \A u \in Threads : Took(u)' => ~Has(contents', item'[u])
      BY <2>2, <2>3
    <3>4. \A u \in Threads : (Enqueuing(u) \/ Took(u))' =>
            /\ item'[u] \notin unsent'
            /\ \A v \in Threads \ {u} : (Enqueuing(v) \/ Took(v))' => item'[u] # item'[v]
      BY <2>1, <2>3
    <3> QED
      BY <3>1, <3>2, <3>3, <3>4 DEF Outside, Unlinked
  <2>5. \A u \in Threads \ {t} : Counted(u)' /\ ReadTail(u)' /\ ReadLink(u)' /\ Known(u)'
    BY <1>3, <2>1, OthersKnow
  <2>6. \A u \in Threads : Counted(u)' /\ ReadTail(u)' /\ ReadLink(u)' /\ Known(u)'
    BY <1>5, <2>5
  <2> QED
    BY ONLY Types', <1>3, <2>4, <2>6 DEF IInv
<1> QED
  BY <1>6, <1>7 DEF Call

\* The first words of the snapshot.
LEMMA InvSnapHead ==
  ASSUME IInv, Types', NEW t \in Threads, SnapHead(t)
  PROVE  IInv'
<1>1. TypeOK
  BY DEF IInv, Types
<1>2. UNCHANGED list /\ pc[t] = "snapHead" /\ pc'[t] = "snapTail" /\ phead'[t] = head
  BY <1>1 DEF SnapHead, TypeOK
<1>3. /\ \A u \in Threads \ {t} : Same(u)
      /\ unsent' = unsent /\ item'[t] = item[t] /\ op'[t] = op[t]
  BY <1>1 DEF SnapHead, Same, TypeOK
<1>4. (Empty \/ Full)' /\ Evolves(t)
  BY <1>2, EvolvesNot
<1>5. head.counter <= head.counter
  BY <1>1, WordsType DEF Counters
<1>6. Counted(t)'
  BY <1>2, <1>5 DEF list, Counted, HeadPcs, TailPcs, SameHead
<1>7. ReadTail(t)' /\ ReadLink(t)' /\ Known(t)'
  BY <1>2 DEF ReadTail, ReadLink, Known
<1>8. (Enqueuing(t)' => Enqueuing(t)) /\ ~Took(t)'
  BY <1>2, <1>3
<1> HIDE DEF Enqueuing, Took
<1> QED
  BY <1>3, <1>4, <1>6, <1>7, <1>8, InvKept

\* What head and tail say of the queue.
LEMMA WordsSay ==
  ASSUME TypeOK, Empty \/ Full
  PROVE  /\ tail.ptr = Null => Empty
         /\ tail.ptr # Null /\ head.ptr = Null =>
              Full /\ contents[1] = tail.ptr /\ Len(contents) = 1
         /\ tail.ptr # Null /\ tail.ptr # head.ptr => Full
         /\ Full => contents \in Seq(Items) /\ contents # <<>> /\ tail.ptr \in Items
<1>1. Full => contents \in Seq(Items) /\ contents # <<>> /\ tail.ptr \in Items
  BY DEF TypeOK, Full, LastTwo
<1>2. Full /\ head.ptr = Null => contents[1] = tail.ptr /\ Len(contents) = 1
  BY <1>1 DEF Full, LastTwo
<1> QED
  BY <1>1, <1>2 DEF Empty

LEMMA InvSnapTail ==
  ASSUME IInv, Types', NEW t \in Threads, SnapTail(t)
  PROVE  IInv'
<1>1. TypeOK /\ (Empty \/ Full) /\ Counted(t)
  BY DEF IInv, Types
<1>2. /\ UNCHANGED list /\ pc[t] = "snapTail"
      /\ pc'[t] = IF tail.ptr = Null THEN "snapTail2" ELSE "snapNext"
      /\ ptail'[t] = tail /\ phead'[t] = phead[t]
  BY <1>1 DEF SnapTail, TypeOK
<1>3. /\ \A u \in Threads \ {t} : Same(u)
      /\ unsent' = unsent /\ item'[t] = item[t] /\ op'[t] = op[t]
  BY <1>1 DEF SnapTail, Same, TypeOK
<1>4. (Empty \/ Full)' /\ Evolves(t)
  BY <1>2, EvolvesNot
<1>5. tail.counter <= tail.counter
  BY <1>1, WordsType DEF Counters
<1>6. Counted(t)'
  BY <1>1, <1>2, <1>5 DEF list, Counted, HeadPcs, TailPcs, SameHead, SameTail
<1>7. ReadTail(t)'
  <2>1. /\ tail.ptr = Null => contents = <<>>
        /\ head.ptr = Null /\ tail.ptr # Null => contents # <<>> /\ contents[1] = tail.ptr
        /\ head.ptr # Null /\ tail.ptr \notin {Null, head.ptr} => contents # <<>>
    BY <1>1, WordsSay DEF Empty
  <2> QED
    BY <1>2, <2>1 DEF ReadTail, SameHead, list
<1>8. ReadLink(t)' /\ Known(t)'
  BY <1>2 DEF ReadLink, Known
<1>9. (Enqueuing(t)' => Enqueuing(t)) /\ ~Took(t)'
  BY <1>2, <1>3
<1> HIDE DEF Enqueuing, Took
<1> QED
  BY <1>3, <1>4, <1>6, <1>7, <1>8, <1>9, InvKept

LEMMA InvSnapNext ==
  ASSUME IInv, Types', NEW t \in Threads, SnapNext(t)
  PROVE  IInv'
<1>1. TypeOK /\ (Empty \/ Full) /\ Counted(t) /\ ReadTail(t)
  BY DEF IInv, Types
<1>2. /\ UNCHANGED <<head, tail, next, contents>> /\ pc[t] = "snapNext" /\ pc'[t] = "snapTail2"
      /\ ptail'[t] = ptail[t] /\ phead'[t] = phead[t] /\ pnext'[t] = next[ptail[t].ptr]
      /\ ptail[t].ptr \in Items
  BY <1>1, WordsType DEF SnapNext, TypeOK, list, IInv, Types, LocalsSet
<1>3. /\ \A u \in Threads \ {t} : Same(u)
      /\ unsent' = unsent /\ item'[t] = item[t] /\ op'[t] = op[t]
  BY <1>1 DEF SnapNext, Same, TypeOK
<1>4. (Empty \/ Full)' /\ Evolves(t)
  BY <1>2, EvolvesNot DEF list
<1>5. next[ptail[t].ptr].counter <= next[ptail[t].ptr].counter
  BY <1>1, <1>2, WordsType DEF Counters
<1>6. Counted(t)'
  BY <1>1, <1>2, <1>5 DEF Counted, HeadPcs, TailPcs, SameHead, SameTail, SameNext
<1>7. ReadTail(t)'
  BY <1>1, <1>2 DEF ReadTail, SameHead
<1>8. ReadLink(t)'
  <2>1. SUFFICES ASSUME tail = ptail[t]
                 PROVE  LET n == next[tail.ptr]
                        IN  /\ n.ptr = Null /\ n.mark = "ENQ" => contents # <<>> /\ Last = tail.ptr
                            /\ n.ptr # Null => Follows(contents, tail.ptr, n.ptr)
                            /\ n.ptr = Null /\ n.mark = "DEQ" =>
                                 contents = <<>> /\ head.ptr = tail.ptr
    BY <1>2 DEF ReadLink, SameTail, SameHead, SameNext, Last
  <2>2. CASE Empty
    BY <1>2, <2>1, <2>2 DEF Empty
  <2>3. CASE Full
    <3>1. PICK i \in 1..Len(contents) : contents[i] = tail.ptr
      BY <2>3 DEF Full, LastTwo
    <3>2. /\ NextPtr[tail.ptr] = next[tail.ptr].ptr
          /\ NextPtr[tail.ptr] = IF i = Len(contents) THEN Null ELSE contents[i + 1]
          /\ contents # <<>> /\ next[Last].mark = "ENQ"
          /\ contents \in Seq(Items)
      BY <1>1, <1>2, <2>1, <2>3, <3>1 DEF Full, NextPtr, Spells, TypeOK
    <3>3. CASE i = Len(contents)
      BY <1>2, <2>1, <3>1, <3>2, <3>3 DEF Last
    <3>4. CASE i # Len(contents)
      <4>1. Follows(contents, tail.ptr, next[tail.ptr].ptr) /\ next[tail.ptr].ptr # Null
        BY <3>1, <3>2, <3>4 DEF Follows
      <4> QED
        BY <4>1
    <3> QED
      BY <3>3, <3>4
  <2> QED
    BY <1>1, <2>2, <2>3
<1>9. Known(t)'
  BY <1>2 DEF Known
<1>10. (Enqueuing(t)' => Enqueuing(t)) /\ ~Took(t)'
  BY <1>2, <1>3
<1> HIDE DEF Enqueuing, Took
<1> QED
  BY <1>3, <1>4, <1>6, <1>7, <1>8, <1>9, <1>10, InvKept

LEMMA InvSnapTail2 ==
  ASSUME IInv, Types', NEW t \in Threads, SnapTail2(t)
  PROVE  IInv'
<1>1. TypeOK /\ Counted(t) /\ ReadTail(t) /\ ReadLink(t)
  BY DEF IInv, Types
<1>2. /\ UNCHANGED <<head, tail, next, contents>> /\ pc[t] = "snapTail2"
      /\ phead'[t] = phead[t]
      /\ \/ /\ pc'[t] = "snapHead2" /\ tail = ptail[t]
            /\ ptail'[t] = ptail[t] /\ pnext'[t] = pnext[t]
         \/ pc'[t] = "snapTail"
  BY <1>1 DEF SnapTail2, TypeOK, list
<1>3. /\ \A u \in Threads \ {t} : Same(u)
      /\ unsent' = unsent /\ item'[t] = item[t] /\ op'[t] = op[t]
  BY <1>1 DEF SnapTail2, Same, TypeOK
<1>4. (Empty \/ Full)' /\ Evolves(t)
  BY <1>2, EvolvesNot DEF list
<1>5. Counted(t)'
  BY <1>1, <1>2 DEF Counted, HeadPcs, TailPcs, SameHead, SameTail, SameNext
<1>6. ReadTail(t)'
  BY <1>1, <1>2 DEF ReadTail, SameHead
<1>7. ReadLink(t)'
  BY <1>1, <1>2 DEF ReadLink, SameHead, SameTail, SameNext, Last
<1>8. Known(t)'
  BY <1>2 DEF Known
<1>9. (Enqueuing(t)' => Enqueuing(t)) /\ ~Took(t)'
  BY <1>2, <1>3
<1> HIDE DEF Enqueuing, Took
<1> QED
  BY <1>3, <1>4, <1>5, <1>6, <1>7, <1>8, <1>9, InvKept

\* The switch: each state of Figure 2 gives the step it leads to what that
\* step relies on.
LEMMA InvSnapHead2 ==
  ASSUME IInv, Types', NEW t \in Threads, SnapHead2(t)
  PROVE  IInv'
<1>1. TypeOK /\ (Empty \/ Full) /\ Counted(t) /\ ReadTail(t) /\ ReadLink(t)
  BY DEF IInv, Types
<1>2. UNCHANGED list
  BY DEF SnapHead2
<1>3. (Empty \/ Full)' /\ Evolves(t)
  BY <1>2, EvolvesNot
<1>4. CASE Again(t, "snapHead2")
  BY <1>3, <1>4, InvAgain
<1>5. CASE ~Again(t, "snapHead2")
  <2> DEFINE h == phead[t]
             l == ptail[t]
             n == pnext[t]
  <2>1. PICK k : k = IF op[t] = "enq" THEN EnqueueSwitch[DetermineState(t)]
                     ELSE DequeueSwitch[DetermineState(t)]
    OBVIOUS
  <2>2. /\ head = h /\ pc[t] = "snapHead2" /\ pc' = [pc EXCEPT ![t] = k]
        /\ UNCHANGED <<op, item, private, unsent>>
    BY <1>5, <2>1 DEF SnapHead2
  <2>3. Switched(t, k)
    BY <1>1, <2>1, SwitchTo
  <2>4. /\ pc'[t] = k /\ op'[t] = op[t] /\ item'[t] = item[t]
        /\ phead'[t] = h /\ ptail'[t] = l /\ pnext'[t] = n
        /\ \A u \in Threads \ {t} : Same(u)
    BY <1>1, <2>2 DEF TypeOK, private, Same
  <2>5. UNCHANGED <<head, tail, next, contents>> /\ unsent' = unsent
    BY <1>2, <2>2 DEF list
  <2>6. Counted(t)'
    BY <1>1, <2>2, <2>3, <2>4, <2>5
    DEF Switched, Counted, HeadPcs, TailPcs, SameHead, SameTail, SameNext
  <2>7. ReadTail(t)' /\ ReadLink(t)'
    BY <2>3, <2>4 DEF Switched, ReadTail, ReadLink
  <2>8. /\ h.ptr # Null /\ l.ptr = Null => contents = <<>> /\ tail.ptr = Null
        /\ h.ptr = Null /\ l.ptr # Null => contents # <<>> /\ contents[1] = l.ptr
        /\ h.ptr # Null /\ l.ptr \notin {Null, h.ptr} => contents # <<>> /\ tail.ptr # h.ptr
    BY <1>1, <2>2 DEF ReadTail, SameHead
  <2>9. l.ptr # Null =>
          /\ n.ptr = Null /\ n.mark = "ENQ" /\ next[l.ptr] = n =>
               contents # <<>> /\ Last = l.ptr /\ tail = l
          /\ n.ptr # Null /\ tail = l => Follows(contents, l.ptr, n.ptr)
          /\ n.ptr = Null /\ n.mark = "DEQ" =>
               /\ tail = l => contents = <<>>
               /\ h.ptr = l.ptr /\ contents = <<>> /\ (tail = l \/ tail.ptr = Null)
    BY <1>1, <2>2 DEF ReadLink, SameHead, SameTail, SameNext
  <2>10. n.mark \in {"ENQ", "DEQ"}
    BY <1>1, WordsType
  <2>11. contents # <<>> /\ Last = head.ptr => Len(contents) = 1
    <3> SUFFICES ASSUME contents # <<>>, Last = head.ptr PROVE Len(contents) = 1
      OBVIOUS
    <3>1. /\ contents \in Seq(Items) /\ NoRepeat(contents) /\ Last \in Items
          /\ head.ptr = contents[1] \/ head.ptr = Null
      BY <1>1 DEF Empty, Full, TypeOK, Last
    <3>2. contents[1] = contents[Len(contents)]
      BY <3>1 DEF Last
    <3>3. Len(contents) \in Nat /\ 1 \in 1..Len(contents) /\ Len(contents) \in 1..Len(contents)
      BY <3>1
    <3>4. \A i, j \in 1..Len(contents) : contents[i] = contents[j] => i = j
      BY <3>1 DEF NoRepeat
    <3> QED
      BY <3>2, <3>3, <3>4
  <2> HIDE DEF h, l, n
  <2>12. /\ k = "link" => n.mark = "ENQ" /\ head.ptr # Null
         /\ k \in {"link", "mark"} /\ next[l.ptr] = n => contents # <<>> /\ Last = l.ptr /\ tail = l
         /\ k = "mark" /\ next[l.ptr] = n => head = h /\ Len(contents) = 1
    BY <2>2, <2>3, <2>9, <2>10, <2>11 DEF Switched, h, l, n
  <2>13. /\ k \in {"helpTail", "reload"} /\ tail = l => Follows(contents, l.ptr, n.ptr)
         /\ k = "helpHead" => contents # <<>> /\ contents[1] = l.ptr
         /\ k = "nullTail" => contents = <<>> /\ (tail = l \/ tail.ptr = Null)
         /\ k = "nullHead" => contents = <<>> /\ tail.ptr = Null
         /\ k = "deqLoad" => contents # <<>> /\ tail.ptr # h.ptr
    BY <2>3, <2>8, <2>9 DEF Switched, h, l, n
  <2>14. k \in {"link", "claimTail", "deqLoad", "mark", "reload", "empty",
                "helpTail", "helpHead", "nullTail", "nullHead"}
    BY <2>3 DEF Switched
  <2>15. Known(t)'
    BY <2>2, <2>4, <2>5, <2>12, <2>13, <2>14
    DEF Known, SameHead, SameTail, SameNext, Last, h, l, n
  <2>16. (Enqueuing(t)' => Enqueuing(t)) /\ ~Took(t)'
    BY <2>2, <2>4, <2>14
  <2> HIDE DEF Enqueuing, Took
  <2> QED
    BY <1>3, <2>4, <2>5, <2>6, <2>7, <2>15, <2>16, InvKept
<1> QED
  BY <1>4, <1>5

----------------------------------------------------------------------------
(* Steps that help *)

LEMMA InvHelpTail ==
  ASSUME IInv, NoWrap, Types', NEW t \in Threads, HelpTail(t)
  PROVE  IInv' /\ Moves(t)
<1>1. TypeOK /\ (Empty \/ Full) /\ Known(t) /\ ptail[t].ptr # Null
  BY DEF IInv, Types, LocalsSet, HelpTail, Again
<1>2. /\ pc[t] = "helpTail" /\ Again(t, "helpTail") /\ CasTail(t, pnext[t].ptr)
      /\ UNCHANGED <<head, next, contents>>
  BY DEF HelpTail, Again
<1>3. CASE SameTail(t)
  <2>1. Follows(contents, tail.ptr, pnext[t].ptr)
    BY <1>1, <1>2, <1>3 DEF Known, SameTail
  <2>2. Full
    BY <1>1, <2>1 DEF Empty, Follows
  <2>3. TailMove
    BY <1>1, <1>2, <1>3, <2>1, <2>2, CasIs DEF TailMove
  <2>4. Full' /\ Evolves(t)
    BY <1>1, <2>3, TailStep
  <2> QED
    BY <1>2, <2>3, <2>4, InvAgain DEF Moves
<1>4. CASE ~SameTail(t)
  <2>1. UNCHANGED list
    BY <1>1, <1>2, <1>4, CasIs DEF list
  <2> QED
    BY <1>2, <2>1, EvolvesNot, InvAgain DEF Moves
<1> QED
  BY <1>3, <1>4

LEMMA InvHelpHead ==
  ASSUME IInv, NoWrap, Types', NEW t \in Threads, HelpHead(t)
  PROVE  IInv' /\ Moves(t)
<1>1. TypeOK /\ (Empty \/ Full) /\ Known(t) /\ phead[t].ptr = Null
  BY DEF IInv, Types, LocalsSet, HelpHead, Again
<1>2. /\ pc[t] = "helpHead" /\ Again(t, "helpHead") /\ CasHead(t, ptail[t].ptr)
      /\ UNCHANGED <<tail, next, contents>>
  BY DEF HelpHead, Again
<1>3. CASE SameHead(t)
  <2>1. contents # <<>> /\ contents[1] = ptail[t].ptr /\ head.ptr = Null
    BY <1>1, <1>2, <1>3 DEF Known, SameHead
  <2>2. Full
    BY <1>1, <2>1 DEF Empty
  <2>3. HeadMove
    BY <1>1, <1>2, <1>3, <2>1, <2>2, CasIs DEF HeadMove
  <2>4. Full' /\ Evolves(t)
    BY <1>1, <2>3, HeadStep
  <2> QED
    BY <1>2, <2>3, <2>4, InvAgain DEF Moves
<1>4. CASE ~SameHead(t)
  <2>1. UNCHANGED list
    BY <1>1, <1>2, <1>4, CasIs DEF list
  <2> QED
    BY <1>2, <2>1, EvolvesNot, InvAgain DEF Moves
<1> QED
  BY <1>3, <1>4

\* A pointer of the list that is not null leads to the next object.
LEMMA LinkLeads ==
  ASSUME TypeOK, Full, NEW m, NEW n, Follows(contents, m, n)
  PROVE  m \in Items /\ next[m].ptr = n /\ n \in Items
<1>1. /\ contents \in Seq(Items) /\ Spells(contents, NextPtr, Null)
      /\ NextPtr = [x \in Items |-> next[x].ptr]
  BY DEF TypeOK, Full, NextPtr
<1>2. PICK i \in 1..(Len(contents) - 1) : contents[i] = m /\ contents[i + 1] = n
  BY DEF Follows
<1>3. /\ i \in 1..Len(contents) /\ i + 1 \in 1..Len(contents) /\ i # Len(contents)
  BY <1>1
<1>4. NextPtr[m] = n /\ m \in Items /\ n \in Items
  BY <1>1, <1>2, <1>3 DEF Spells
<1> QED
  BY <1>1, <1>4

LEMMA InvReload ==
  ASSUME IInv, Types', NEW t \in Threads, Reload(t)
  PROVE  IInv'
<1>1. TypeOK /\ (Empty \/ Full) /\ Counted(t) /\ Known(t)
  BY DEF IInv, Types
<1>2. /\ UNCHANGED <<head, tail, next, contents>> /\ pc[t] = "reload" /\ pc'[t] = "helpTail"
      /\ ptail'[t] = ptail[t] /\ phead'[t] = phead[t] /\ pnext'[t] = next[ptail[t].ptr]
  BY <1>1 DEF Reload, TypeOK, list
<1>3. /\ \A u \in Threads \ {t} : Same(u)
      /\ unsent' = unsent /\ item'[t] = item[t] /\ op'[t] = op[t]
  BY <1>1 DEF Reload, Same, TypeOK
<1>4. (Empty \/ Full)' /\ Evolves(t)
  BY <1>2, EvolvesNot DEF list
<1>5. Counted(t)'
  BY <1>1, <1>2 DEF Counted, HeadPcs, TailPcs, SameHead, SameTail
<1>6. ReadTail(t)' /\ ReadLink(t)'
  BY <1>2 DEF ReadTail, ReadLink
<1>7. SameTail(t) => Follows(contents, ptail[t].ptr, next[ptail[t].ptr].ptr)
  <2> SUFFICES ASSUME SameTail(t) PROVE Follows(contents, ptail[t].ptr, next[ptail[t].ptr].ptr)
    OBVIOUS
  <2>1. Follows(contents, ptail[t].ptr, pnext[t].ptr)
    BY <1>1, <1>2 DEF Known
  <2>2. Full
    BY <1>1, <2>1 DEF Empty, Follows
  <2>3. next[ptail[t].ptr].ptr = pnext[t].ptr
    BY <1>1, <2>1, <2>2, LinkLeads
  <2> QED
    BY <2>1, <2>3
<1>8. Known(t)'
  BY <1>2, <1>7 DEF Known, SameTail
<1>9. (Enqueuing(t)' => Enqueuing(t)) /\ ~Took(t)'
  BY <1>2, <1>3
<1> HIDE DEF Enqueuing, Took
<1> QED
  BY <1>3, <1>4, <1>5, <1>6, <1>8, <1>9, InvKept

LEMMA InvNullTail ==
  ASSUME IInv, NoWrap, Types', NEW t \in Threads, NullTail(t)
  PROVE  IInv' /\ Moves(t)
<1>1. /\ TypeOK /\ (Empty \/ Full) /\ Counted(t) /\ Known(t) /\ ptail[t].ptr # Null
      /\ pc[t] = "markTail" => item[t] = phead[t].ptr /\ item[t] # Null
  BY DEF IInv, Types, TypeOK, LocalsSet, NullTail
<1>2. /\ \/ pc[t] = "nullTail" /\ pc'[t] = "nullHead"
         \/ pc[t] = "markTail" /\ pc'[t] = "markHead"
      /\ CasTail(t, Null) /\ UNCHANGED <<head, next, contents>>
      /\ phead'[t] = phead[t] /\ ptail'[t] = ptail[t] /\ pnext'[t] = pnext[t]
  BY <1>1 DEF NullTail, TypeOK, private
<1>3. /\ \A u \in Threads \ {t} : Same(u)
      /\ unsent' = unsent /\ item'[t] = item[t] /\ op'[t] = op[t]
  BY <1>1 DEF NullTail, Same, TypeOK, private
<1>4. /\ SameTail(t) => contents = <<>>
      /\ SameHead(t) => contents = <<>> /\ (SameTail(t) \/ tail.ptr = Null)
      /\ pc[t] = "markTail" /\ head.ptr = item[t] => SameHead(t)
      /\ pc[t] = "markTail" /\ tail.ptr = item[t] => SameTail(t)
  BY <1>1, <1>2 DEF Known
<1>5. /\ SameTail(t) => tail' = Pointer(Null, tail.counter + 1) /\ tail'.ptr = Null
                        /\ tail'.counter = tail.counter + 1
      /\ ~SameTail(t) => tail' = tail
  BY <1>1, <1>2, CasIs DEF Pointer
<1>6. (Empty \/ Full)' /\ Evolves(t) /\ Moves(t)
  <2>1. CASE SameTail(t)
    <3>1. Empty
      BY <1>1, <1>4, <2>1 DEF Full
    <3>2. TailNullMove
      BY <1>1, <1>2, <1>5, <2>1, <3>1 DEF TailNullMove, SameTail
    <3> QED
      BY <1>1, <3>2, TailNullStep DEF Moves
  <2>2. CASE ~SameTail(t)
    BY <1>2, <1>5, <2>2, EvolvesNot DEF list, Moves
  <2> QED
    BY <2>1, <2>2
<1>7. Counted(t)'
  <2>1. tail.counter \in Nat /\ ptail[t].counter \in Nat
    BY <1>1, WordsType DEF Counters
  <2>2. /\ phead[t].counter <= head.counter
        /\ phead[t].counter = head.counter => head = phead[t]
        /\ ptail[t].counter <= tail.counter
        /\ ptail[t].counter = tail.counter => tail = ptail[t]
    BY <1>1, <1>2 DEF Counted, HeadPcs, TailPcs, SameHead, SameTail
  <2> QED
    BY <1>2, <1>5, <2>1, <2>2 DEF Counted, SameHead, SameTail
<1>8. ReadTail(t)' /\ ReadLink(t)'
  BY <1>2 DEF ReadTail, ReadLink
<1>9. SameHead(t)' => SameHead(t)
  BY <1>2 DEF SameHead
<1>10. Known(t)'
  BY <1>1, <1>2, <1>3, <1>4, <1>5, <1>9 DEF Known, SameHead
<1>11. (Enqueuing(t)' => Enqueuing(t)) /\ (Took(t)' => Took(t))
  BY <1>2, <1>3
<1> HIDE DEF Enqueuing, Took
<1> QED
  BY <1>3, <1>6, <1>7, <1>8, <1>10, <1>11, InvKept

LEMMA InvNullHead ==
  ASSUME IInv, NoWrap, Types', NEW t \in Threads, NullHead(t)
  PROVE  IInv' /\ Moves(t)
<1>1. /\ TypeOK /\ (Empty \/ Full) /\ Known(t) /\ phead[t].ptr # Null
      /\ pc[t] = "markHead" => /\ item[t] = phead[t].ptr /\ item[t] # Null
                               /\ ~Has(contents, item[t])
  BY DEF IInv, Types, TypeOK, LocalsSet, NullHead, Again, Private
<1>2. /\ CasHead(t, Null) /\ UNCHANGED <<tail, next, contents>>
      /\ pc[t] \in {"nullHead", "markHead"}
  BY DEF NullHead, Again
<1>3. /\ SameHead(t) => contents = <<>> /\ tail.ptr = Null
      /\ pc[t] = "markHead" => tail.ptr # item[t] /\ (head.ptr = item[t] => SameHead(t))
  BY <1>1, <1>2 DEF Known
<1>4. /\ SameHead(t) => head' = Pointer(Null, head.counter + 1) /\ head'.ptr = Null
      /\ ~SameHead(t) => head' = head
  BY <1>1, <1>2, CasIs DEF Pointer
<1>5. (Empty \/ Full)' /\ Evolves(t) /\ Moves(t)
  <2>1. CASE SameHead(t)
    <3>1. Empty /\ head.ptr # Null
      BY <1>1, <1>3, <2>1 DEF Full, SameHead
    <3>2. HeadNullMove
      BY <1>2, <1>3, <1>4, <2>1, <3>1 DEF HeadNullMove
    <3> QED
      BY <1>1, <3>2, HeadNullStep DEF Moves
  <2>2. CASE ~SameHead(t)
    BY <1>2, <1>4, <2>2, EvolvesNot DEF list, Moves
  <2> QED
    BY <2>1, <2>2
<1>6. CASE Again(t, "nullHead")
  BY <1>5, <1>6, InvAgain
<1>7. CASE Goto(t, "markHead", "delinkLoad") /\ DropPrivate(t) /\ UNCHANGED <<op, item, unsent>>
  <2>1. /\ pc[t] = "markHead" /\ pc'[t] = "delinkLoad"
        /\ unsent' = unsent /\ item'[t] = item[t] /\ op'[t] = op[t]
        /\ \A u \in Threads \ {t} : Same(u)
    BY <1>1, <1>7, DropType DEF TypeOK, Same
  <2>2. Counted(t)' /\ ReadTail(t)' /\ ReadLink(t)'
    BY <2>1 DEF Counted, ReadTail, ReadLink, HeadPcs, TailPcs
  <2>3. ~Has(contents', item[t]) /\ head'.ptr # item[t] /\ tail'.ptr # item[t]
    BY <1>1, <1>2, <1>3, <1>4, <2>1
  <2>4. Known(t)'
    BY <2>1, <2>3 DEF Known, Outside
  <2>5. ~Enqueuing(t)' /\ Took(t)
    BY <2>1 DEF IInv, Types, LocalsSet
  <2> HIDE DEF Enqueuing, Took
  <2> QED
    BY <1>5, <2>1, <2>2, <2>4, <2>5, InvKept
<1> QED
  BY <1>6, <1>7 DEF NullHead

----------------------------------------------------------------------------
(* Steps of enqueue *)

LEMMA InvLinkNext ==
  ASSUME IInv, NoWrap, Types', NEW t \in Threads, LinkNext(t)
  PROVE  IInv' /\ Moves(t)
<1>1. /\ TypeOK /\ (Empty \/ Full) /\ Counted(t) /\ Known(t)
      /\ pc[t] = "link" /\ op[t] = "enq" /\ item[t] \in Items /\ ptail[t].ptr \in Items
  BY WordsType DEF IInv, Types, TypeOK, LocalsSet, LinkNext, Again
<1>2. UNCHANGED <<head, tail>>
  BY DEF LinkNext
<1>3. CASE Again(t, "link") /\ UNCHANGED <<next, contents>>
  BY <1>2, <1>3, EvolvesNot, InvAgain DEF list, Moves
<1>4. CASE ~(Again(t, "link") /\ UNCHANGED <<next, contents>>)
  <2>1. /\ pc' = [pc EXCEPT ![t] = "linkTail"]
        /\ next[ptail[t].ptr] = pnext[t]
        /\ next' = [next EXCEPT ![ptail[t].ptr] = Link(item[t], Inc(pnext[t].counter), "ENQ")]
        /\ contents' = Append(contents, item[t])
        /\ UNCHANGED <<op, item, private, unsent>>
    BY <1>4 DEF LinkNext
  <2>2. /\ pc'[t] = "linkTail" /\ op'[t] = op[t] /\ item'[t] = item[t] /\ unsent' = unsent
        /\ phead'[t] = phead[t] /\ ptail'[t] = ptail[t] /\ pnext'[t] = pnext[t]
        /\ \A u \in Threads \ {t} : Same(u)
    BY <1>1, <2>1 DEF TypeOK, private, Same
  <2>3. contents # <<>> /\ Last = ptail[t].ptr /\ tail = ptail[t] /\ head.ptr # Null
    BY <1>1, <2>1 DEF Known, SameNext, SameTail
  <2>4. Full
    BY <1>1, <2>3 DEF Empty
  <2>5. Inc(pnext[t].counter) = next[Last].counter + 1
    BY <1>1, <2>1, <2>3, IncIs
  <2>6. Outside(item[t]) /\ Unlinked(item[t]) /\ Enqueuing(t) /\ ~Enqueuing(t)'
    BY <1>1, <2>2 DEF IInv, Private
  <2>7. next' = [next EXCEPT ![Last] = Link(item[t], next[Last].counter + 1, "ENQ")]
    BY <2>1, <2>3, <2>5
  <2>8. LinkMove(t)
    BY <1>1, <1>2, <2>1, <2>3, <2>4, <2>6, <2>7 DEF LinkMove
  <2>9. Full' /\ Evolves(t) /\ Follows(contents', tail.ptr, item[t])
    BY <1>1, <2>8, LinkStep
  <2>10. Counted(t)'
    BY <1>1, <1>2, <2>2 DEF Counted, HeadPcs, TailPcs, SameHead, SameTail
  <2>11. ReadTail(t)' /\ ReadLink(t)'
    BY <2>2 DEF ReadTail, ReadLink
  <2>12. Known(t)'
    BY <2>2, <2>3, <2>9 DEF Known
  <2>13. ~Took(t)'
    BY <2>2
  <2> HIDE DEF Enqueuing, Took
  <2> QED
    BY <2>2, <2>6, <2>8, <2>9, <2>10, <2>11, <2>12, <2>13, InvKept DEF Moves
<1> QED
  BY <1>3, <1>4

LEMMA InvLinkTail ==
  ASSUME IInv, NoWrap, Types', NEW t \in Threads, LinkTail(t)
  PROVE  IInv' /\ Moves(t)
<1>1. TypeOK /\ (Empty \/ Full) /\ Known(t)
  BY DEF IInv, Types
<1>2. /\ pc[t] = "linkTail" /\ Return(t, "linkTail") /\ CasTail(t, item[t])
      /\ UNCHANGED <<head, next, contents>>
  BY DEF LinkTail, Return
<1>3. CASE SameTail(t)
  <2>1. Follows(contents, tail.ptr, item[t])
    BY <1>1, <1>2, <1>3 DEF Known, SameTail
  <2>2. Full
    BY <1>1, <2>1 DEF Empty, Follows
  <2>3. TailMove
    BY <1>1, <1>2, <1>3, <2>1, <2>2, CasIs DEF TailMove
  <2>4. Full' /\ Evolves(t)
    BY <1>1, <2>3, TailStep
  <2> QED
    BY <1>2, <2>3, <2>4, InvReturn DEF Moves
<1>4. CASE ~SameTail(t)
  <2>1. UNCHANGED list
    BY <1>1, <1>2, <1>4, CasIs DEF list
  <2> QED
    BY <1>2, <2>1, EvolvesNot, InvReturn DEF Moves
<1> QED
  BY <1>3, <1>4

LEMMA InvClaimTail ==
  ASSUME IInv, NoWrap, Types', NEW t \in Threads, ClaimTail(t)
  PROVE  IInv' /\ Moves(t)
<1>1. /\ TypeOK /\ (Empty \/ Full) /\ Counted(t) /\ Known(t)
      /\ pc[t] = "claimTail" /\ op[t] = "enq" /\ item[t] \in Items
      /\ phead[t].ptr = Null /\ ptail[t].ptr = Null
  BY WordsType DEF IInv, Types, TypeOK, LocalsSet, ClaimTail, Again
<1>2. UNCHANGED <<head, next>> /\ CasTail(t, item[t])
  BY DEF ClaimTail
<1>3. CASE Again(t, "claimTail") /\ tail # ptail[t] /\ UNCHANGED contents
  <2>1. UNCHANGED list
    BY <1>1, <1>2, <1>3, CasIs DEF list, SameTail
  <2> QED
    BY <1>3, <2>1, EvolvesNot, InvAgain DEF Moves
<1>4. CASE ~(Again(t, "claimTail") /\ tail # ptail[t] /\ UNCHANGED contents)
  <2>1. /\ pc' = [pc EXCEPT ![t] = "claimHead"] /\ tail = ptail[t]
        /\ contents' = Append(contents, item[t])
        /\ UNCHANGED <<op, item, private, unsent>>
    BY <1>4 DEF ClaimTail
  <2>2. /\ pc'[t] = "claimHead" /\ op'[t] = op[t] /\ item'[t] = item[t] /\ unsent' = unsent
        /\ phead'[t] = phead[t] /\ ptail'[t] = ptail[t] /\ pnext'[t] = pnext[t]
        /\ \A u \in Threads \ {t} : Same(u)
    BY <1>1, <2>1 DEF TypeOK, private, Same
  <2>3. head = phead[t] /\ head.ptr = Null /\ tail.ptr = Null
    BY <1>1, <2>1 DEF Known, SameTail, SameHead
  <2>4. Empty
    BY <1>1, <2>3, WordsSay
  <2>5. Unlinked(item[t]) /\ Enqueuing(t) /\ ~Enqueuing(t)'
    BY <1>1, <2>2 DEF IInv, Private
  <2>6. tail' = Pointer(item[t], tail.counter + 1)
    BY <1>1, <1>2, <2>1, CasIs DEF SameTail
  <2>0. ClaimMove(t)
    BY <1>1, <1>2, <2>1, <2>3, <2>4, <2>5, <2>6 DEF ClaimMove
  <2>7. Full' /\ Evolves(t) /\ contents' # <<>> /\ contents'[1] = item[t]
    BY <1>1, <2>0, ClaimStep
  <2>8. Counted(t)'
    <3>1. tail.counter \in Nat /\ tail'.counter = tail.counter + 1
      BY <1>1, <2>6, CountIs DEF Pointer
    <3> QED
      BY <1>1, <1>2, <2>1, <2>2, <3>1 DEF Counted, HeadPcs, TailPcs, SameHead, SameTail
  <2>9. ReadTail(t)' /\ ReadLink(t)'
    BY <2>2 DEF ReadTail, ReadLink
  <2>10. Known(t)'
    BY <2>2, <2>7 DEF Known
  <2>11. ~Took(t)'
    BY <2>2
  <2> HIDE DEF Enqueuing, Took
  <2> QED
    BY <2>2, <2>5, <2>0, <2>7, <2>8, <2>9, <2>10, <2>11, InvKept DEF Moves
<1> QED
  BY <1>3, <1>4

LEMMA InvClaimHead ==
  ASSUME IInv, NoWrap, Types', NEW t \in Threads, ClaimHead(t)
  PROVE  IInv' /\ Moves(t)
<1>1. TypeOK /\ (Empty \/ Full) /\ Known(t) /\ phead[t].ptr = Null
  BY DEF IInv, Types, LocalsSet, ClaimHead, Return
<1>2. /\ pc[t] = "claimHead" /\ Return(t, "claimHead") /\ CasHead(t, item[t])
      /\ UNCHANGED <<tail, next, contents>>
  BY DEF ClaimHead, Return
<1>3. CASE SameHead(t)
  <2>1. contents # <<>> /\ contents[1] = item[t] /\ head.ptr = Null
    BY <1>1, <1>2, <1>3 DEF Known, SameHead
  <2>2. Full
    BY <1>1, <2>1 DEF Empty
  <2>3. HeadMove
    BY <1>1, <1>2, <1>3, <2>1, <2>2, CasIs DEF HeadMove
  <2>4. Full' /\ Evolves(t)
    BY <1>1, <2>3, HeadStep
  <2> QED
    BY <1>2, <2>3, <2>4, InvReturn DEF Moves
<1>4. CASE ~SameHead(t)
  <2>1. UNCHANGED list
    BY <1>1, <1>2, <1>4, CasIs DEF list
  <2> QED
    BY <1>2, <2>1, EvolvesNot, InvReturn DEF Moves
<1> QED
  BY <1>3, <1>4

----------------------------------------------------------------------------
(* Steps of dequeue *)

LEMMA InvDeqLoad ==
  ASSUME IInv, Types', NEW t \in Threads, DeqLoad(t)
  PROVE  IInv'
<1>1. TypeOK /\ (Empty \/ Full) /\ Counted(t) /\ Known(t) /\ phead[t].ptr # Null
  BY DEF IInv, Types, LocalsSet, DeqLoad
<1>2. /\ UNCHANGED <<head, tail, next, contents>> /\ pc[t] = "deqLoad" /\ pc'[t] = "deqSwing"
      /\ ptail'[t] = ptail[t] /\ phead'[t] = phead[t] /\ pnext'[t] = next[phead[t].ptr]
  BY <1>1 DEF DeqLoad, TypeOK, list
<1>3. /\ \A u \in Threads \ {t} : Same(u)
      /\ unsent' = unsent /\ item'[t] = item[t] /\ op'[t] = op[t]
  BY <1>1 DEF DeqLoad, Same, TypeOK
<1>4. (Empty \/ Full)' /\ Evolves(t)
  BY <1>2, EvolvesNot DEF list
<1>5. Counted(t)'
  BY <1>1, <1>2 DEF Counted, HeadPcs, TailPcs, SameHead, SameTail
<1>6. ReadTail(t)' /\ ReadLink(t)'
  BY <1>2 DEF ReadTail, ReadLink
<1>7. SameHead(t) => contents # <<>> /\ tail.ptr # phead[t].ptr
  BY <1>1, <1>2 DEF Known
<1>8. SameHead(t) => Follows(contents, phead[t].ptr, next[phead[t].ptr].ptr)
  <2> SUFFICES ASSUME SameHead(t)
               PROVE  Follows(contents, head.ptr, next[head.ptr].ptr)
    BY DEF SameHead
  <2>1. Full /\ head.ptr = contents[1] /\ tail.ptr # head.ptr /\ contents \in Seq(Items)
    BY <1>1, <1>7 DEF Empty, Full, SameHead, TypeOK
  <2>2. Len(contents) >= 2
    BY <2>1 DEF Full, LastTwo
  <2>3. Follows(contents, head.ptr, contents[2])
    BY <2>1, <2>2 DEF Follows
  <2> QED
    BY <1>1, <2>1, <2>3, LinkLeads
<1>9. Known(t)'
  BY <1>2, <1>7, <1>8 DEF Known, SameHead
<1>10. (Enqueuing(t)' => Enqueuing(t)) /\ ~Took(t)'
  BY <1>2, <1>3
<1> HIDE DEF Enqueuing, Took
<1> QED
  BY <1>3, <1>4, <1>5, <1>6, <1>9, <1>10, InvKept

LEMMA InvDeqSwing ==
  ASSUME IInv, NoWrap, Types', NEW t \in Threads, DeqSwing(t)
  PROVE  IInv' /\ Moves(t)
<1>1. /\ TypeOK /\ (Empty \/ Full) /\ Known(t) /\ phead[t].ptr # Null
      /\ pc[t] = "deqSwing" /\ op[t] = "deq"
  BY DEF IInv, Types, LocalsSet, DeqSwing, Again
<1>2. UNCHANGED <<tail, next>> /\ CasHead(t, pnext[t].ptr)
  BY DEF DeqSwing
<1>3. CASE Again(t, "deqSwing") /\ head # phead[t] /\ UNCHANGED contents
  <2>1. UNCHANGED list
    BY <1>1, <1>2, <1>3, CasIs DEF list, SameHead
  <2> QED
    BY <1>3, <2>1, EvolvesNot, InvAgain DEF Moves
<1>4. CASE ~(Again(t, "deqSwing") /\ head # phead[t] /\ UNCHANGED contents)
  <2>1. /\ pc' = [pc EXCEPT ![t] = "delinkLoad"] /\ head = phead[t]
        /\ item' = [item EXCEPT ![t] = phead[t].ptr]
        /\ contents' = WithoutFirst /\ DropPrivate(t) /\ UNCHANGED <<op, unsent>>
    BY <1>4 DEF DeqSwing
  <2>2. /\ pc'[t] = "delinkLoad" /\ op'[t] = op[t] /\ item'[t] = head.ptr /\ unsent' = unsent
        /\ \A u \in Threads \ {t} : Same(u)
    BY <1>1, <2>1, DropType DEF TypeOK, Same
  <2>3. /\ contents # <<>> /\ tail.ptr # head.ptr /\ head.ptr # Null
        /\ Follows(contents, head.ptr, pnext[t].ptr)
    BY <1>1, <2>1 DEF Known, SameHead
  <2>4. Full /\ contents' = Tail(contents)
    BY <1>1, <2>1, <2>3, RestIs DEF Empty
  <2>5. head' = Pointer(pnext[t].ptr, head.counter + 1)
    BY <1>1, <1>2, <2>1, CasIs DEF SameHead
  <2>0. SwingMove
    BY <1>2, <2>3, <2>4, <2>5 DEF SwingMove
  <2>6. /\ Full' /\ Evolves(t) /\ Has(contents, head.ptr)
        /\ ~Has(contents', head.ptr) /\ head'.ptr # head.ptr
    BY <1>1, <2>0, SwingStep
  <2>7. Counted(t)' /\ ReadTail(t)' /\ ReadLink(t)'
    BY <2>2 DEF Counted, ReadTail, ReadLink, HeadPcs, TailPcs
  <2>8. Known(t)'
    BY <1>2, <2>2, <2>3, <2>6 DEF Known, Outside
  <2>9. ~Enqueuing(t)'
    BY <1>1, <2>2
  <2> HIDE DEF Enqueuing, Took
  <2> QED
    BY <2>2, <2>0, <2>6, <2>7, <2>8, <2>9, InvKept DEF Moves
<1> QED
  BY <1>3, <1>4

LEMMA InvMark ==
  ASSUME IInv, NoWrap, Types', NEW t \in Threads, Mark(t)
  PROVE  IInv' /\ Moves(t)
<1>1. /\ TypeOK /\ (Empty \/ Full) /\ Counted(t) /\ Known(t)
      /\ pc[t] = "mark" /\ op[t] = "deq" /\ phead[t].ptr \in Items
      /\ ptail[t].ptr = phead[t].ptr /\ pnext[t].ptr = Null
  BY WordsType DEF IInv, Types, TypeOK, LocalsSet, Mark, Again
<1>2. UNCHANGED <<head, tail>>
  BY DEF Mark
<1>3. CASE Again(t, "mark") /\ UNCHANGED <<next, contents>>
  BY <1>2, <1>3, EvolvesNot, InvAgain DEF list, Moves
<1>4. CASE ~(Again(t, "mark") /\ UNCHANGED <<next, contents>>)
  <2>1. /\ pc' = [pc EXCEPT ![t] = "markTail"]
        /\ next[ptail[t].ptr] = pnext[t]
        /\ next' = [next EXCEPT ![ptail[t].ptr] =
                      Link(pnext[t].ptr, Inc(pnext[t].counter), "DEQ")]
        /\ item' = [item EXCEPT ![t] = phead[t].ptr]
        /\ contents' = WithoutFirst
        /\ UNCHANGED <<op, private, unsent>>
    BY <1>4 DEF Mark
  <2>2. /\ pc'[t] = "markTail" /\ op'[t] = op[t] /\ item'[t] = phead[t].ptr /\ unsent' = unsent
        /\ phead'[t] = phead[t] /\ ptail'[t] = ptail[t] /\ pnext'[t] = pnext[t]
        /\ \A u \in Threads \ {t} : Same(u)
    BY <1>1, <2>1 DEF TypeOK, private, Same
  <2>3. /\ contents # <<>> /\ Last = ptail[t].ptr /\ tail = ptail[t] /\ head = phead[t]
        /\ Len(contents) = 1 /\ head.ptr # Null
    BY <1>1, <2>1 DEF Known, SameNext, SameTail, SameHead
  <2>4. Full /\ contents' = Tail(contents)
    BY <1>1, <2>1, <2>3, RestIs DEF Empty
  <2>5. Inc(pnext[t].counter) = next[Last].counter + 1
    BY <1>1, <2>1, <2>3, IncIs
  <2>6. next' = [next EXCEPT ![Last] = Link(Null, next[Last].counter + 1, "DEQ")]
    BY <1>1, <2>1, <2>3, <2>5
  <2>7. MarkMove
    BY <1>2, <2>3, <2>4, <2>6 DEF MarkMove
  <2>8. /\ Empty' /\ Evolves(t) /\ contents' = <<>>
        /\ Has(contents, head.ptr) /\ ~Has(contents', head.ptr)
    BY <1>1, <2>7, MarkStep
  <2>9. Counted(t)'
    BY <1>1, <1>2, <2>2 DEF Counted, HeadPcs, TailPcs, SameHead, SameTail
  <2>10. ReadTail(t)' /\ ReadLink(t)'
    BY <2>2 DEF ReadTail, ReadLink
  <2>11. Known(t)'
    BY <1>2, <2>2, <2>3, <2>8 DEF Known, SameHead, SameTail
  <2>12. ~Enqueuing(t)'
    BY <1>1, <2>2
  <2> HIDE DEF Enqueuing, Took
  <2> QED
    BY <2>2, <2>3, <2>7, <2>8, <2>9, <2>10, <2>11, <2>12, InvKept DEF Moves
<1> QED
  BY <1>3, <1>4

LEMMA InvDelinkLoad ==
  ASSUME IInv, Types', NEW t \in Threads, DelinkLoad(t)
  PROVE  IInv'
<1>1. TypeOK /\ Known(t)
  BY DEF IInv, Types
<1>2. /\ UNCHANGED <<head, tail, next, contents>> /\ pc[t] = "delinkLoad"
      /\ pc'[t] = "delinkStore" /\ pnext'[t] = next[item[t]]
  BY <1>1 DEF DelinkLoad, TypeOK, list
<1>3. /\ \A u \in Threads \ {t} : Same(u)
      /\ unsent' = unsent /\ item'[t] = item[t] /\ op'[t] = op[t]
  BY <1>1 DEF DelinkLoad, Same, TypeOK
<1>4. (Empty \/ Full)' /\ Evolves(t)
  BY <1>2, EvolvesNot DEF list
<1>5. Counted(t)' /\ ReadTail(t)' /\ ReadLink(t)'
  BY <1>2 DEF Counted, ReadTail, ReadLink, HeadPcs, TailPcs
<1>6. Known(t)'
  BY <1>1, <1>2, <1>3 DEF Known, Outside
<1>7. (Enqueuing(t)' => Enqueuing(t)) /\ Took(t)
  BY <1>2, <1>3
<1> HIDE DEF Enqueuing, Took
<1> QED
  BY <1>3, <1>4, <1>5, <1>6, <1>7, InvKept

LEMMA InvDelinkStore ==
  ASSUME IInv, NoWrap, Types', NEW t \in Threads, DelinkStore(t)
  PROVE  IInv' /\ Moves(t)
<1>1. /\ TypeOK /\ (Empty \/ Full) /\ Known(t) /\ pc[t] = "delinkStore" /\ item[t] \in Items
  BY WordsType DEF IInv, Types, TypeOK, DelinkStore, Return
<1>2. /\ Return(t, "delinkStore") /\ UNCHANGED <<head, tail, contents>>
      /\ next' = [next EXCEPT ![item[t]] = Link(Null, Inc(pnext[t].counter), "ENQ")]
  BY DEF DelinkStore
<1>3. Outside(item[t]) /\ pnext[t] = next[item[t]] /\ Took(t) /\ ~Took(t)'
  BY <1>1, <1>2 DEF Known, Return, TypeOK
<1>4. Inc(pnext[t].counter) = next[item[t]].counter + 1
  BY <1>1, <1>3, IncIs
<1>5. DelinkMove(t)
  BY <1>1, <1>2, <1>3, <1>4 DEF DelinkMove
<1>6. (Empty \/ Full)' /\ Evolves(t)
  BY <1>1, <1>5, DelinkStep
<1> QED
  BY <1>2, <1>5, <1>6, InvReturn DEF Moves

----------------------------------------------------------------------------
(* The invariant *)

LEMMA InvInit == Init => IInv
<1> SUFFICES ASSUME Init PROVE IInv
  OBVIOUS
<1>1. Types
  BY TypesInit
<1>2. Empty
  BY NullType DEF Init, Empty
<1>3. Private
  <2>1. \A x \in Items : Outside(x) /\ Unlinked(x)
    BY NullType DEF Init, Outside, Unlinked, Has
  <2> QED
    BY <2>1 DEF Init, Private
<1>4. \A t \in Threads : Counted(t) /\ ReadTail(t) /\ ReadLink(t) /\ Known(t)
  BY DEF Init, Counted, ReadTail, ReadLink, Known, HeadPcs, TailPcs
<1> QED
  BY <1>1, <1>2, <1>3, <1>4 DEF IInv

LEMMA InvStep ==
  ASSUME IInv, NoWrap, Types', NEW t \in Threads, Step(t)
  PROVE  IInv'
<1>1. CASE Snapshot(t)
  BY <1>1, InvSnapHead, InvSnapTail, InvSnapNext, InvSnapTail2, InvSnapHead2 DEF Snapshot
<1>2. CASE Help(t)
  BY <1>2, InvHelpTail, InvHelpHead, InvNullTail, InvNullHead DEF Help
<1>3. CASE Enqueue(t)
  BY <1>3, InvLinkNext, InvLinkTail, InvClaimTail, InvClaimHead DEF Enqueue
<1>4. CASE Dequeue(t)
  <2>1. CASE DeqReturnEmpty(t)
    BY <2>1, EvolvesNot, InvReturn DEF DeqReturnEmpty
  <2> QED
    BY <1>4, <2>1, InvReload, InvDeqLoad, InvDeqSwing, InvMark, InvDelinkLoad, InvDelinkStore
    DEF Dequeue
<1> QED
  BY <1>1, <1>2, <1>3, <1>4 DEF Step

LEMMA InvNext == IInv /\ NoWrap /\ [Next]_vars => IInv'
<1> SUFFICES ASSUME IInv, NoWrap, [Next]_vars PROVE IInv'
  OBVIOUS
<1>1. Types'
  BY TypesNext DEF IInv
<1>2. CASE UNCHANGED vars
  <2>1. UNCHANGED <<head, tail, next, contents, pc, op, item, phead, ptail, pnext, unsent>>
    BY <1>2 DEF vars, list, private
  <2>2. (Empty \/ Full)'
    BY <2>1 DEF IInv, Empty, Full, NextPtr, Last
  <2>3. Private'
    BY <2>1 DEF IInv, Private, Outside, Unlinked
  <2>4. \A t \in Threads : Counted(t)' /\ ReadTail(t)' /\ ReadLink(t)' /\ Known(t)'
    BY <2>1 DEF IInv, Counted, ReadTail, ReadLink, Known, Outside, SameHead, SameTail, SameNext, Last
  <2> QED
    BY ONLY <1>1, <2>2, <2>3, <2>4 DEF IInv
<1> QED
  BY <1>1, <1>2, InvCall, InvStep DEF Next

LEMMA Invariant == Spec /\ []NoWrap => []IInv
BY InvInit, InvNext, PTL DEF Spec

LEMMA InvFigureTwo == IInv => FigureTwo
<1> SUFFICES ASSUME IInv PROVE FigureTwo
  OBVIOUS
<1>1. CASE Empty
  BY <1>1 DEF Empty, FigureTwo, QueueEmpty
<1>2. CASE Full
  <2>1. contents \in Seq(Items) /\ NextPtr = [x \in Items |-> next[x].ptr]
    BY DEF IInv, Types, TypeOK, NextPtr
  <2>2. \A i \in 1..Len(contents) :
          next[contents[i]].ptr = IF i = Len(contents) THEN Null ELSE contents[i + 1]
    BY <1>2, <2>1 DEF Full, Spells
  <2>3. tail.ptr = Last \/ (Len(contents) > 1 /\ tail.ptr = contents[Len(contents) - 1])
    <3>1. PICK i \in 1..Len(contents) : contents[i] = tail.ptr /\ Len(contents) <= i + 1
      BY <1>2 DEF Full, LastTwo
    <3>2. Len(contents) \in Nat
      BY <2>1
    <3>3. \A l \in Nat : \A j \in 1..l : l <= j + 1 => j = l \/ (j = l - 1 /\ l > 1)
      OBVIOUS
    <3>4. i = Len(contents) \/ (i = Len(contents) - 1 /\ Len(contents) > 1)
      BY <3>1, <3>2, <3>3
    <3>5. CASE i = Len(contents)
      BY <3>1, <3>5 DEF Last
    <3>6. CASE i = Len(contents) - 1 /\ Len(contents) > 1
      BY <3>1, <3>6
    <3> QED
      BY <3>4, <3>5, <3>6
  <2>4. Len(contents) \in Nat \ {0} /\ contents # <<>>
    BY <1>2, <2>1 DEF Full
  <2>5. \A i \in 1..(Len(contents) - 1) : next[contents[i]].ptr = contents[i + 1]
    BY <2>2, <2>4
  <2>6. next[Last].ptr = Null
    BY <2>2, <2>4 DEF Last
  <2> QED
    BY <1>2, <2>3, <2>4, <2>5, <2>6 DEF Full, FigureTwo, QueueNonEmpty
<1> QED
  BY <1>1, <1>2 DEF IInv

\* As long as no counter has wrapped, the queue is in one of the states of
\* Figure 2 after every step of every thread, so that DetermineState tells
\* apart all there is.
THEOREM FigureTwoHolds == Spec /\ []NoWrap => []FigureTwo
BY Invariant, InvFigureTwo, PTL

\* Who changes a link: the one that links behind it or marks it, with the
\* link just compared, and the one that delinks its own object.
LEMMA LinkCountedStep ==
  IInv /\ [Next]_vars =>
    [\A x \in Items : next'[x] # next[x] => next'[x].counter = Inc(next[x].counter)]_vars
<1> SUFFICES ASSUME IInv, Next, NEW x \in Items, next'[x] # next[x]
             PROVE  next'[x].counter = Inc(next[x].counter)
  OBVIOUS
<1>1. PICK t \in Threads : Call(t) \/ Step(t)
  BY DEF Next
<1>2. TypeOK /\ Known(t)
  BY DEF IInv, Types
<1>3. next' # next
  OBVIOUS
<1>4. LinkNext(t) \/ Mark(t) \/ DelinkStore(t)
  BY <1>1, <1>3
  DEF Call, CallEnqueue, CallDequeue, Step, Snapshot, Help, Enqueue, Dequeue, list,
      SnapHead, SnapTail, SnapNext, SnapTail2, SnapHead2, HelpTail, HelpHead, NullTail, NullHead,
      LinkTail, ClaimTail, ClaimHead, Reload, DeqLoad, DeqSwing, DelinkLoad, DeqReturnEmpty
<1>5. CASE LinkNext(t)
  <2>1. /\ next[ptail[t].ptr] = pnext[t]
        /\ next' = [next EXCEPT ![ptail[t].ptr] = Link(item[t], Inc(pnext[t].counter), "ENQ")]
    BY <1>3, <1>5 DEF LinkNext
  <2> QED
    BY <1>2, <2>1 DEF TypeOK, Link
<1>6. CASE Mark(t)
  <2>1. /\ next[ptail[t].ptr] = pnext[t]
        /\ next' = [next EXCEPT ![ptail[t].ptr] =
                      Link(pnext[t].ptr, Inc(pnext[t].counter), "DEQ")]
    BY <1>3, <1>6 DEF Mark
  <2> QED
    BY <1>2, <2>1 DEF TypeOK, Link
<1>7. CASE DelinkStore(t)
  <2>1. /\ next' = [next EXCEPT ![item[t]] = Link(Null, Inc(pnext[t].counter), "ENQ")]
        /\ pnext[t] = next[item[t]]
    BY <1>2, <1>7 DEF DelinkStore, Return, Known
  <2> QED
    BY <1>2, <2>1 DEF TypeOK, Link
<1> QED
  BY <1>4, <1>5, <1>6, <1>7

\* As long as no counter has wrapped, none is set back: the link that dequeue
\* loads before it delinks its object is still there when it stores.
THEOREM LinksAreCounted == Spec /\ []NoWrap => LinkCounted
BY Invariant, LinkCountedStep, PTL DEF Spec, LinkCounted

----------------------------------------------------------------------------
(* PLJQueue implements FifoQueue *)

Stage == [t \in Threads |-> StageOf(t)]

\* A step of thread t alone changes the stage of thread t alone.
LEMMA StageStep ==
  ASSUME NEW t \in Threads, \A u \in Threads \ {t} : Same(u)
  PROVE  Stage' = [Stage EXCEPT ![t] = StageOf(t)']
<1>1. \A u \in Threads \ {t} : StageOf(u)' = StageOf(u)
  BY DEF StageOf, Same
<1> QED
  BY <1>1 DEF Stage

\* A step that passes no stage and leaves the queue alone is no step of FifoQueue.
LEMMA Silent ==
  ASSUME NEW t \in Threads, \A u \in Threads \ {t} : Same(u), StageOf(t)' = StageOf(t),
         UNCHANGED <<contents, item>>
  PROVE  UNCHANGED Fifo!vars
<1>1. Stage' = Stage
  BY StageStep DEF Stage
<1> QED
  BY <1>1 DEF Fifo!vars, Stage

\* A call that starts over: after it has read a null tail it may try again.
LEMMA FifoAgain ==
  ASSUME TypeOK, NEW t \in Threads, NEW from, Again(t, from),
         from \notin {"idle", "linkTail", "claimHead", "empty"}, ~Took(t), contents' = contents
  PROVE  Fifo!Next \/ UNCHANGED Fifo!vars
<1>1. /\ pc[t] = from /\ pc'[t] = "snapHead" /\ op'[t] = op[t] /\ item' = item
      /\ op[t] \in {"enq", "deq"} /\ \A u \in Threads \ {t} : Same(u)
  BY AgainIs DEF TypeOK, Again
<1>2. /\ StageOf(t)' = op[t]
      /\ StageOf(t) \in {op[t], "deqEmpty"}
  BY <1>1 DEF StageOf
<1>3. CASE StageOf(t) = op[t]
  BY <1>1, <1>2, <1>3, Silent
<1>4. CASE StageOf(t) # op[t]
  <2>1. op[t] = "deq" /\ StageOf(t) = "deqEmpty"
    BY <1>1, <1>2, <1>4 DEF StageOf
  <2>2. Stage' = [Stage EXCEPT ![t] = "deq"] /\ Stage[t] = "deqEmpty"
    BY <1>1, <1>2, <2>1, StageStep DEF Stage
  <2>3. Fifo!Retry(t)
    BY <1>1, <2>2 DEF Fifo!Retry, Fifo!Pass, Stage
  <2> QED
    BY <2>3 DEF Fifo!Next
<1> QED
  BY <1>3, <1>4

LEMMA FifoReturn ==
  ASSUME TypeOK, NEW t \in Threads, NEW from, Return(t, from),
         StageOf(t) \in {"enqDone", "deqDone"}, contents' = contents
  PROVE  Fifo!Next
<1>1. pc'[t] = "idle" /\ \A u \in Threads \ {t} : Same(u)
  BY ReturnIs
<1>2. StageOf(t)' = "idle"
  BY <1>1 DEF StageOf
<1>3. /\ Stage' = [Stage EXCEPT ![t] = "idle"] /\ Stage[t] = StageOf(t)
      /\ item' = [item EXCEPT ![t] = Null]
  BY <1>1, <1>2, StageStep DEF Stage, Return
<1>4. Fifo!ReturnEnqueue(t) \/ Fifo!ReturnDequeue(t)
  BY <1>3 DEF Fifo!ReturnEnqueue, Fifo!ReturnDequeue, Fifo!Pass, Stage
<1> QED
  BY <1>4 DEF Fifo!Next

LEMMA FifoCall ==
  ASSUME IInv, NEW t \in Threads, Call(t)
  PROVE  Fifo!Next
<1>1. TypeOK /\ (pc[t] = "idle" => op[t] = "deq")
  BY DEF IInv, Types, LocalsSet
<1>2. CASE CallDequeue(t)
  <2>1. /\ StageOf(t) = "idle" /\ StageOf(t)' = "deq" /\ UNCHANGED <<contents, item>>
        /\ \A u \in Threads \ {t} : Same(u)
    BY <1>1, <1>2 DEF CallDequeue, list, private, StageOf, TypeOK, Same
  <2>2. Stage' = [Stage EXCEPT ![t] = "deq"] /\ Stage[t] = "idle"
    BY <2>1, StageStep DEF Stage
  <2>3. Fifo!CallDequeue(t)
    BY <2>1, <2>2 DEF Fifo!CallDequeue, Fifo!Pass, Stage
  <2> QED
    BY <2>3 DEF Fifo!Next
<1>3. ASSUME NEW x \in Items, CallEnqueue(t, x) PROVE Fifo!Next
  <2>1. /\ StageOf(t) = "idle" /\ StageOf(t)' = "enq" /\ contents' = contents
        /\ item' = [item EXCEPT ![t] = x] /\ \A u \in Threads \ {t} : Same(u)
    BY <1>1, <1>3 DEF CallEnqueue, list, private, StageOf, TypeOK, Same
  <2>2. Stage' = [Stage EXCEPT ![t] = "enq"] /\ Stage[t] = "idle"
    BY <2>1, StageStep DEF Stage
  <2>3. Fifo!CallEnqueue(t, x)
    BY <2>1, <2>2 DEF Fifo!CallEnqueue, Fifo!Pass, Stage
  <2> QED
    BY <2>3 DEF Fifo!Next
<1> QED
  BY <1>2, <1>3 DEF Call

\* The second read of a null tail is the instant at which a dequeue that
\* returns false takes effect: an empty tail means an empty queue.
LEMMA FifoSnapshot ==
  ASSUME IInv, NEW t \in Threads, Snapshot(t)
  PROVE  Fifo!Next \/ UNCHANGED Fifo!vars
<1>1. TypeOK /\ (Empty \/ Full)
  BY DEF IInv, Types
<1>2. CASE SnapHead(t) \/ SnapTail(t) \/ SnapNext(t)
  <2>1. /\ UNCHANGED <<contents, item>> /\ \A u \in Threads \ {t} : Same(u)
        /\ op'[t] = op[t] /\ pc[t] \in {"snapHead", "snapTail", "snapNext"}
        /\ pc'[t] \in {"snapTail", "snapTail2", "snapNext"}
    BY <1>1, <1>2 DEF SnapHead, SnapTail, SnapNext, TypeOK, Same, list
  <2>2. StageOf(t)' = StageOf(t)
    BY <2>1 DEF StageOf
  <2> QED
    BY <2>1, <2>2, Silent
<1>3. CASE SnapTail2(t)
  <2>1. /\ UNCHANGED <<contents, item>> /\ \A u \in Threads \ {t} : Same(u)
        /\ op'[t] = op[t] /\ pc[t] = "snapTail2" /\ StageOf(t) = op[t]
    BY <1>1, <1>3 DEF SnapTail2, TypeOK, Same, list, StageOf
  <2>2. \/ pc'[t] = "snapHead2" /\ tail = ptail[t] /\ ptail'[t] = ptail[t]
        \/ pc'[t] = "snapTail"
    BY <1>1, <1>3 DEF SnapTail2, TypeOK
  <2>3. CASE pc'[t] = "snapHead2" /\ op[t] = "deq" /\ ptail'[t].ptr = Null
    <3>1. StageOf(t)' = "deqEmpty"
      BY <2>1, <2>3 DEF StageOf
    <3>2. contents = <<>>
      BY <1>1, <2>2, <2>3, WordsSay DEF Empty
    <3>3. Stage' = [Stage EXCEPT ![t] = "deqEmpty"] /\ Stage[t] = "deq"
      BY <2>1, <2>3, <3>1, StageStep DEF Stage
    <3>4. Fifo!ObserveEmpty(t)
      BY <2>1, <3>2, <3>3 DEF Fifo!ObserveEmpty, Fifo!Pass, Stage
    <3> QED
      BY <3>4 DEF Fifo!Next
  <2>4. CASE ~(pc'[t] = "snapHead2" /\ op[t] = "deq" /\ ptail'[t].ptr = Null)
    <3>1. StageOf(t)' = op[t]
      BY <2>1, <2>2, <2>4 DEF StageOf
    <3> QED
      BY <2>1, <3>1, Silent
  <2> QED
    BY <2>3, <2>4
<1>4. CASE SnapHead2(t)
  <2>1. UNCHANGED contents
    BY <1>4 DEF SnapHead2, list
  <2>2. CASE Again(t, "snapHead2")
    <3>1. pc[t] = "snapHead2"
      BY <2>2 DEF Again
    <3>2. ~Took(t)
      BY <3>1
    <3> HIDE DEF Took
    <3> QED
      BY <1>1, <2>1, <2>2, <3>2, FifoAgain
  <2>3. CASE ~Again(t, "snapHead2")
    <3>1. PICK k : k = IF op[t] = "enq" THEN EnqueueSwitch[DetermineState(t)]
                       ELSE DequeueSwitch[DetermineState(t)]
      OBVIOUS
    <3>2. /\ pc[t] = "snapHead2" /\ pc' = [pc EXCEPT ![t] = k]
          /\ UNCHANGED <<op, item, private, unsent>>
      BY <1>4, <2>3, <3>1 DEF SnapHead2
    <3>3. Switched(t, k)
      BY <1>1, <3>1, SwitchTo
    <3>4. /\ pc'[t] = k /\ op'[t] = op[t] /\ op[t] \in {"enq", "deq"} /\ item' = item
          /\ \A u \in Threads \ {t} : Same(u)
      BY <1>1, <3>2 DEF TypeOK, private, Same
    <3>5. /\ k \in {"link", "claimTail", "deqLoad", "mark", "reload", "empty",
                    "helpTail", "helpHead", "nullTail", "nullHead"}
          /\ k = "empty" => op[t] = "deq" /\ ptail[t].ptr = Null
      BY <3>3, <3>4 DEF Switched
    <3>6. /\ StageOf(t) = IF op[t] = "deq" /\ ptail[t].ptr = Null THEN "deqEmpty" ELSE op[t]
          /\ StageOf(t)' = IF k = "empty" THEN "deqEmpty" ELSE op[t]
      BY <3>2, <3>4, <3>5 DEF StageOf
    <3>7. CASE StageOf(t)' = StageOf(t)
      BY <2>1, <3>4, <3>7, Silent
    <3>8. CASE StageOf(t)' # StageOf(t)
      <4>1. Stage' = [Stage EXCEPT ![t] = "deq"] /\ Stage[t] = "deqEmpty"
        BY <3>4, <3>5, <3>6, <3>8, StageStep DEF Stage
      <4>2. Fifo!Retry(t)
        BY <2>1, <3>4, <4>1 DEF Fifo!Retry, Fifo!Pass, Stage
      <4> QED
        BY <4>2 DEF Fifo!Next
    <3> QED
      BY <3>7, <3>8
  <2> QED
    BY <2>2, <2>3
<1> QED
  BY <1>2, <1>3, <1>4 DEF Snapshot

LEMMA FifoHelp ==
  ASSUME IInv, NEW t \in Threads, Help(t)
  PROVE  Fifo!Next \/ UNCHANGED Fifo!vars
<1>1. TypeOK
  BY DEF IInv, Types
<1>2. CASE Again(t, "helpTail") \/ Again(t, "helpHead") \/ Again(t, "nullHead")
  <2>1. contents' = contents /\ ~Took(t)
    BY <1>2 DEF Help, HelpTail, HelpHead, NullTail, NullHead, Again
  <2> HIDE DEF Took
  <2> QED
    BY <1>1, <1>2, <2>1, FifoAgain
<1>3. CASE NullTail(t)
  <2>1. /\ UNCHANGED <<contents, item>> /\ \A u \in Threads \ {t} : Same(u)
        /\ op'[t] = op[t] /\ StageOf(t)' = StageOf(t)
    BY <1>1, <1>3 DEF NullTail, TypeOK, Same, private, StageOf
  <2> QED
    BY <2>1, Silent
<1>4. CASE NullHead(t) /\ ~Again(t, "nullHead")
  <2>1. /\ UNCHANGED <<contents, item>> /\ \A u \in Threads \ {t} : Same(u)
        /\ pc[t] = "markHead" /\ pc'[t] = "delinkLoad"
    BY <1>1, <1>4, DropType DEF NullHead, TypeOK, Same
  <2>2. StageOf(t)' = StageOf(t)
    BY <2>1 DEF StageOf
  <2> QED
    BY <2>1, <2>2, Silent
<1> QED
  BY <1>2, <1>3, <1>4 DEF Help, HelpTail, HelpHead

\* The enqueue takes effect when it links its object or makes it the tail.
LEMMA FifoEnqueue ==
  ASSUME IInv, NEW t \in Threads, Enqueue(t)
  PROVE  Fifo!Next \/ UNCHANGED Fifo!vars
<1>1. TypeOK /\ (pc[t] \in EnqueuePcs => op[t] = "enq")
  BY DEF IInv, Types, LocalsSet
<1>2. CASE LinkTail(t) \/ ClaimHead(t)
  <2>1. contents' = contents /\ StageOf(t) = "enqDone"
    BY <1>2 DEF LinkTail, ClaimHead, Return, StageOf
  <2> QED
    BY <1>1, <1>2, <2>1, FifoReturn DEF LinkTail, ClaimHead
<1>3. CASE (Again(t, "link") \/ Again(t, "claimTail")) /\ contents' = contents
  <2>1. ~Took(t)
    BY <1>3 DEF Again
  <2> HIDE DEF Took
  <2> QED
    BY <1>1, <1>3, <2>1, FifoAgain
<1>4. CASE /\ Goto(t, "link", "linkTail") \/ Goto(t, "claimTail", "claimHead")
           /\ contents' = Append(contents, item[t]) /\ UNCHANGED <<op, item, private>>
  <2>1. /\ StageOf(t) = "enq" /\ StageOf(t)' = "enqDone" /\ \A u \in Threads \ {t} : Same(u)
    BY <1>1, <1>4 DEF TypeOK, Same, private, StageOf
  <2>2. Stage' = [Stage EXCEPT ![t] = "enqDone"] /\ Stage[t] = "enq"
    BY <2>1, StageStep DEF Stage
  <2>3. Fifo!CommitEnqueue(t)
    BY <1>4, <2>2 DEF Fifo!CommitEnqueue, Fifo!Pass, Stage
  <2> QED
    BY <2>3 DEF Fifo!Next
<1> QED
  BY <1>2, <1>3, <1>4 DEF Enqueue, LinkNext, ClaimTail

\* The dequeue takes effect when it moves the head off the first object, or
\* marks the only one.
LEMMA FifoTake ==
  ASSUME IInv, NEW t \in Threads, contents # <<>>, contents' = WithoutFirst,
         item' = [item EXCEPT ![t] = contents[1]], StageOf(t) = "deq", StageOf(t)' = "deqDone",
         \A u \in Threads \ {t} : Same(u)
  PROVE  Fifo!Next
<1>1. contents' = Tail(contents) /\ contents[1] = Head(contents)
  BY RestIs DEF IInv, Types, TypeOK
<1>2. Stage' = [Stage EXCEPT ![t] = "deqDone"] /\ Stage[t] = "deq"
  BY StageStep DEF Stage
<1>3. Fifo!CommitDequeue(t)
  BY <1>1, <1>2 DEF Fifo!CommitDequeue, Fifo!Pass, Stage
<1> QED
  BY <1>3 DEF Fifo!Next

LEMMA FifoDequeue ==
  ASSUME IInv, NEW t \in Threads, Dequeue(t)
  PROVE  Fifo!Next \/ UNCHANGED Fifo!vars
<1>1. /\ TypeOK /\ (Empty \/ Full) /\ Known(t) /\ (pc[t] \in DequeuePcs => op[t] = "deq")
      /\ pc[t] \in {"mark", "deqSwing"} => phead[t].ptr # Null
      /\ pc[t] = "empty" => item[t] = Null
  BY DEF IInv, Types, LocalsSet
<1>2. CASE Reload(t) \/ DeqLoad(t) \/ DelinkLoad(t)
  <2>1. /\ UNCHANGED <<contents, item>> /\ \A u \in Threads \ {t} : Same(u)
        /\ op'[t] = op[t] /\ StageOf(t)' = StageOf(t)
    BY <1>1, <1>2 DEF Reload, DeqLoad, DelinkLoad, TypeOK, Same, list, StageOf
  <2> QED
    BY <2>1, Silent
<1>3. CASE (Again(t, "deqSwing") \/ Again(t, "mark")) /\ contents' = contents
  <2>1. ~Took(t)
    BY <1>3 DEF Again
  <2> HIDE DEF Took
  <2> QED
    BY <1>1, <1>3, <2>1, FifoAgain
<1>4. CASE DeqSwing(t) /\ ~(Again(t, "deqSwing") /\ contents' = contents)
  <2>1. /\ pc[t] = "deqSwing" /\ pc' = [pc EXCEPT ![t] = "delinkLoad"] /\ head = phead[t]
        /\ item' = [item EXCEPT ![t] = phead[t].ptr] /\ op' = op
        /\ contents' = WithoutFirst /\ DropPrivate(t)
    BY <1>4 DEF DeqSwing
  <2>2. contents # <<>> /\ head.ptr # Null
    BY <1>1, <2>1 DEF Known, SameHead
  <2>3. phead[t].ptr = contents[1]
    BY <1>1, <2>1, <2>2 DEF Empty, Full
  <2>4. /\ StageOf(t) = "deq" /\ StageOf(t)' = "deqDone" /\ \A u \in Threads \ {t} : Same(u)
    BY <1>1, <2>1, DropType DEF TypeOK, Same, StageOf
  <2> QED
    BY <2>1, <2>2, <2>3, <2>4, FifoTake
<1>5. CASE Mark(t) /\ ~(Again(t, "mark") /\ contents' = contents)
  <2>1. /\ pc[t] = "mark" /\ pc' = [pc EXCEPT ![t] = "markTail"]
        /\ next[ptail[t].ptr] = pnext[t] /\ item' = [item EXCEPT ![t] = phead[t].ptr]
        /\ contents' = WithoutFirst /\ UNCHANGED <<op, private>>
    BY <1>5 DEF Mark
  <2>2. contents # <<>> /\ head = phead[t] /\ head.ptr # Null
    BY <1>1, <2>1 DEF Known, SameHead, SameNext
  <2>3. phead[t].ptr = contents[1]
    BY <1>1, <2>2 DEF Empty, Full
  <2>4. /\ StageOf(t) = "deq" /\ StageOf(t)' = "deqDone" /\ \A u \in Threads \ {t} : Same(u)
    BY <1>1, <2>1 DEF TypeOK, Same, StageOf, private
  <2> QED
    BY <2>1, <2>2, <2>3, <2>4, FifoTake
<1>6. CASE DelinkStore(t)
  <2>1. contents' = contents /\ StageOf(t) = "deqDone"
    BY <1>6 DEF DelinkStore, Return, StageOf
  <2> QED
    BY <1>1, <1>6, <2>1, FifoReturn DEF DelinkStore
<1>7. CASE DeqReturnEmpty(t)
  <2>1. /\ pc[t] = "empty" /\ pc'[t] = "idle" /\ contents' = contents /\ item' = item
        /\ \A u \in Threads \ {t} : Same(u)
    BY <1>1, <1>7, ReturnIs DEF DeqReturnEmpty, Return, TypeOK, list
  <2>2. StageOf(t) = "deqEmpty" /\ StageOf(t)' = "idle"
    BY <1>1, <2>1 DEF StageOf
  <2>3. Stage' = [Stage EXCEPT ![t] = "idle"] /\ Stage[t] = "deqEmpty"
    BY <2>1, <2>2, StageStep DEF Stage
  <2>4. Fifo!ReturnEmpty(t)
    BY <2>1, <2>3 DEF Fifo!ReturnEmpty, Fifo!Pass, Stage
  <2> QED
    BY <2>4 DEF Fifo!Next
<1> QED
  BY <1>2, <1>3, <1>4, <1>5, <1>6, <1>7 DEF Dequeue, DeqSwing, Mark

LEMMA FifoInit == Init => Fifo!Init
BY DEF Init, Fifo!Init, StageOf

LEMMA FifoNext == IInv /\ [Next]_vars => [Fifo!Next]_(Fifo!vars)
<1> SUFFICES ASSUME IInv, [Next]_vars PROVE Fifo!Next \/ UNCHANGED Fifo!vars
  OBVIOUS
<1>1. CASE UNCHANGED vars
  <2>1. UNCHANGED <<contents, item, pc, op, ptail>>
    BY <1>1 DEF vars, list, private
  <2> QED
    BY <2>1 DEF Fifo!vars, StageOf
<1>2. CASE Next
  BY <1>2, FifoCall, FifoSnapshot, FifoHelp, FifoEnqueue, FifoDequeue DEF Next, Step
<1> QED
  BY <1>1, <1>2

\* As long as no counter has wrapped, PLJQueue implements FifoQueue: every
\* call takes effect at one instant between its call and its return, in FIFO
\* order, and a dequeue that returns false saw the queue empty.
THEOREM IsLinearizableUntilWrap == Spec /\ []NoWrap => Linearizable
BY Invariant, FifoInit, FifoNext, PTL DEF Spec, Linearizable, Fifo!Spec

----------------------------------------------------------------------------
(* How far the counters get: no object causes more than two updates of a   *)
(* word, so none wraps before half as many objects have been enqueued      *)

\* The objects that are or have been in the queue.
Entered == {x \in Items : x \notin unsent /\ \A t \in Threads : Enqueuing(t) => item[t] # x}

OneIf(b) == IF b THEN 1 ELSE 0

\* Every object becomes the tail once and leaves it once, for null; one update
\* is to come while the tail lags behind, one while it is not null.
TailSpent ==
  tail.counter + OneIf(contents # <<>> /\ tail.ptr # Last) + OneIf(tail.ptr # Null)

\* The same for the head: one update is to come for each object in the queue,
\* one more while it is null beside an object, or not null beside none.
HeadSpent ==
  head.counter + Len(contents) + OneIf((head.ptr = Null) <=> (contents # <<>>))

\* A link is written when an object is linked or marked, and when delinked.
LinkSpent ==
  /\ \A x \in Items :
       /\ next[x].counter <= 2
       /\ x \notin Entered => next[x].counter = 0
       /\ Has(contents, x) => next[x].counter <= 1
       /\ contents # <<>> /\ x = Last => next[x].counter = 0
  /\ \A t \in Threads : Took(t) => next[item[t]].counter <= 1

Budget ==
  /\ TailSpent <= 2 * Cardinality(Entered)
  /\ HeadSpent <= 2 * Cardinality(Entered)
  /\ LinkSpent

LEMMA MovesStep ==
  ASSUME IInv, NoWrap, Types', NEW t \in Threads, Call(t) \/ Step(t)
  PROVE  Moves(t)
<1>1. CASE Call(t) \/ Snapshot(t) \/ Reload(t) \/ DeqLoad(t) \/ DelinkLoad(t) \/ DeqReturnEmpty(t)
  BY <1>1
  DEF Moves, Call, CallDequeue, CallEnqueue, Snapshot, SnapHead, SnapTail, SnapNext, SnapTail2,
      SnapHead2, Reload, DeqLoad, DelinkLoad, DeqReturnEmpty
<1>2. CASE Help(t)
  BY <1>2, InvHelpTail, InvHelpHead, InvNullTail, InvNullHead DEF Help
<1>3. CASE Enqueue(t)
  BY <1>3, InvLinkNext, InvLinkTail, InvClaimTail, InvClaimHead DEF Enqueue
<1>4. CASE DeqSwing(t) \/ Mark(t) \/ DelinkStore(t)
  BY <1>4, InvDeqSwing, InvMark, InvDelinkStore
<1> QED
  BY <1>1, <1>2, <1>3, <1>4 DEF Step, Dequeue

\* A dequeue takes the first object or starts over.
LEMMA TakesFirst ==
  ASSUME IInv, NEW t \in Threads, DeqSwing(t) \/ Mark(t)
  PROVE  \/ pc'[t] = "snapHead" /\ item'[t] = item[t]
         \/ Has(contents, item'[t])
<1>1. /\ TypeOK /\ (Empty \/ Full) /\ Known(t)
      /\ pc[t] \in {"mark", "deqSwing"} => phead[t].ptr # Null
  BY DEF IInv, Types, LocalsSet
<1>2. CASE Again(t, "deqSwing") \/ Again(t, "mark")
  BY <1>1, <1>2 DEF Again, TypeOK
<1>3. CASE ~(Again(t, "deqSwing") \/ Again(t, "mark"))
  <2>1. /\ pc[t] \in {"mark", "deqSwing"} /\ item'[t] = phead[t].ptr
        /\ pc[t] = "mark" => SameNext(t)
        /\ pc[t] = "deqSwing" => SameHead(t)
    BY <1>1, <1>3 DEF DeqSwing, Mark, SameNext, SameHead, TypeOK
  <2>2. contents # <<>> /\ head = phead[t] /\ head.ptr # Null
    BY <1>1, <2>1 DEF Known, SameHead
  <2>3. item'[t] = contents[1] /\ contents \in Seq(Items)
    BY <1>1, <2>1, <2>2 DEF Empty, Full, TypeOK
  <2> QED
    BY <2>2, <2>3 DEF Has
<1> QED
  BY <1>2, <1>3

\* A call that is not yet an enqueue of x does not become one of an object that
\* has been sent, and what a dequeue takes was in the queue.
LEMMA CallsKeep ==
  ASSUME IInv, NEW t \in Threads, Call(t) \/ Step(t)
  PROVE  /\ unsent' \subseteq unsent
         /\ \A u \in Threads : Enqueuing(u)' => \/ Enqueuing(u) /\ item'[u] = item[u]
                                                \/ item'[u] \in unsent
         /\ \A u \in Threads : Took(u)' => \/ Took(u) /\ item'[u] = item[u]
                                           \/ Has(contents, item'[u])
<1>1. /\ TypeOK /\ (pc[t] \in EnqueuePcs => op[t] = "enq") /\ (pc[t] \in DequeuePcs => op[t] = "deq")
      /\ pc[t] = "idle" => op[t] = "deq"
  BY DEF IInv, Types, LocalsSet
<1>2. CASE Call(t)
  BY <1>1, <1>2 DEF Call, CallDequeue, CallEnqueue, TypeOK
<1>3. CASE Snapshot(t)
  <2>1. CASE SnapHead2(t) /\ ~Again(t, "snapHead2")
    <3>1. PICK k : k = IF op[t] = "enq" THEN EnqueueSwitch[DetermineState(t)]
                       ELSE DequeueSwitch[DetermineState(t)]
      OBVIOUS
    <3>2. /\ pc[t] = "snapHead2" /\ pc' = [pc EXCEPT ![t] = k]
          /\ UNCHANGED <<op, item, unsent>>
      BY <2>1, <3>1 DEF SnapHead2
    <3>3. k \notin {"markTail", "markHead", "delinkLoad", "delinkStore"}
      BY <1>1, <3>1, SwitchTo DEF Switched
    <3> QED
      BY <1>1, <3>2, <3>3 DEF TypeOK
  <2>2. CASE ~(SnapHead2(t) /\ ~Again(t, "snapHead2"))
    BY <1>1, <1>3, <2>2
    DEF Snapshot, SnapHead, SnapTail, SnapNext, SnapTail2, SnapHead2, Again, TypeOK
  <2> QED
    BY <2>1, <2>2
<1>4. CASE Help(t)
  BY <1>1, <1>4 DEF Help, HelpTail, HelpHead, NullTail, NullHead, Again, TypeOK
<1>5. CASE Enqueue(t)
  BY <1>1, <1>5 DEF Enqueue, LinkNext, LinkTail, ClaimTail, ClaimHead, Again, Return, TypeOK
<1>6. CASE Dequeue(t)
  <2>1. DeqSwing(t) \/ Mark(t) => \/ pc'[t] = "snapHead" /\ item'[t] = item[t]
                                  \/ Has(contents, item'[t])
    BY <1>1, TakesFirst
  <2>2. CASE DeqSwing(t) \/ Mark(t)
    <3>1. /\ pc[t] \in {"deqSwing", "mark"} /\ op' = op /\ unsent' = unsent
          /\ \A u \in Threads \ {t} : pc'[u] = pc[u] /\ item'[u] = item[u]
      BY <1>1, <2>2 DEF DeqSwing, Mark, Again, TypeOK
    <3> QED
      BY <1>1, <2>1, <2>2, <3>1
  <2>3. CASE ~(DeqSwing(t) \/ Mark(t))
    BY <1>1, <1>6, <2>3
    DEF Dequeue, Reload, DeqLoad, DelinkLoad, DelinkStore, DeqReturnEmpty, Return, TypeOK
  <2> QED
    BY <2>2, <2>3
<1> QED
  BY <1>2, <1>3, <1>4, <1>5, <1>6 DEF Step

\* Objects in the queue, and those taken from it, have been sent.
LEMMA InEntered ==
  ASSUME IInv
  PROVE  /\ \A x \in Items : Has(contents, x) => x \in Entered
         /\ \A t \in Threads : Took(t) => item[t] \in Entered
<1>1. \A x \in Items : Has(contents, x) => x \in Entered
  BY DEF IInv, Private, Outside, Entered
<1>2. ASSUME NEW t \in Threads, Took(t) PROVE item[t] \in Entered
  <2>1. item[t] \in Items /\ ~Enqueuing(t)
    BY <1>2, WordsType DEF IInv, Types, TypeOK, LocalsSet
  <2> HIDE DEF Enqueuing, Took
  <2> QED
    BY <1>2, <2>1 DEF IInv, Private, Entered
<1> QED
  BY <1>1, <1>2

\* One more object has entered after the steps that bring one in, and none is
\* lost.
LEMMA EnteredGrows ==
  ASSUME IInv, NEW t \in Threads, Call(t) \/ Step(t), IsFiniteSet(Items)
  PROVE  /\ Entered \subseteq Entered'
         /\ Cardinality(Entered) \in Nat /\ Cardinality(Entered') \in Nat
         /\ Cardinality(Entered) <= Cardinality(Entered')
         /\ LinkMove(t) \/ ClaimMove(t) => Cardinality(Entered) + 1 <= Cardinality(Entered')
<1>1. /\ unsent' \subseteq unsent
      /\ \A u \in Threads : Enqueuing(u)' => \/ Enqueuing(u) /\ item'[u] = item[u]
                                             \/ item'[u] \in unsent
  BY CallsKeep
<1>2. Entered \subseteq Entered'
  BY <1>1 DEF Entered
<1>3. Entered \in SUBSET Items /\ Entered' \in SUBSET Items
  BY DEF Entered
<1>4. /\ IsFiniteSet(Entered) /\ IsFiniteSet(Entered')
      /\ Cardinality(Entered) \in Nat /\ Cardinality(Entered') \in Nat
  BY <1>3, FS_Subset, FS_CardinalityType
<1>5. Cardinality(Entered) <= Cardinality(Entered')
  BY <1>2, <1>4, FS_Subset
<1>6. ASSUME LinkMove(t) \/ ClaimMove(t) PROVE Cardinality(Entered) + 1 <= Cardinality(Entered')
  <2>1. Enqueuing(t) /\ ~Enqueuing(t)' /\ item[t] \in Items
    BY <1>6 DEF LinkMove, ClaimMove
  <2>2. item[t] \notin Entered
    BY <2>1 DEF Entered
  <2>3. item[t] \in Entered'
    <3>1. /\ item[t] \notin unsent
          /\ \A u \in Threads \ {t} : Enqueuing(u) => item[u] # item[t]
      BY <2>1 DEF IInv, Private
    <3> HIDE DEF Enqueuing
    <3> QED
      BY <1>1, <2>1, <3>1 DEF Entered
  <2>4. /\ Entered \union {item[t]} \in SUBSET Entered'
        /\ Cardinality(Entered \union {item[t]}) = Cardinality(Entered) + 1
    BY <1>2, <1>4, <2>2, <2>3, FS_AddElement
  <2> QED
    BY <1>4, <2>4, FS_Subset
<1> QED
  BY <1>2, <1>4, <1>5, <1>6

LEMMA TailSpentKept ==
  ASSUME TypeOK, NEW t \in Threads, Moves(t), NEW n \in Nat, NEW m \in Nat, n <= m,
         LinkMove(t) \/ ClaimMove(t) => n + 1 <= m, TailSpent <= 2 * n
  PROVE  TailSpent' <= 2 * m
<1> DEFINE Lags == contents # <<>> /\ tail.ptr # Last
           Lives == tail.ptr # Null
<1>0. tail.counter \in Nat /\ tail.counter + OneIf(Lags) + OneIf(Lives) <= 2 * n
  BY CountIs DEF TailSpent
<1> SUFFICES tail'.counter + OneIf(Lags') + OneIf(Lives') <= 2 * m
  BY DEF TailSpent
<1>1. CASE UNCHANGED <<tail, contents>>
  BY <1>0, <1>1 DEF OneIf, Last
<1>2. CASE LinkMove(t)
  <2>1. ~Lags /\ Lives /\ tail' = tail
    BY <1>2 DEF LinkMove, Full, LastTwo, TypeOK
  <2> HIDE DEF Lags, Lives
  <2>2. Lives' <=> Lives
    BY <2>1 DEF Lives
  <2> QED
    BY <1>0, <1>2, <2>1, <2>2 DEF OneIf
<1>3. CASE TailMove
  <2>1. PICK x : Follows(contents, tail.ptr, x) /\ tail' = Pointer(x, tail.counter + 1)
    BY <1>3 DEF TailMove
  <2>2. /\ contents \in Seq(Items) /\ NoRepeat(contents) /\ LastTwo(contents, tail.ptr)
        /\ contents' = contents
    BY <1>3 DEF TailMove, Full, TypeOK
  <2>3. tail.ptr # Last /\ x = Last /\ tail.ptr # Null /\ contents # <<>>
    BY <2>1, <2>2 DEF Follows, LastTwo, NoRepeat, Last
  <2>4. tail'.ptr = Last' /\ tail'.counter = tail.counter + 1
    BY <2>1, <2>2, <2>3 DEF Pointer, Last
  <2>5. Lags /\ Lives /\ ~Lags'
    BY <2>3, <2>4
  <2> HIDE DEF Lags, Lives
  <2> QED
    BY <1>0, <2>4, <2>5 DEF OneIf
<1>4. CASE ClaimMove(t)
  <2>1. contents = <<>> /\ contents' = <<item[t]>> /\ tail.ptr = Null
    BY <1>4 DEF ClaimMove, Empty
  <2>2. tail'.ptr = item[t] /\ tail'.counter = tail.counter + 1
    BY <1>4 DEF ClaimMove, Pointer
  <2>3. Last' = item[t]
    BY <2>1 DEF Last
  <2>4. ~Lags /\ ~Lives /\ ~Lags'
    BY <2>1, <2>2, <2>3
  <2> HIDE DEF Lags, Lives
  <2> QED
    BY <1>0, <1>4, <2>2, <2>4 DEF OneIf
<1>5. CASE SwingMove
  <2>1. PICK x : Follows(contents, head.ptr, x)
    BY <1>5 DEF SwingMove
  <2>2. contents \in Seq(Items) /\ Len(contents) \in Nat /\ Len(contents) >= 2
    BY <2>1 DEF TypeOK, Follows
  <2>3. /\ contents' \in Seq(Items) /\ Len(contents') = Len(contents) - 1
        /\ contents'[Len(contents) - 1] = contents[Len(contents)]
    BY <1>5, <2>2, TailKeeps DEF SwingMove
  <2>4. Last' = contents'[Len(contents')] /\ Last = contents[Len(contents)]
    BY DEF Last
  <2>5. Last' = Last /\ contents # <<>> /\ contents' # <<>>
    BY <2>2, <2>3, <2>4
  <2>6. tail' = tail
    BY <1>5 DEF SwingMove
  <2>7. (Lags' <=> Lags) /\ (Lives' <=> Lives)
    BY <2>5, <2>6
  <2> HIDE DEF Lags, Lives
  <2> QED
    BY <1>0, <2>6, <2>7 DEF OneIf
<1>6. CASE MarkMove
  <2>1. contents' = <<>> /\ tail' = tail
    BY <1>6 DEF MarkMove, Full, TypeOK
  <2>2. ~Lags' /\ (Lives' <=> Lives)
    BY <2>1
  <2> HIDE DEF Lags, Lives
  <2> QED
    BY <1>0, <2>1, <2>2 DEF OneIf
<1>7. CASE TailNullMove
  <2>1. contents' = <<>> /\ tail'.ptr = Null /\ tail'.counter = tail.counter + 1 /\ Lives
    BY <1>7 DEF TailNullMove, Empty, Pointer
  <2>2. ~Lags' /\ ~Lives'
    BY <2>1
  <2> HIDE DEF Lags, Lives
  <2> QED
    BY <1>0, <2>1, <2>2 DEF OneIf
<1> QED
  BY <1>1, <1>2, <1>3, <1>4, <1>5, <1>6, <1>7
  DEF Moves, HeadMove, HeadNullMove, DelinkMove, list

LEMMA HeadSpentKept ==
  ASSUME TypeOK, NEW t \in Threads, Moves(t), NEW n \in Nat, NEW m \in Nat, n <= m,
         LinkMove(t) \/ ClaimMove(t) => n + 1 <= m, HeadSpent <= 2 * n
  PROVE  HeadSpent' <= 2 * m
<1> DEFINE Owes == (head.ptr = Null) <=> (contents # <<>>)
<1>0. /\ contents \in Seq(Items) /\ Len(contents) \in Nat
      /\ head.counter \in Nat /\ head.counter + Len(contents) + OneIf(Owes) <= 2 * n
  BY CountIs DEF HeadSpent, TypeOK
<1> SUFFICES head'.counter + Len(contents') + OneIf(Owes') <= 2 * m
  BY DEF HeadSpent
<1>1. CASE UNCHANGED <<head, contents>>
  BY <1>0, <1>1 DEF OneIf
<1>2. CASE LinkMove(t)
  <2>1. /\ contents # <<>> /\ contents' # <<>> /\ head' = head
        /\ Len(contents') = Len(contents) + 1
    BY <1>0, <1>2 DEF LinkMove, Full
  <2>2. Owes' <=> Owes
    BY <2>1
  <2> HIDE DEF Owes
  <2> QED
    BY <1>0, <1>2, <2>1, <2>2 DEF OneIf
<1>3. CASE ClaimMove(t)
  <2>1. /\ contents = <<>> /\ head.ptr = Null /\ head' = head
        /\ contents' # <<>> /\ Len(contents') = Len(contents) + 1
    BY <1>0, <1>3 DEF ClaimMove, Empty
  <2>2. Owes' /\ ~Owes
    BY <2>1
  <2> HIDE DEF Owes
  <2> QED
    BY <1>0, <1>3, <2>1, <2>2 DEF OneIf
<1>4. CASE HeadMove
  <2>1. /\ contents # <<>> /\ contents' = contents /\ contents[1] \in Items
        /\ head.ptr = Null /\ head'.ptr # Null /\ head'.counter = head.counter + 1
    BY <1>0, <1>4 DEF HeadMove, Full, Pointer
  <2>2. ~Owes' /\ Owes
    BY <2>1
  <2> HIDE DEF Owes
  <2> QED
    BY <1>0, <1>4, <2>1, <2>2 DEF OneIf
<1>5. CASE SwingMove
  <2>1. PICK x : Follows(contents, head.ptr, x) /\ head' = Pointer(x, head.counter + 1)
    BY <1>5 DEF SwingMove
  <2>2. /\ x \in Items /\ Len(contents) >= 2 /\ contents # <<>> /\ head.ptr # Null
    BY <1>0, <1>5, <2>1 DEF Follows, SwingMove
  <2>3. head'.ptr # Null /\ head'.counter = head.counter + 1
    BY <2>1, <2>2 DEF Pointer
  <2>4. contents' \in Seq(Items) /\ Len(contents') = Len(contents) - 1
    BY <1>0, <1>5, <2>2, TailKeeps DEF SwingMove
  <2>5. ~Owes /\ ~Owes'
    <3>1. contents' # <<>>
      BY <1>0, <2>2, <2>4
    <3> QED
      BY <2>2, <2>3, <3>1
  <2> HIDE DEF Owes
  <2> QED
    BY <1>0, <2>3, <2>4, <2>5 DEF OneIf
<1>6. CASE MarkMove
  <2>1. contents # <<>> /\ head.ptr # Null /\ head' = head /\ Len(contents) = 1
    BY <1>0, <1>6 DEF MarkMove, Full
  <2>3. contents' = <<>> /\ Len(contents') = 0
    BY <1>0, <1>6, <2>1 DEF MarkMove
  <2>2. ~Owes /\ Owes'
    BY <2>1, <2>3
  <2> HIDE DEF Owes
  <2> QED
    BY <1>0, <2>1, <2>2, <2>3 DEF OneIf
<1>7. CASE HeadNullMove
  <2>1. /\ contents = <<>> /\ contents' = contents /\ head.ptr # Null
        /\ head'.ptr = Null /\ head'.counter = head.counter + 1
    BY <1>7 DEF HeadNullMove, Empty, Pointer
  <2>2. Owes /\ ~Owes'
    BY <2>1
  <2> HIDE DEF Owes
  <2> QED
    BY <1>0, <2>1, <2>2 DEF OneIf
<1> QED
  BY <1>1, <1>2, <1>3, <1>4, <1>5, <1>6, <1>7
  DEF Moves, TailMove, TailNullMove, DelinkMove, list

\* What the moves do to the links and to the history.
LEMMA MovesSpend ==
  ASSUME IInv, NEW t \in Threads, Moves(t)
  PROVE  /\ \A x \in Items :
              \/ next'[x].counter = next[x].counter
              \/ /\ next'[x].counter = next[x].counter + 1
                 /\ \/ contents # <<>> /\ x = Last
                    \/ Took(t) /\ ~Took(t)' /\ x = item[t]
         /\ \A x \in Items : Has(contents', x) => Has(contents, x) \/ x \notin Entered
         /\ contents' # <<>> =>
              \/ Last' \notin Entered
              \/ contents # <<>> /\ Last' = Last /\ next'[Last] = next[Last]
<1>1. TypeOK /\ contents \in Seq(Items) /\ Len(contents) \in Nat
  BY DEF IInv, Types, TypeOK
<1>2. Last' = contents'[Len(contents')] /\ Last = contents[Len(contents)]
  BY DEF Last
<1>3. CASE UNCHANGED <<next, contents>>
  BY <1>2, <1>3
<1>4. CASE LinkMove(t) \/ ClaimMove(t)
  <2>1. /\ Enqueuing(t) /\ item[t] \in Items /\ contents' = Append(contents, item[t])
        /\ item[t] \notin Entered
    BY <1>4 DEF LinkMove, ClaimMove, Entered
  <2>2. Last' = item[t] /\ \A x : Has(contents', x) <=> Has(contents, x) \/ x = item[t]
    BY <1>1, <1>2, <2>1, AppendKeeps
  <2>3. \A x \in Items : \/ next'[x].counter = next[x].counter
                         \/ /\ next'[x].counter = next[x].counter + 1
                            /\ contents # <<>> /\ x = Last
    BY <1>1, <1>4 DEF LinkMove, ClaimMove, Full, Link, TypeOK
  <2> QED
    BY <2>1, <2>2, <2>3
<1>5. CASE SwingMove
  <2>1. PICK x : Follows(contents, head.ptr, x)
    BY <1>5 DEF SwingMove
  <2>2. Len(contents) >= 2 /\ contents # <<>> /\ NoRepeat(contents)
    BY <1>1, <1>5, <2>1 DEF Follows, SwingMove, Full
  <2>3. /\ Len(contents') = Len(contents) - 1
        /\ contents'[Len(contents) - 1] = contents[Len(contents)]
    BY <1>1, <1>5, <2>2, TailKeeps DEF SwingMove
  <2>4. Last' = Last
    BY <1>2, <2>3
  <2>5. \A m : Has(contents', m) => Has(contents, m)
    BY <1>1, <1>5, <2>2, UnlinkFirst DEF SwingMove, Full
  <2>6. next' = next
    BY <1>5 DEF SwingMove
  <2> QED
    BY <2>2, <2>4, <2>5, <2>6
<1>6. CASE MarkMove
  <2>0. contents # <<>> /\ Len(contents) = 1
    BY <1>1, <1>6 DEF MarkMove
  <2>1. contents' = <<>>
    BY <1>1, <1>6, <2>0 DEF MarkMove
  <2>2. \A x \in Items : \/ next'[x].counter = next[x].counter
                         \/ next'[x].counter = next[x].counter + 1 /\ x = Last
    BY <1>1, <1>6 DEF MarkMove, Link, TypeOK
  <2>3. \A x : ~Has(contents', x)
    BY <2>1 DEF Has
  <2> QED
    BY <2>0, <2>1, <2>2, <2>3
<1>7. CASE DelinkMove(t)
  <2>1. /\ contents' = contents /\ Took(t) /\ ~Took(t)' /\ ~Has(contents, item[t])
        /\ next' = [next EXCEPT ![item[t]] = Link(Null, next[item[t]].counter + 1, "ENQ")]
    BY <1>7 DEF DelinkMove, Outside
  <2>2. \A x \in Items : \/ next'[x] = next[x]
                         \/ next'[x].counter = next[x].counter + 1 /\ x = item[t]
    BY <1>1, <2>1 DEF TypeOK, Link
  <2>3. contents # <<>> => Last \in Items /\ Last # item[t] /\ Last' = Last
    BY <1>1, <1>2, <2>1 DEF Has
  <2> HIDE DEF Took
  <2> QED
    BY <2>1, <2>2, <2>3
<1> QED
  BY <1>3, <1>4, <1>5, <1>6, <1>7
  DEF Moves, TailMove, HeadMove, TailNullMove, HeadNullMove, list

LEMMA LinkSpentKept ==
  ASSUME IInv, Types', NEW t \in Threads, Call(t) \/ Step(t), Moves(t), LinkSpent
  PROVE  LinkSpent'
<1> DEFINE changed(x) == \/ contents # <<>> /\ x = Last
                         \/ Took(t) /\ ~Took(t)' /\ x = item[t]
<1>1. /\ Entered \subseteq Entered'
      /\ \A u \in Threads : Took(u)' => \/ Took(u) /\ item'[u] = item[u]
                                        \/ Has(contents, item'[u])
  BY CallsKeep DEF Entered
<1>2. /\ \A x \in Items : \/ next'[x].counter = next[x].counter
                          \/ next'[x].counter = next[x].counter + 1 /\ changed(x)
      /\ \A x \in Items : Has(contents', x) => Has(contents, x) \/ x \notin Entered
      /\ contents' # <<>> => \/ Last' \notin Entered
                             \/ contents # <<>> /\ Last' = Last /\ next'[Last] = next[Last]
  BY MovesSpend
<1>3. /\ contents \in Seq(Items) /\ \A x \in Items : next[x].counter \in Nat
      /\ contents # <<>> => Last \in Items /\ Has(contents, Last)
  BY CountIs DEF IInv, Types, TypeOK, Last, Has
<1>4. /\ \A x \in Items : Has(contents, x) => x \in Entered
      /\ \A u \in Threads : Took(u) => item[u] \in Entered
  BY InEntered
<1>5. /\ \A u \in Threads : Took(u) => item[u] \in Items /\ ~Has(contents, item[u])
      /\ \A u \in Threads : Took(u)' => item'[u] \in Items
      /\ \A u \in Threads \ {t} : Took(u) /\ Took(t) => item[u] # item[t]
  BY WordsType DEF IInv, Types, TypeOK, Private
<1>6. /\ \A x \in Items : /\ next[x].counter <= 2
                          /\ x \notin Entered => next[x].counter = 0
                          /\ Has(contents, x) => next[x].counter <= 1
                          /\ contents # <<>> /\ x = Last => next[x].counter = 0
      /\ \A u \in Threads : Took(u) => next[item[u]].counter <= 1
  BY DEF LinkSpent
<1> HIDE DEF Took
\* A link that changes had been written once at most.
<1>7. ASSUME NEW x \in Items PROVE changed(x) => x \in Entered /\ next'[x].counter <= 2
  BY <1>2, <1>3, <1>4, <1>5, <1>6
<1>8. ASSUME NEW x \in Items
      PROVE  /\ x \notin Entered => next'[x].counter = 0
             /\ Has(contents, x) => next'[x].counter <= 1
  <2>1. x \notin Entered => next'[x].counter = 0
    BY <1>2, <1>6, <1>7
  <2>2. Has(contents, x) => next'[x].counter <= 1
    BY <1>2, <1>3, <1>5, <1>6
  <2> QED
    BY <2>1, <2>2
<1>9. \A x \in Items : next'[x].counter <= 2
  BY <1>2, <1>6, <1>7
<1>10. \A x \in Items : Has(contents', x) => next'[x].counter <= 1
  BY <1>2, <1>8
<1>11. \A x \in Items : contents' # <<>> /\ x = Last' => next'[x].counter = 0
  BY <1>2, <1>3, <1>6, <1>8
<1>12. ASSUME NEW u \in Threads, Took(u)' PROVE next'[item'[u]].counter <= 1
  <2>1. CASE Took(u) /\ item'[u] = item[u]
    <3>1. ~changed(item[u])
      BY <1>3, <1>5, <1>12, <2>1
    <3> QED
      BY <1>2, <1>5, <1>6, <2>1, <3>1
  <2>2. CASE Has(contents, item'[u])
    BY <1>5, <1>8, <1>12, <2>2
  <2> QED
    BY <1>1, <1>12, <2>1, <2>2
<1>13. \A x \in Items : x \notin Entered' => next'[x].counter = 0
  BY <1>1, <1>8
<1> QED
  BY <1>9, <1>10, <1>11, <1>12, <1>13 DEF LinkSpent

LEMMA BudgetInit ==
  ASSUME Init
  PROVE  Budget
<1>1. Entered = {} /\ Cardinality(Entered) = 0
  BY FS_EmptySet DEF Init, Entered
<1>2. /\ contents = <<>> /\ head = Pointer(Null, 0) /\ tail = Pointer(Null, 0)
      /\ next = [x \in Items |-> Link(Null, 0, "ENQ")]
      /\ \A t \in Threads : ~Took(t)
  BY DEF Init
<1>3. /\ head.ptr = Null /\ head.counter = 0 /\ tail.ptr = Null /\ tail.counter = 0
      /\ \A x \in Items : next[x].counter = 0
  BY <1>2 DEF Pointer, Link
<1>4. TailSpent = 0 /\ HeadSpent = 0
  <2>1. Len(contents) = 0
    BY <1>2
  <2> QED
    BY <1>2, <1>3, <2>1 DEF TailSpent, HeadSpent, OneIf
<1>5. LinkSpent
  BY <1>2, <1>3 DEF LinkSpent
<1> QED
  BY <1>1, <1>4, <1>5 DEF Budget

LEMMA BudgetNext ==
  ASSUME IInv, NoWrap, Types', Budget, [Next]_vars, IsFiniteSet(Items)
  PROVE  Budget'
<1>1. CASE UNCHANGED vars
  BY <1>1
  DEF vars, list, private, Budget, TailSpent, HeadSpent, LinkSpent, Entered, Last
<1>2. ASSUME NEW t \in Threads, Call(t) \/ Step(t) PROVE Budget'
  <2>1. Moves(t) /\ TypeOK
    BY <1>2, MovesStep DEF IInv, Types
  <2>2. LinkSpent'
    BY <1>2, <2>1, LinkSpentKept DEF Budget
  <2>3. /\ Cardinality(Entered) \in Nat /\ Cardinality(Entered') \in Nat
        /\ Cardinality(Entered) <= Cardinality(Entered')
        /\ LinkMove(t) \/ ClaimMove(t) => Cardinality(Entered) + 1 <= Cardinality(Entered')
    BY <1>2, EnteredGrows
  <2>4. TailSpent' <= 2 * Cardinality(Entered')
    BY <2>1, <2>3, TailSpentKept DEF Budget
  <2>5. HeadSpent' <= 2 * Cardinality(Entered')
    BY <2>1, <2>3, HeadSpentKept DEF Budget
  <2> QED
    BY <2>2, <2>4, <2>5 DEF Budget
<1> QED
  BY <1>1, <1>2 DEF Next

\* Counters that have room for two updates of every object do not wrap.
LEMMA BudgetSuffices ==
  ASSUME IInv, Budget, IsFiniteSet(Items), 2 * Cardinality(Items) + 2 <= CountMod
  PROVE  NoWrap
<1>1. Entered \in SUBSET Items
  BY DEF Entered
<1>2. /\ Cardinality(Entered) \in Nat /\ Cardinality(Items) \in Nat
      /\ Cardinality(Entered) <= Cardinality(Items)
  BY <1>1, FS_Subset, FS_CardinalityType
<1>3. TypeOK /\ Len(contents) \in Nat
  BY DEF IInv, Types, TypeOK
<1>4. head.counter \in Nat /\ tail.counter \in Nat /\ \A x \in Items : next[x].counter \in Nat
  BY <1>3, CountIs
<1>5. /\ tail.counter <= 2 * Cardinality(Entered) /\ head.counter <= 2 * Cardinality(Entered)
  BY <1>2, <1>3, <1>4 DEF Budget, TailSpent, HeadSpent, OneIf
<1>6. ASSUME NEW x \in Items PROVE next[x].counter # CountMod - 1
  <2>1. Cardinality(Items) # 0
    BY FS_EmptySet
  <2>2. next[x].counter <= 2
    BY DEF Budget, LinkSpent
  <2> QED
    BY <1>2, <1>4, <2>1, <2>2
<1> QED
  BY <1>2, <1>4, <1>5, <1>6 DEF NoWrap

\* As long as fewer than half as many objects as a counter has values are
\* enqueued, no counter wraps: an enqueue and the dequeue of its object change
\* head, tail and a link at most twice.
THEOREM NoCounterWraps ==
  ASSUME IsFiniteSet(Items), 2 * Cardinality(Items) + 2 <= CountMod
  PROVE  Spec => []NoWrap
<1>1. Init => IInv /\ Budget
  BY InvInit, BudgetInit
<1>2. IInv /\ Budget => NoWrap
  BY BudgetSuffices
<1>3. IInv /\ Budget /\ [Next]_vars => (IInv /\ Budget)'
  <2> SUFFICES ASSUME IInv, Budget, [Next]_vars PROVE IInv' /\ Budget'
    OBVIOUS
  <2>1. NoWrap /\ IInv'
    BY <1>2, InvNext
  <2> QED
    BY <2>1, BudgetNext DEF IInv
<1> QED
  BY <1>1, <1>2, <1>3, PTL DEF Spec

\* With so few objects head, tail and links always agree with one of the states
\* of Figure 2.
THEOREM FigureTwoAlways ==
  ASSUME IsFiniteSet(Items), 2 * Cardinality(Items) + 2 <= CountMod
  PROVE  Spec => []FigureTwo
BY NoCounterWraps, FigureTwoHolds, PTL

\* With so few objects dequeue never sets the counter of a link back.
THEOREM LinksAlwaysCounted ==
  ASSUME IsFiniteSet(Items), 2 * Cardinality(Items) + 2 <= CountMod
  PROVE  Spec => LinkCounted
BY NoCounterWraps, LinksAreCounted, PTL

\* With so few objects every execution of PLJQueue is one of FifoQueue: calls take
\* effect at one instant, in FIFO order, and false means empty.
THEOREM IsLinearizable ==
  ASSUME IsFiniteSet(Items), 2 * Cardinality(Items) + 2 <= CountMod
  PROVE  Spec => Linearizable
BY NoCounterWraps, IsLinearizableUntilWrap, PTL

=============================================================================
