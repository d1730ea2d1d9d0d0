--------------------------- MODULE LCRQueueProofs ---------------------------
(***************************************************************************)
(* Proofs about LCRQueue for any number of threads, items and calls, and   *)
(* rings of any size.                                                      *)
(*                                                                         *)
(* The two words of a cell change together, so whoever changes a cell      *)
(* knows both.  What has to be shown is that the index of a cell and its   *)
(* safe bit tell an enqueue whether the dequeue of its ticket is still to  *)
(* come or still at the cell (Gone, Awaits).  Items come out in the order  *)
(* of the rings and tickets they were put at (AheadOf).                    *)
(***************************************************************************)
EXTENDS LCRQueue, FiniteSetTheorems, TLAPS

\* The cell of a ticket.
Slot(k) == k % R

----------------------------------------------------------------------------
(* Types, locals and the list of rings *)

\* The accesses of an enqueue that has a ticket, those of a dequeue that has not
\* left the cell of its ticket, and those for which a dequeue has one.
PutPcs == {"eVal", "eIdx", "eHead", "eCas", "eOver"}
CellPcs == {"dVal", "dIdx", "dTake", "dUnsafe", "dSkip"}
TakePcs == CellPcs \union {"dTail"}

\* The enqueue of thread t has not put its item anywhere yet.
Pending(t) == pc[t] \in EnqueuePcs \ {"lSwing"}

Locals(t) ==
  /\ item[t] # Null <=> pc[t] \in EnqueuePcs
  /\ pc[t] \in {"idle", "lTail", "lHead"} => crq[t] = 0
  /\ pc[t] \in {"eHead", "eCas"} => word[t].val = Null /\ word[t].idx <= ticket[t]
  /\ pc[t] = "eHead" => ~word[t].safe
  /\ pc[t] = "dTake" => word[t].val # Null /\ word[t].idx = ticket[t]
  /\ pc[t] = "dUnsafe" => word[t].val # Null /\ word[t].idx < ticket[t]
  /\ pc[t] = "dSkip" => word[t].val = Null /\ word[t].idx <= ticket[t]
  /\ pc[t] = "fCas" => ~fix[t].tail.closed /\ fix[t].tail.t < fix[t].h

\* An item belongs to one call at most, until it has been put somewhere.
Owned ==
  /\ \A t \in Threads : pc[t] \in EnqueuePcs => item[t] \notin unsent \union entered
  /\ \A t, u \in Threads : t # u /\ pc[t] \in EnqueuePcs /\ pc[u] \in EnqueuePcs =>
       item[t] # item[u]
  /\ entered \intersect unsent = {}

\* The items that have been put into a ring.
Sent == {x \in Items : x \notin unsent /\ \A t \in Threads : Pending(t) => item[t] # x}

Linked(r) == r = 1 \/ next[r - 1] = r

New(r) ==
  /\ next[r] = 0 /\ rhead[r] = 0 /\ rtail[r] = Word(0, FALSE)
  /\ \A i \in Cells : cell[r][i] = Cell(TRUE, i, Null)

\* The rings are linked in the order of their numbers.
List ==
  /\ \A r \in Rings : /\ next[r] \in {0, r + 1}
                      /\ next[r] # 0 => Linked(r) /\ r <= Cardinality(Sent)
                      /\ ~Linked(r) => New(r)
  /\ Linked(qhead) /\ Linked(qtail)
  /\ \A t \in Threads :
       /\ crq[t] # 0 => Linked(crq[t])
       /\ pc[t] \in {"lHelp", "lSwing", "lDSwing"} => next[crq[t]] # 0

Basics == TypeOK /\ (\A t \in Threads : Locals(t)) /\ Owned /\ List

----------------------------------------------------------------------------
(* Dequeues that are to come and dequeues that have been *)

\* The dequeue with ticket k of ring r is at its cell.
Held(r, k) == \E t \in Threads : crq[t] = r /\ ticket[t] = k /\ pc[t] \in CellPcs

\* An item is in the cell of its ticket.
Placed == \A r \in Rings, i \in Cells : cell[r][i].val # Null => Slot(cell[r][i].idx) = i

\* A dequeue that has left its cell has moved the index past its ticket, or
\* left the cell unsafe.
Gone ==
  \A r \in Rings, k \in Nat : k < rhead[r] =>
    Held(r, k) \/ cell[r][Slot(k)].idx > k \/ ~cell[r][Slot(k)].safe

\* NoneStranded, said with Held.
Waiting ==
  \A r \in Rings, i \in Cells : cell[r][i].val # Null =>
    rhead[r] <= cell[r][i].idx \/ Held(r, cell[r][i].idx)

\* A cell that was found empty is as it was found, has got an item or has
\* moved on: it never becomes again what it was.
Saw(t) ==
  pc[t] \in {"eHead", "eCas"} =>
    \/ At(t).idx > word[t].idx
    \/ At(t).idx = word[t].idx /\ (At(t).val # Null \/ At(t) = word[t])

\* An enqueue that found its cell unsafe, but no dequeue with its ticket or a
\* later one, keeps these dequeues at the cell as long as it does not change.
Awaits(t) ==
  pc[t] = "eCas" /\ ~word[t].safe /\ At(t) = word[t] =>
    \A k \in Nat : ticket[t] <= k /\ k < rhead[crq[t]] /\ Slot(k) = Slot(ticket[t]) =>
      Held(crq[t], k)

Takers == Placed /\ Gone /\ Waiting /\ \A t \in Threads : Saw(t) /\ Awaits(t)

----------------------------------------------------------------------------
(* Where an item is *)

In(x) == \E r \in Rings, i \in Cells : cell[r][i].val = x

\* An item that has been sent is in one cell or has come out once.
Once ==
  /\ \A x \in Items : /\ out[x] \in {0, 1}
                      /\ In(x) => out[x] = 0
                      /\ In(x) \/ out[x] = 1 <=> x \in Sent
  /\ \A r, s \in Rings, i, j \in Cells :
       cell[r][i].val \in Items /\ cell[r][i].val = cell[s][j].val => r = s /\ i = j

----------------------------------------------------------------------------
(* The order of the items *)

\* Cell k of ring r comes before cell j of ring s.
Ahead(r, k, s, j) == r < s \/ (r = s /\ k < j)

\* The ticket of a call, or the least it can still get in its ring.
Turn(t) ==
  IF pc[t] \in PutPcs \union TakePcs THEN ticket[t]
  ELSE IF pc[t] \in EnqueuePcs THEN rtail[crq[t]].t ELSE rhead[crq[t]]

\* No call is in a ring that _head or _tail has not reached, or has a ticket
\* that was not drawn.
Reached ==
  \A t \in Threads :
    /\ pc[t] \in EnqueuePcs => crq[t] <= qtail
    /\ pc[t] \in DequeuePcs => crq[t] <= qhead
    /\ pc[t] \in PutPcs => ticket[t] < rtail[crq[t]].t
    /\ pc[t] \in TakePcs => ticket[t] < rhead[crq[t]]

\* The ticket of an item was drawn; when its enqueue returns, _tail has reached
\* its ring.
Drawn ==
  \A r \in Rings, i \in Cells : cell[r][i].val # Null =>
    /\ cell[r][i].idx < rtail[r].t
    /\ cell[r][i].val \in entered => r <= qtail
    /\ \A t \in Threads : pc[t] = "lSwing" /\ item[t] = cell[r][i].val => r <= crq[t] + 1

Remembered ==
  /\ \A x \in Items : prior[x] \subseteq entered
  /\ \A t \in Threads : /\ \A x \in known[t] : out[x] # 0
                        /\ pc[t] \notin DequeuePcs => known[t] = {}

\* Cell k of ring r comes before the item y, wherever y is: in a cell, with an
\* enqueue in a ring, or out already; then also before every cell that a dequeue
\* can still get if y had come out when it was called.
AheadOf(r, k, y) ==
  /\ \A s \in Rings, j \in Cells : cell[s][j].val = y => Ahead(r, k, s, cell[s][j].idx)
  /\ out[y] # 0 => Ahead(r, k, qhead, rhead[qhead])
  /\ \A t \in Threads : crq[t] # 0 /\ ((Pending(t) /\ item[t] = y) \/ y \in known[t]) =>
       Ahead(r, k, crq[t], Turn(t))

InOrder ==
  \A r \in Rings, i \in Cells, y \in Items :
    cell[r][i].val \in prior[y] => AheadOf(r, cell[r][i].idx, y)

Order == Reached /\ Drawn /\ Remembered /\ InOrder

USE NullAssumption, SizeAssumption

----------------------------------------------------------------------------
(* What a step of thread t leaves alone *)

Step(t) == Call(t) \/ Enqueue(t) \/ Dequeue(t)

Same(u) ==
  /\ pc'[u] = pc[u] /\ item'[u] = item[u] /\ crq'[u] = crq[u] /\ ticket'[u] = ticket[u]
  /\ word'[u] = word[u] /\ fix'[u] = fix[u] /\ known'[u] = known[u]

LEMMA OthersSame ==
  ASSUME TypeOK, NEW t \in Threads, Step(t)
  PROVE  freed' = freed /\ \A u \in Threads \ {t} : Same(u)
<1> USE DEF TypeOK, Same, Goto, queue, rings, locals, history, calls, LeaveRing
<1>1. CASE Call(t)
  BY <1>1 DEF Call, CallDequeue, CallEnqueue
<1>2. CASE LTail(t) \/ LNext(t) \/ LHelp(t) \/ LLink(t) \/ LSwing(t)
  BY <1>2 DEF LTail, LNext, LHelp, LLink, LSwing, Again, EnqueueReturns, Return
<1>3. CASE ETicket(t) \/ EVal(t) \/ EIdx(t) \/ EHead(t)
  BY <1>3 DEF ETicket, EVal, EIdx, EHead
<1>4. CASE ECas(t) \/ EOver(t) \/ EClose(t)
  BY <1>4 DEF ECas, EOver, EClose, EnqueueReturns, Return
<1>5. CASE LHead(t) \/ LDReturnEmpty(t) \/ LDNext(t) \/ LDSwing(t)
  BY <1>5 DEF LHead, LDReturnEmpty, LDNext, LDSwing, Again, Return
<1>6. CASE DTicket(t) \/ DVal(t) \/ DIdx(t) \/ DTake(t) \/ DUnsafe(t) \/ DSkip(t) \/ DTail(t)
  BY <1>6 DEF DTicket, DVal, DIdx, DTake, DUnsafe, DSkip, DTail, Reread, Return
<1>7. CASE FHead(t) \/ FTail(t) \/ FTail2(t) \/ FCas(t)
  BY <1>7 DEF FHead, FTail, FTail2, FCas
<1> QED
  BY <1>1, <1>2, <1>3, <1>4, <1>5, <1>6, <1>7 DEF Step, Enqueue, Dequeue

LEMMA SlotIs ==
  ASSUME NEW k \in Nat
  PROVE  Slot(k) \in Cells
<1>1. R \in Nat \ {0}
  OBVIOUS
<1> QED
  BY <1>1 DEF Slot, Cells

\* The cell of a thread.
LEMMA CellIs ==
  ASSUME TypeOK, NEW t \in Threads
  PROVE  /\ ticket[t] \in Nat /\ Slot(ticket[t]) \in Cells
         /\ word[t] \in CellType /\ word[t].idx \in Nat
         /\ word[t].safe \in BOOLEAN /\ word[t].val \in Items \union {Null}
         /\ crq[t] # 0 => /\ crq[t] \in Rings
                          /\ At(t) = cell[crq[t]][Slot(ticket[t])] /\ At(t) \in CellType
                          /\ At(t).idx \in Nat /\ At(t).safe \in BOOLEAN
                          /\ At(t).val \in Items \union {Null}
<1>1. ticket[t] \in Nat /\ word[t] \in CellType /\ (crq[t] # 0 => crq[t] \in Rings)
  BY DEF TypeOK, RingOrNull
<1>2. Slot(ticket[t]) \in Cells
  BY <1>1, SlotIs
<1>3. crq[t] # 0 => At(t) = cell[crq[t]][Slot(ticket[t])] /\ At(t) \in CellType
  BY <1>1, <1>2 DEF TypeOK, At, Slot
<1>4. \A c \in CellType : c.idx \in Nat /\ c.safe \in BOOLEAN /\ c.val \in Items \union {Null}
  BY DEF CellType
<1> QED
  BY <1>1, <1>2, <1>3, <1>4

LEMMA ExceptIs ==
  ASSUME NEW A, NEW B, NEW S, NEW f \in [A -> [B -> S]], NEW a \in A, NEW b \in B, NEW v \in S
  PROVE  /\ [f EXCEPT ![a][b] = v] \in [A -> [B -> S]]
         /\ \A x \in A, y \in B :
              [f EXCEPT ![a][b] = v][x][y] = IF x = a /\ y = b THEN v ELSE f[x][y]
<1>1. [f EXCEPT ![a][b] = v] = [f EXCEPT ![a] = [f[a] EXCEPT ![b] = v]]
  OBVIOUS
<1>2. [f[a] EXCEPT ![b] = v] \in [B -> S]
  OBVIOUS
<1> QED
  BY <1>1, <1>2

\* The compare-and-swap of thread t replaces its cell by c.
CellSet(t, c) ==
  \A r \in Rings, i \in Cells :
    cell'[r][i] = IF r = crq[t] /\ i = Slot(ticket[t]) THEN c ELSE cell[r][i]

LEMMA CasIs ==
  ASSUME TypeOK, NEW t \in Threads, crq[t] # 0, NEW c \in CellType, Cas2(t, c)
  PROVE  cell' \in [Rings -> [Cells -> CellType]] /\ CellSet(t, c) /\ At(t) = word[t]
<1>1. crq[t] \in Rings /\ Slot(ticket[t]) \in Cells
  BY CellIs
<1>2. cell \in [Rings -> [Cells -> CellType]] /\ At(t) = word[t]
      /\ cell' = [cell EXCEPT ![crq[t]][Slot(ticket[t])] = c]
  BY DEF TypeOK, Cas2, Slot
<1>3. /\ cell' \in [Rings -> [Cells -> CellType]]
      /\ \A r \in Rings, i \in Cells :
           cell'[r][i] = IF r = crq[t] /\ i = Slot(ticket[t]) THEN c ELSE cell[r][i]
  <2> DEFINE a == crq[t]
             b == Slot(ticket[t])
  <2>1. /\ a \in Rings /\ b \in Cells /\ cell \in [Rings -> [Cells -> CellType]]
        /\ cell' = [cell EXCEPT ![a][b] = c]
    BY <1>1, <1>2
  <2> HIDE DEF a, b
  <2>2. /\ cell' \in [Rings -> [Cells -> CellType]]
        /\ \A r \in Rings, i \in Cells : cell'[r][i] = IF r = a /\ i = b THEN c ELSE cell[r][i]
    BY <2>1, ExceptIs
  <2> QED
    BY <2>2 DEF a, b
<1> QED
  BY <1>2, <1>3 DEF CellSet

----------------------------------------------------------------------------
(* Types and locals *)

\* TypeOK in three parts: what rings and cells hold, what the locals of a call
\* and what those of its ring hold.
SharedTypes ==
  /\ qhead \in Rings /\ qtail \in Rings
  /\ next \in [Rings -> RingOrNull]
  /\ rhead \in [Rings -> Nat]
  /\ rtail \in [Rings -> [t : Nat, closed : BOOLEAN]]
  /\ cell \in [Rings -> [Cells -> CellType]]
  /\ freed \subseteq Rings
CallTypes ==
  /\ pc \in [Threads -> {"idle"} \union EnqueuePcs \union DequeuePcs]
  /\ item \in [Threads -> Items \union {Null}]
  /\ crq \in [Threads -> RingOrNull]
  /\ \A t \in Threads : crq[t] = 0 => pc[t] \in {"idle", "lTail", "lHead"}
  /\ unsent \subseteq Items /\ dequeues \in 0..MaxDequeues
  /\ entered \subseteq Items /\ prior \in [Items -> SUBSET Items]
  /\ out \in [Items -> Nat] /\ known \in [Threads -> SUBSET Items]
RingTypes ==
  /\ ticket \in [Threads -> Nat]
  /\ word \in [Threads -> CellType]
  /\ tries \in [Threads -> 0..(StarvingThreshold + 1)]
  /\ fix \in [Threads -> [h : Nat, tail : [t : Nat, closed : BOOLEAN]]]

LEMMA TypesSplit ==
  /\ TypeOK <=> SharedTypes /\ CallTypes /\ RingTypes
  /\ TypeOK' <=> SharedTypes' /\ CallTypes' /\ RingTypes'
BY DEF TypeOK, SharedTypes, CallTypes, RingTypes

LEMMA RingsAre ==
  /\ Cardinality(Items) \in Nat /\ Rings \subseteq Nat \ {0} /\ 1 \in Rings
  /\ \A n \in Nat : n <= Cardinality(Items) => n + 1 \in Rings
<1>1. Cardinality(Items) \in Nat
  BY FS_CardinalityType
<1> QED
  BY <1>1 DEF Rings

LEMMA Values ==
  /\ NoWord \in CellType /\ NoFix \in [h : Nat, tail : [t : Nat, closed : BOOLEAN]]
  /\ \A s \in BOOLEAN, i \in Nat, v \in Items \union {Null} :
       /\ Cell(s, i, v) \in CellType
       /\ Cell(s, i, v).safe = s /\ Cell(s, i, v).idx = i /\ Cell(s, i, v).val = v
  /\ \A k \in Nat, b \in BOOLEAN :
       /\ Word(k, b) \in [t : Nat, closed : BOOLEAN]
       /\ Word(k, b).t = k /\ Word(k, b).closed = b
BY DEF NoWord, NoFix, Cell, Word, CellType

LEMMA TypeInit == Init => TypeOK /\ \A t \in Threads : Locals(t)
<1> SUFFICES ASSUME Init PROVE TypeOK /\ \A t \in Threads : Locals(t)
  OBVIOUS
<1>1. 0 \in Nat /\ 1 \in Rings /\ R \in Nat
  BY RingsAre
<1> HIDE DEF Rings
<1>2. cell \in [Rings -> [Cells -> CellType]]
  <2>1. NewCells \in [Cells -> CellType]
    <3>1. \A i \in Cells : i \in Nat
      BY <1>1 DEF Cells
    <3> QED
      BY <3>1, Values DEF NewCells
  <2> QED
    BY <2>1 DEF Init
<1>3. RingTypes
  BY <1>1, Values DEF Init, RingTypes, StarvingThreshold
<1>4. rtail \in [Rings -> [t : Nat, closed : BOOLEAN]]
  BY Values DEF Init
<1>5. SharedTypes
  BY <1>1, <1>2, <1>4 DEF Init, SharedTypes, RingOrNull
<1>6. CallTypes
  BY DEF Init, CallTypes, RingOrNull
<1>7. \A t \in Threads : Locals(t)
  BY DEF Init, Locals, EnqueuePcs
<1> QED
  BY <1>3, <1>5, <1>6, <1>7, TypesSplit

\* What returns, starts over and leaves a ring has no locals left.
LEMMA LeaveIs ==
  ASSUME TypeOK, NEW t \in Threads, LeaveRing(t)
  PROVE  RingTypes'
<1>1. 0 \in 0..(R + 1) /\ 0 \in Nat
  OBVIOUS
<1> QED
  BY <1>1, Values, TypesSplit DEF LeaveRing, RingTypes, StarvingThreshold

\* The locals of thread t after its step, and nobody else's, are to be looked at.
LEMMA LocalsKept ==
  ASSUME TypeOK, \A u \in Threads : Locals(u), NEW t \in Threads, Step(t), Locals(t)'
  PROVE  \A u \in Threads : Locals(u)'
<1> SUFFICES ASSUME NEW u \in Threads \ {t} PROVE Locals(u)'
  OBVIOUS
<1>1. Same(u)
  BY OthersSame
<1> QED
  BY <1>1 DEF Same, Locals

LEMMA TypesCall ==
  ASSUME TypeOK, NEW t \in Threads, Locals(t), Call(t)
  PROVE  TypeOK' /\ Locals(t)'
<1>1. freed' = freed
  BY OthersSame DEF Step
<1> USE DEF Goto, queue, rings, locals, history, calls
<1>2. CASE CallDequeue(t)
  <2>1. TypeOK'
    BY <1>1, <1>2 DEF CallDequeue, TypeOK, DequeuePcs
  <2>2. Locals(t)'
    BY <1>1, <1>2 DEF CallDequeue, TypeOK, Locals, EnqueuePcs
  <2> QED
    BY <2>1, <2>2
<1>3. CASE \E x \in Items : CallEnqueue(t, x)
  <2>1. TypeOK'
    BY <1>1, <1>3 DEF CallEnqueue, TypeOK, EnqueuePcs
  <2>2. Locals(t)'
    BY <1>1, <1>3 DEF CallEnqueue, TypeOK, Locals, EnqueuePcs
  <2> QED
    BY <2>1, <2>2
<1> QED
  BY <1>2, <1>3 DEF Call

LEMMA TypesList ==
  ASSUME TypeOK, List, NEW t \in Threads, Locals(t),
         LTail(t) \/ LNext(t) \/ LHelp(t) \/ LSwing(t) \/ LHead(t) \/ LDReturnEmpty(t)
         \/ LDNext(t) \/ LDSwing(t)
  PROVE  TypeOK' /\ Locals(t)'
<1>1. freed' = freed
  BY OthersSame DEF Step, Enqueue, Dequeue
<1>2. (crq[t] # 0 => crq[t] \in Rings) /\ 0 \notin Rings
  BY DEF TypeOK, RingOrNull, Rings
<1>3. pc[t] \in {"lHelp", "lSwing", "lDSwing"} => next[crq[t]] \in Rings
  BY <1>2 DEF List, TypeOK, RingOrNull
<1>4. pc[t] = "lSwing" => item[t] \in Items
  BY DEF TypeOK, Locals, EnqueuePcs
<1>5. SharedTypes /\ CallTypes /\ RingTypes
  BY TypesSplit
<1> USE DEF Goto, queue, rings, locals, history, calls
<1>6. SharedTypes'
  <2>1. CASE LTail(t) \/ LNext(t) \/ LHead(t) \/ LDReturnEmpty(t) \/ LDNext(t)
    BY <1>1, <1>5, <2>1 DEF LTail, LNext, LHead, LDReturnEmpty, LDNext, SharedTypes
  <2>2. CASE LHelp(t) \/ LSwing(t) \/ LDSwing(t)
    BY <1>1, <1>3, <1>5, <2>2 DEF LHelp, LSwing, LDSwing, Again, EnqueueReturns, Return, CasTail, SharedTypes
  <2> QED
    BY <2>1, <2>2
<1>7. RingTypes'
  <2>1. CASE LTail(t) \/ LNext(t) \/ LHead(t) \/ LDNext(t)
    BY <1>5, <2>1 DEF LTail, LNext, LHead, LDNext, RingTypes
  <2>2. CASE LHelp(t) \/ LSwing(t) \/ LDSwing(t) \/ LDReturnEmpty(t)
    BY <2>2, LeaveIs DEF LHelp, LSwing, LDSwing, LDReturnEmpty, Again, EnqueueReturns, Return
  <2> QED
    BY <2>1, <2>2
<1>8. CallTypes'
  <2>1. CASE LTail(t)
    BY <1>2, <1>5, <2>1 DEF LTail, SharedTypes, CallTypes, EnqueuePcs, RingOrNull
  <2>2. CASE LHead(t)
    BY <1>2, <1>5, <2>2 DEF LHead, SharedTypes, CallTypes, DequeuePcs, RingOrNull
  <2>3. CASE LNext(t)
    BY <1>5, <2>3 DEF LNext, CallTypes, EnqueuePcs
  <2>4. CASE LDNext(t)
    BY <1>5, <2>4 DEF LDNext, CallTypes, DequeuePcs
  <2>5. CASE LHelp(t)
    BY <1>5, <2>5 DEF LHelp, Again, CallTypes, EnqueuePcs, RingOrNull
  <2>6. CASE LDSwing(t)
    BY <1>5, <2>6 DEF LDSwing, Again, CallTypes, DequeuePcs, RingOrNull
  <2>7. CASE LSwing(t)
    BY <1>4, <1>5, <2>7 DEF LSwing, EnqueueReturns, Return, CallTypes, RingOrNull
  <2>8. CASE LDReturnEmpty(t)
    BY <1>5, <2>8 DEF LDReturnEmpty, Return, CallTypes, RingOrNull
  <2> QED
    BY <2>1, <2>2, <2>3, <2>4, <2>5, <2>6, <2>7, <2>8
<1>9. Locals(t)'
  <2> USE DEF CallTypes, RingTypes, Locals, EnqueuePcs, DequeuePcs
  <2>1. CASE LTail(t) \/ LNext(t) \/ LHead(t) \/ LDNext(t)
    BY <1>5, <2>1 DEF LTail, LNext, LHead, LDNext
  <2>2. CASE LHelp(t) \/ LDSwing(t)
    BY <1>5, <2>2 DEF LHelp, LDSwing, Again
  <2>3. CASE LSwing(t) \/ LDReturnEmpty(t)
    BY <1>5, <2>3 DEF LSwing, LDReturnEmpty, EnqueueReturns, Return
  <2> QED
    BY <2>1, <2>2, <2>3
<1> QED
  BY <1>6, <1>7, <1>8, <1>9, TypesSplit

\* What a thread reads of its cell, one word after the other.
LEMMA WordType ==
  ASSUME TypeOK, NEW t \in Threads, NEW c \in CellType
  PROVE  /\ [word EXCEPT ![t].val = c.val] \in [Threads -> CellType]
         /\ [word EXCEPT ![t].safe = c.safe, ![t].idx = c.idx] \in [Threads -> CellType]
         /\ [word EXCEPT ![t] = NoWord] \in [Threads -> CellType]
         /\ [word EXCEPT ![t].val = c.val][t] = Cell(word[t].safe, word[t].idx, c.val)
         /\ [word EXCEPT ![t].safe = c.safe, ![t].idx = c.idx][t] = Cell(c.safe, c.idx, word[t].val)
<1>1. word \in [Threads -> CellType] /\ word[t] \in CellType
  BY DEF TypeOK
<1>2. /\ c.val \in Items \union {Null} /\ c.safe \in BOOLEAN /\ c.idx \in Nat
      /\ word[t] = [safe |-> word[t].safe, idx |-> word[t].idx, val |-> word[t].val]
      /\ word[t].val \in Items \union {Null} /\ word[t].safe \in BOOLEAN /\ word[t].idx \in Nat
  BY <1>1 DEF CellType
<1>3. /\ [word[t] EXCEPT !.val = c.val] = Cell(word[t].safe, word[t].idx, c.val)
      /\ [word[t] EXCEPT !.safe = c.safe, !.idx = c.idx] = Cell(c.safe, c.idx, word[t].val)
  <2>1. \A e : \A w \in CellType : [w EXCEPT !.val = e] = [safe |-> w.safe, idx |-> w.idx, val |-> e]
    BY DEF CellType
  <2>2. \A e, f : \A w \in CellType :
          [w EXCEPT !.safe = e, !.idx = f] = [safe |-> e, idx |-> f, val |-> w.val]
    <3> SUFFICES ASSUME NEW e, NEW f, NEW w \in CellType
                 PROVE  [w EXCEPT !.safe = e, !.idx = f] = [safe |-> e, idx |-> f, val |-> w.val]
      OBVIOUS
    <3> DEFINE i == w.idx
               v == w.val
    <3>1. [w EXCEPT !.safe = e, !.idx = f] = [[w EXCEPT !.safe = e] EXCEPT !.idx = f]
      OBVIOUS
    <3>2. [w EXCEPT !.safe = e] = [safe |-> e, idx |-> i, val |-> v]
      BY DEF CellType
    <3>3. [[w EXCEPT !.safe = e] EXCEPT !.idx = f] = [[safe |-> e, idx |-> i, val |-> v] EXCEPT !.idx = f]
      BY <3>2
    <3>4. [[safe |-> e, idx |-> i, val |-> v] EXCEPT !.idx = f] = [safe |-> e, idx |-> f, val |-> v]
      <4>1. \A a, b, d, x : [[safe |-> a, idx |-> b, val |-> d] EXCEPT !.idx = x]
                              = [safe |-> a, idx |-> x, val |-> d]
        OBVIOUS
      <4> HIDE DEF i, v
      <4> QED
        BY <4>1
    <3> QED
      BY <3>1, <3>3, <3>4, Zenon
  <2> QED
    BY <1>1, <2>1, <2>2 DEF Cell
<1>4. Cell(word[t].safe, word[t].idx, c.val) \in CellType /\ Cell(c.safe, c.idx, word[t].val) \in CellType
  BY <1>2, Values
<1>5. /\ [word EXCEPT ![t].val = c.val] = [word EXCEPT ![t] = Cell(word[t].safe, word[t].idx, c.val)]
      /\ [word EXCEPT ![t].safe = c.safe, ![t].idx = c.idx] =
           [word EXCEPT ![t] = Cell(c.safe, c.idx, word[t].val)]
  BY <1>1, <1>3
<1>6. \A d \in CellType : [word EXCEPT ![t] = d] \in [Threads -> CellType] /\ [word EXCEPT ![t] = d][t] = d
  BY <1>1
<1>7. [word EXCEPT ![t] = NoWord] \in [Threads -> CellType]
  BY <1>6, Values
<1>8. /\ [word EXCEPT ![t].val = c.val] \in [Threads -> CellType]
      /\ [word EXCEPT ![t].val = c.val][t] = Cell(word[t].safe, word[t].idx, c.val)
  BY <1>4, <1>5, <1>6
<1>9. /\ [word EXCEPT ![t].safe = c.safe, ![t].idx = c.idx] \in [Threads -> CellType]
      /\ [word EXCEPT ![t].safe = c.safe, ![t].idx = c.idx][t] = Cell(c.safe, c.idx, word[t].val)
  BY <1>4, <1>5, <1>6
<1> QED
  BY <1>7, <1>8, <1>9

LEMMA TypesPut ==
  ASSUME TypeOK, NEW t \in Threads, Locals(t),
         ETicket(t) \/ EVal(t) \/ EIdx(t) \/ EHead(t) \/ ECas(t) \/ EOver(t) \/ EClose(t)
  PROVE  TypeOK' /\ Locals(t)'
<1>1. freed' = freed
  BY OthersSame DEF Step, Enqueue
<1>2. crq[t] # 0 /\ crq[t] \in Rings /\ pc[t] \in EnqueuePcs /\ item[t] \in Items
  BY DEF TypeOK, RingOrNull, ETicket, EVal, EIdx, EHead, ECas, EOver, EClose, Goto,
         EnqueueReturns, Return, Locals, EnqueuePcs
<1>3. /\ At(t) \in CellType /\ At(t).idx \in Nat
      /\ Cell(TRUE, ticket[t], item[t]) \in CellType
  BY <1>2, CellIs, Values
<1>4. SharedTypes /\ CallTypes /\ RingTypes
  BY TypesSplit
<1> USE DEF Goto, queue, rings, locals, history, calls
<1>5. SharedTypes'
  <2>1. CASE ETicket(t) \/ EClose(t)
    <3>1. rtail[crq[t]] \in [t : Nat, closed : BOOLEAN] /\ rtail[crq[t]].t + 1 \in Nat
      BY <1>2, <1>4 DEF SharedTypes
    <3>2. /\ [rtail[crq[t]] EXCEPT !.t = rtail[crq[t]].t + 1] \in [t : Nat, closed : BOOLEAN]
          /\ [rtail[crq[t]] EXCEPT !.closed = TRUE] \in [t : Nat, closed : BOOLEAN]
      BY <3>1
    <3>3. rtail' \in [Rings -> [t : Nat, closed : BOOLEAN]]
      BY <1>2, <1>4, <2>1, <3>2 DEF ETicket, EClose, SharedTypes
    <3> QED
      BY <1>1, <1>4, <2>1, <3>3 DEF ETicket, EClose, SharedTypes
  <2>2. CASE EVal(t) \/ EIdx(t) \/ EHead(t) \/ EOver(t)
    BY <1>1, <1>4, <2>2 DEF EVal, EIdx, EHead, EOver, SharedTypes
  <2>3. CASE ECas(t)
    BY <1>1, <1>2, <1>3, <1>4, <2>3, CasIs DEF ECas, SharedTypes
  <2> QED
    BY <2>1, <2>2, <2>3
<1>6. RingTypes'
  <2>1. CASE ETicket(t)
    BY <1>2, <1>4, <2>1, LeaveIs DEF ETicket, RingTypes, SharedTypes
  <2>2. CASE EVal(t) \/ EIdx(t)
    <3>1. word' \in [Threads -> CellType]
      <4>1. CASE EVal(t)
        <5>1. word' = [word EXCEPT ![t].val = At(t).val]
          BY <4>1 DEF EVal
        <5> QED
          BY <1>3, <5>1, WordType
      <4>2. CASE EIdx(t)
        <5>1. word' = [word EXCEPT ![t].safe = At(t).safe, ![t].idx = At(t).idx]
          BY <4>2 DEF EIdx
        <5> QED
          BY <1>3, <5>1, WordType
      <4> QED
        BY <2>2, <4>1, <4>2
    <3> QED
      BY <1>4, <2>2, <3>1 DEF EVal, EIdx, RingTypes
  <2>3. CASE EHead(t)
    BY <1>4, <2>3 DEF EHead, RingTypes
  <2>4. CASE ECas(t) \/ EClose(t)
    BY <1>4, <2>4, LeaveIs DEF ECas, EClose, EnqueueReturns, Return, RingTypes
  <2>5. CASE EOver(t)
    <3>1. tries' \in [Threads -> 0..(StarvingThreshold + 1)]
      BY <1>4, <2>5 DEF EOver, RingTypes, StarvingThreshold
    <3>2. /\ ticket' \in [Threads -> Nat] /\ fix' = fix
          /\ word' = word \/ word' = [word EXCEPT ![t] = NoWord]
      BY <1>4, <2>5 DEF EOver, RingTypes
    <3>3. word' \in [Threads -> CellType]
      BY <1>3, <1>4, <3>2, WordType DEF RingTypes
    <3> QED
      BY <1>4, <3>1, <3>2, <3>3 DEF RingTypes
  <2> QED
    BY <2>1, <2>2, <2>3, <2>4, <2>5
<1>7. CallTypes'
  <2>1. CASE ETicket(t) \/ EVal(t) \/ EIdx(t) \/ EHead(t)
    BY <1>2, <1>4, <2>1 DEF ETicket, EVal, EIdx, EHead, CallTypes, EnqueuePcs
  <2>2. CASE EOver(t) \/ EClose(t)
    BY <1>2, <1>4, <2>2 DEF EOver, EClose, CallTypes, EnqueuePcs
  <2>3. CASE ECas(t)
    BY <1>2, <1>4, <2>3 DEF ECas, EnqueueReturns, Return, CallTypes, EnqueuePcs, RingOrNull
  <2> QED
    BY <2>1, <2>2, <2>3
<1>8. Locals(t)'
  <2> USE DEF CallTypes, RingTypes, Locals, EnqueuePcs
  <2>1. CASE ETicket(t) \/ EVal(t) \/ EHead(t)
    BY <1>4, <2>1 DEF ETicket, EVal, EHead
  <2>2. CASE EIdx(t)
    <3>1. word'[t] = Cell(At(t).safe, At(t).idx, word[t].val)
      BY <1>3, <2>2, WordType DEF EIdx
    <3>2. word'[t].safe = At(t).safe /\ word'[t].idx = At(t).idx /\ word'[t].val = word[t].val
      BY <3>1 DEF Cell
    <3>3. /\ ticket' = ticket /\ item' = item /\ crq' = crq /\ fix' = fix
          /\ pc'[t] \in {"eCas", "eHead", "eOver"}
          /\ pc'[t] \in {"eCas", "eHead"} => word[t].val = Null /\ At(t).idx <= ticket[t]
          /\ pc'[t] = "eHead" => ~At(t).safe
      BY <1>4, <2>2 DEF EIdx
    <3> QED
      BY <1>2, <1>4, <3>2, <3>3
  <2>3. CASE ECas(t)
    BY <1>4, <2>3 DEF ECas, EnqueueReturns, Return
  <2>4. CASE EOver(t) \/ EClose(t)
    BY <1>4, <2>4 DEF EOver, EClose
  <2> QED
    BY <2>1, <2>2, <2>3, <2>4
<1> QED
  BY <1>5, <1>6, <1>7, <1>8, TypesSplit

\* The locals of a fixState.
LEMMA FixType ==
  ASSUME TypeOK, NEW t \in Threads, NEW n \in Nat, NEW w \in [t : Nat, closed : BOOLEAN]
  PROVE  /\ [fix EXCEPT ![t].h = n] \in [Threads -> [h : Nat, tail : [t : Nat, closed : BOOLEAN]]]
         /\ [fix EXCEPT ![t].tail = w] \in [Threads -> [h : Nat, tail : [t : Nat, closed : BOOLEAN]]]
         /\ [fix EXCEPT ![t] = NoFix] \in [Threads -> [h : Nat, tail : [t : Nat, closed : BOOLEAN]]]
<1>1. fix \in [Threads -> [h : Nat, tail : [t : Nat, closed : BOOLEAN]]]
  BY DEF TypeOK
<1> QED
  BY <1>1, Values

LEMMA TypesTake ==
  ASSUME TypeOK, NEW t \in Threads, Locals(t),
         DTicket(t) \/ DVal(t) \/ DIdx(t) \/ DTake(t) \/ DUnsafe(t) \/ DSkip(t) \/ DTail(t)
         \/ FHead(t) \/ FTail(t) \/ FTail2(t) \/ FCas(t)
  PROVE  TypeOK'
<1>1. freed' = freed
  BY OthersSame DEF Step, Dequeue
<1>2. crq[t] # 0 /\ crq[t] \in Rings /\ pc[t] \in DequeuePcs
  BY DEF TypeOK, RingOrNull, DTicket, DVal, DIdx, DTake, DUnsafe, DSkip, DTail,
         FHead, FTail, FTail2, FCas, Goto, Return, Reread, DequeuePcs
<1>3. /\ At(t) \in CellType /\ ticket[t] + R \in Nat
      /\ Cell(word[t].safe, ticket[t] + R, Null) \in CellType
      /\ Cell(FALSE, word[t].idx, word[t].val) \in CellType
  <2>1. ticket[t] + R \in Nat
    BY CellIs
  <2> QED
    BY <1>2, <2>1, CellIs, Values
<1>4. SharedTypes /\ CallTypes /\ RingTypes
  BY TypesSplit
<1> USE DEF Goto, queue, rings, locals, history, calls
<1>5. SharedTypes'
  <2>1. CASE DTicket(t)
    BY <1>1, <1>2, <1>4, <2>1 DEF DTicket, SharedTypes
  <2>2. CASE DVal(t) \/ DIdx(t) \/ DTail(t) \/ FHead(t) \/ FTail(t) \/ FTail2(t)
    BY <1>1, <1>4, <2>2 DEF DVal, DIdx, DTail, FHead, FTail, FTail2, SharedTypes
  <2>3. CASE DTake(t) \/ DUnsafe(t) \/ DSkip(t)
    <3>1. cell' \in [Rings -> [Cells -> CellType]]
      BY <1>2, <1>3, <1>4, <2>3, CasIs DEF DTake, DUnsafe, DSkip, Reread, SharedTypes
    <3> QED
      BY <1>1, <1>4, <2>3, <3>1 DEF DTake, DUnsafe, DSkip, SharedTypes
  <2>4. CASE FCas(t)
    <3>1. Word(fix[t].h, FALSE) \in [t : Nat, closed : BOOLEAN]
      BY <1>4, Values DEF RingTypes
    <3>2. rtail' \in [Rings -> [t : Nat, closed : BOOLEAN]]
      BY <1>4, <2>4, <3>1 DEF FCas, SharedTypes
    <3> QED
      BY <1>1, <1>4, <2>4, <3>2 DEF FCas, SharedTypes
  <2> QED
    BY <2>1, <2>2, <2>3, <2>4
<1>6. RingTypes'
  <2>1. CASE DTicket(t)
    BY <1>2, <1>4, <2>1 DEF DTicket, RingTypes, SharedTypes
  <2>2. CASE DVal(t) \/ DIdx(t) \/ DUnsafe(t) \/ DSkip(t) \/ Reread(t, "dTake")
    <3>1. word' \in [Threads -> CellType]
      <4>1. CASE DVal(t)
        <5>1. word' = [word EXCEPT ![t].val = At(t).val]
          BY <4>1 DEF DVal
        <5> QED
          BY <1>3, <5>1, WordType
      <4>2. CASE DIdx(t)
        <5>1. word' = [word EXCEPT ![t].safe = At(t).safe, ![t].idx = At(t).idx]
          BY <4>2 DEF DIdx
        <5> QED
          BY <1>3, <5>1, WordType
      <4>3. CASE DUnsafe(t) \/ DSkip(t) \/ Reread(t, "dTake")
        <5>1. word' = word \/ word' = [word EXCEPT ![t] = NoWord]
          BY <4>3 DEF DUnsafe, DSkip, Reread
        <5> QED
          BY <1>3, <1>4, <5>1, WordType DEF RingTypes
      <4> QED
        BY <2>2, <4>1, <4>2, <4>3
    <3>2. ticket' = ticket /\ tries' = tries /\ fix' = fix
      BY <2>2 DEF DVal, DIdx, DUnsafe, DSkip, Reread
    <3> QED
      BY <1>4, <3>1, <3>2 DEF RingTypes
  <2>3. CASE DTake(t)
    BY <2>2, <2>3, LeaveIs DEF DTake, Return
  <2>4. CASE DTail(t)
    <3>1. /\ word' = [word EXCEPT ![t] = NoWord] /\ tries' = tries /\ fix' = fix
          /\ ticket' \in [Threads -> Nat]
      BY <1>4, <2>4 DEF DTail, RingTypes
    <3>2. word' \in [Threads -> CellType]
      BY <1>3, <3>1, WordType
    <3> QED
      BY <1>4, <3>1, <3>2 DEF RingTypes
  <2>5. CASE FHead(t) \/ FTail(t) \/ FTail2(t) \/ FCas(t)
    <3>1. rhead[crq[t]] \in Nat /\ rtail[crq[t]] \in [t : Nat, closed : BOOLEAN]
      BY <1>2, <1>4 DEF SharedTypes
    <3>2. /\ ticket' = ticket /\ word' = word /\ tries' = tries
          /\ \/ fix' = fix
             \/ fix' = [fix EXCEPT ![t].h = rhead[crq[t]]]
             \/ fix' = [fix EXCEPT ![t].tail = rtail[crq[t]]]
             \/ fix' = [fix EXCEPT ![t] = NoFix]
      BY <2>5 DEF FHead, FTail, FTail2, FCas
    <3>3. fix' \in [Threads -> [h : Nat, tail : [t : Nat, closed : BOOLEAN]]]
      <4>1. NoFix \in [h : Nat, tail : [t : Nat, closed : BOOLEAN]] /\ fix \in [Threads -> [h : Nat, tail : [t : Nat, closed : BOOLEAN]]]
        BY <1>4, Values DEF RingTypes
      <4>2. /\ [fix EXCEPT ![t].h = rhead[crq[t]]] \in [Threads -> [h : Nat, tail : [t : Nat, closed : BOOLEAN]]]
            /\ [fix EXCEPT ![t].tail = rtail[crq[t]]] \in [Threads -> [h : Nat, tail : [t : Nat, closed : BOOLEAN]]]
            /\ [fix EXCEPT ![t] = NoFix] \in [Threads -> [h : Nat, tail : [t : Nat, closed : BOOLEAN]]]
        <5> DEFINE n == rhead[crq[t]]
                   w == rtail[crq[t]]
        <5>1. n \in Nat /\ w \in [t : Nat, closed : BOOLEAN]
          BY <3>1
        <5> HIDE DEF n, w
        <5>2. /\ [fix EXCEPT ![t].h = n] \in [Threads -> [h : Nat, tail : [t : Nat, closed : BOOLEAN]]]
              /\ [fix EXCEPT ![t].tail = w] \in [Threads -> [h : Nat, tail : [t : Nat, closed : BOOLEAN]]]
              /\ [fix EXCEPT ![t] = NoFix] \in [Threads -> [h : Nat, tail : [t : Nat, closed : BOOLEAN]]]
          BY <5>1, FixType
        <5> QED
          BY <5>2 DEF n, w
      <4> QED
        BY <3>2, <4>1, <4>2
    <3> QED
      BY <1>4, <3>2, <3>3 DEF RingTypes
  <2> QED
    BY <2>1, <2>2, <2>3, <2>4, <2>5
<1>7. CallTypes'
  <2>1. CASE DTicket(t) \/ DVal(t) \/ DIdx(t) \/ DTail(t)
    BY <1>2, <1>4, <2>1 DEF DTicket, DVal, DIdx, DTail, CallTypes, DequeuePcs
  <2>2. CASE DUnsafe(t) \/ DSkip(t)
    BY <1>2, <1>4, <2>2 DEF DUnsafe, DSkip, Reread, CallTypes, DequeuePcs
  <2>3. CASE FHead(t) \/ FTail(t) \/ FTail2(t) \/ FCas(t)
    BY <1>2, <1>4, <2>3 DEF FHead, FTail, FTail2, FCas, CallTypes, DequeuePcs
  <2>4. CASE DTake(t)
    <3>1. CASE Reread(t, "dTake")
      BY <1>2, <1>4, <3>1 DEF Reread, CallTypes, DequeuePcs
    <3>2. CASE Return(t, "dTake") /\ out' = [out EXCEPT ![word[t].val] = @ + 1]
               /\ known' = [known EXCEPT ![t] = {}] /\ UNCHANGED <<entered, prior>>
      <4>1. out' \in [Items -> Nat]
        <5> DEFINE v == word[t].val
        <5>1. out \in [Items -> Nat] /\ out' = [out EXCEPT ![v] = @ + 1]
          BY <1>4, <3>2 DEF CallTypes
        <5> HIDE DEF v
        <5>2. \A x \in Items : [out EXCEPT ![v] = @ + 1][x] \in Nat
          BY <5>1
        <5> QED
          BY <5>1, <5>2
      <4> QED
        BY <1>2, <1>4, <3>2, <4>1 DEF Return, CallTypes, RingOrNull
    <3> QED
      BY <2>4, <3>1, <3>2 DEF DTake
  <2> QED
    BY <2>1, <2>2, <2>3, <2>4
<1> QED
  BY <1>5, <1>6, <1>7, TypesSplit

LEMMA LocalsTake ==
  ASSUME TypeOK, NEW t \in Threads, Locals(t),
         DTicket(t) \/ DVal(t) \/ DIdx(t) \/ DTake(t) \/ DUnsafe(t) \/ DSkip(t) \/ DTail(t)
         \/ FHead(t) \/ FTail(t) \/ FTail2(t) \/ FCas(t)
  PROVE  Locals(t)'
<1>1. /\ ticket[t] \in Nat /\ word[t].val \in Items \union {Null} /\ word[t].idx \in Nat
      /\ fix[t].h \in Nat /\ fix[t].tail.t \in Nat
  BY CellIs DEF TypeOK
<1>2. crq[t] # 0 /\ crq[t] \in Rings
  BY DEF TypeOK, RingOrNull, DTicket, DVal, DIdx, DTake, DUnsafe, DSkip, DTail,
         FHead, FTail, FTail2, FCas, Goto, Return, Reread
<1>3. At(t) \in CellType /\ At(t).idx \in Nat
  BY <1>2, CellIs
<1>4. CallTypes /\ RingTypes
  BY TypesSplit
<1> USE DEF Goto, queue, rings, locals, history, calls, CallTypes, RingTypes, Locals, EnqueuePcs
<1>5. CASE DTicket(t) \/ DVal(t) \/ DTail(t)
  BY <1>4, <1>5 DEF DTicket, DVal, DTail
<1>6. CASE DIdx(t)
  <2>1. word'[t] = Cell(At(t).safe, At(t).idx, word[t].val)
    BY <1>3, <1>6, WordType DEF DIdx
  <2>2. word'[t].safe = At(t).safe /\ word'[t].idx = At(t).idx /\ word'[t].val = word[t].val
    BY <2>1 DEF Cell
  <2>3. /\ ticket' = ticket /\ item' = item /\ crq' = crq /\ fix' = fix /\ pc[t] = "dIdx"
        /\ pc'[t] \in {"dTail", "dSkip", "dTake", "dUnsafe"}
        /\ pc'[t] = "dSkip" => word[t].val = Null /\ ~(At(t).idx > ticket[t])
        /\ pc'[t] = "dTake" => word[t].val # Null /\ At(t).idx = ticket[t]
        /\ pc'[t] = "dUnsafe" => /\ word[t].val # Null /\ At(t).idx # ticket[t]
                                 /\ ~(At(t).idx > ticket[t])
    BY <1>4, <1>6 DEF DIdx
  <2> QED
    BY <1>1, <1>2, <1>3, <2>2, <2>3
<1>7. CASE DUnsafe(t) \/ DSkip(t) \/ Reread(t, "dTake")
  BY <1>4, <1>7 DEF DUnsafe, DSkip, Reread
<1>8. CASE DTake(t)
  BY <1>4, <1>7, <1>8 DEF DTake, Return
<1>9. CASE FHead(t) \/ FTail(t)
  BY <1>4, <1>9 DEF FHead, FTail
<1>10. CASE FTail2(t)
  BY <1>1, <1>4, <1>10 DEF FTail2
<1>11. CASE FCas(t)
  BY <1>4, <1>11 DEF FCas
<1> QED
  BY <1>5, <1>6, <1>7, <1>8, <1>9, <1>10, <1>11

----------------------------------------------------------------------------
(* The list of rings *)

\* The first disjunct of LLink: thread t links a new ring.
LinkNew(t) ==
  LET n == crq[t] + 1
  IN  /\ pc[t] = "lLink" /\ pc'[t] = "lSwing" /\ next[crq[t]] = 0
      /\ next' = [next EXCEPT ![crq[t]] = n]
      /\ rtail' = [rtail EXCEPT ![n] = Word(1, FALSE)]
      /\ cell' = [cell EXCEPT ![n][0] = Cell(TRUE, 0, item[t])]
      /\ qhead' = qhead /\ qtail' = qtail /\ rhead' = rhead
      /\ UNCHANGED <<locals, calls>>

\* What a step does to the list and to the rings other than its own.
RingKept(t) ==
  /\ next' = next
  /\ qhead' = qhead \/ (pc[t] = "lDSwing" /\ qhead = crq[t] /\ qhead' = next[crq[t]])
  /\ qtail' = qtail \/ (pc[t] \in {"lHelp", "lSwing"} /\ qtail = crq[t] /\ qtail' = next[crq[t]])
  /\ \A r \in Rings :
       /\ rhead'[r] \in {rhead[r], rhead[r] + 1} /\ rtail'[r].t >= rtail[r].t
       /\ r # crq[t] => rhead'[r] = rhead[r] /\ rtail'[r] = rtail[r] /\ cell'[r] = cell[r]

LEMMA LinkStep ==
  ASSUME TypeOK, NEW t \in Threads, LLink(t)
  PROVE  \/ LinkNew(t)
         \/ Again(t, "lLink", "lTail") /\ UNCHANGED queue
<1>1. DOMAIN pc = Threads
  BY DEF TypeOK
<1> QED
  BY <1>1 DEF LLink, LinkNew, Again, Goto, queue, rings

LEMMA RingStep ==
  ASSUME TypeOK, NEW t \in Threads, Locals(t), Step(t)
  PROVE  RingKept(t) \/ LinkNew(t)
<1>1. /\ DOMAIN rhead = Rings /\ rtail \in [Rings -> [t : Nat, closed : BOOLEAN]]
      /\ DOMAIN cell = Rings /\ DOMAIN pc = Threads
  BY DEF TypeOK
<1>2. \A r \in Rings : rtail[r].t \in Nat
  BY <1>1
<1> USE DEF Goto, queue, rings, locals, history, calls, RingKept
<1>3. CASE UNCHANGED queue
  BY <1>1, <1>2, <1>3
<1>4. CASE Call(t)
  BY <1>3, <1>4 DEF Call, CallDequeue, CallEnqueue
<1>5. CASE LTail(t) \/ LNext(t) \/ LHead(t) \/ LDReturnEmpty(t) \/ LDNext(t)
  BY <1>3, <1>5 DEF LTail, LNext, LHead, LDReturnEmpty, LDNext
<1>6. CASE LHelp(t) \/ LSwing(t) \/ LDSwing(t)
  BY <1>1, <1>2, <1>6 DEF LHelp, LSwing, LDSwing, CasTail, Again, EnqueueReturns, Return
<1>7. CASE LLink(t)
  BY <1>3, <1>7, LinkStep
<1>8. CASE ETicket(t)
  BY <1>1, <1>2, <1>8 DEF ETicket
<1>9. CASE EClose(t)
  BY <1>1, <1>2, <1>9 DEF EClose
<1>10. CASE DTicket(t)
  BY <1>1, <1>2, <1>10 DEF DTicket
<1>11. CASE EVal(t) \/ EIdx(t) \/ EHead(t) \/ EOver(t)
  BY <1>3, <1>11 DEF EVal, EIdx, EHead, EOver
<1>12. CASE ECas(t) \/ DTake(t) \/ DUnsafe(t) \/ DSkip(t)
  <2>1. cell' = cell \/ \E c : cell' = [cell EXCEPT ![crq[t]][ticket[t] % R] = c]
    BY <1>12 DEF ECas, DTake, DUnsafe, DSkip, Reread, Cas2
  <2>2. \A r \in Rings : r # crq[t] => cell'[r] = cell[r]
    BY <1>1, <2>1
  <2>3. next' = next /\ qhead' = qhead /\ qtail' = qtail /\ rhead' = rhead /\ rtail' = rtail
    BY <1>12 DEF ECas, DTake, DUnsafe, DSkip
  <2> QED
    BY <1>2, <2>2, <2>3
<1>13. CASE DVal(t) \/ DIdx(t) \/ DTail(t) \/ FHead(t) \/ FTail(t) \/ FTail2(t)
  BY <1>3, <1>13 DEF DVal, DIdx, DTail, FHead, FTail, FTail2
<1>14. CASE FCas(t)
  <2>1. fix[t].tail.t < fix[t].h /\ fix[t].h \in Nat
    BY <1>14 DEF FCas, Locals, TypeOK
  <2>2. rtail' = rtail \/ (rtail[crq[t]] = fix[t].tail /\ rtail' = [rtail EXCEPT ![crq[t]] = Word(fix[t].h, FALSE)])
    BY <1>14 DEF FCas
  <2>3. \A r \in Rings : rtail'[r].t >= rtail[r].t /\ (r # crq[t] => rtail'[r] = rtail[r])
    <3> SUFFICES ASSUME NEW r \in Rings
                 PROVE  rtail'[r].t >= rtail[r].t /\ (r # crq[t] => rtail'[r] = rtail[r])
      OBVIOUS
    <3>1. CASE rtail' = rtail \/ r # crq[t]
      <4>1. rtail'[r] = rtail[r]
        BY <1>1, <2>2, <3>1
      <4>2. rtail'[r].t = rtail[r].t /\ rtail[r].t \in Nat
        BY <1>2, <4>1
      <4> QED
        BY <4>1, <4>2
    <3>2. CASE rtail' # rtail /\ r = crq[t]
      <4>1. rtail'[r] = Word(fix[t].h, FALSE) /\ rtail[r].t = fix[t].tail.t
        BY <1>1, <2>2, <3>2
      <4>2. rtail'[r].t = fix[t].h
        BY <2>1, <4>1, Values
      <4>3. fix[t].tail.t \in Nat
        BY <1>2, <4>1
      <4>4. rtail'[r].t >= rtail[r].t
        <5>1. \A a, b \in Nat : a < b => b >= a
          OBVIOUS
        <5>2. fix[t].h >= fix[t].tail.t
          BY <2>1, <4>3, <5>1
        <5> QED
          BY <4>1, <4>2, <5>2, Zenon
      <4> QED
        BY <3>2, <4>4
    <3> QED
      BY <3>1, <3>2
  <2>4. next' = next /\ qhead' = qhead /\ qtail' = qtail /\ rhead' = rhead /\ cell' = cell
    BY <1>14 DEF FCas
  <2> QED
    BY <2>3, <2>4
<1> QED
  BY <1>4, <1>5, <1>6, <1>7, <1>8, <1>9, <1>10, <1>11, <1>12, <1>13, <1>14 DEF Step, Enqueue, Dequeue

\* Where the item of an enqueue comes from and where it goes.
ItemKept(t) ==
  /\ unsent' = unsent /\ entered' = entered /\ item'[t] = item[t]
  /\ pc[t] \in EnqueuePcs <=> pc'[t] \in EnqueuePcs
  /\ pc'[t] = "lSwing" => LinkNew(t)
  /\ pc[t] # "lSwing"

ItemTaken(t) ==
  /\ pc[t] = "idle" /\ pc'[t] = "lTail"
  /\ item'[t] \in unsent /\ unsent' = unsent \ {item'[t]} /\ entered' = entered

ItemEntered(t) ==
  /\ pc[t] \in {"lSwing", "eCas"} /\ pc'[t] = "idle" /\ unsent' = unsent
  /\ entered' = entered \union {item[t]}

LEMMA ItemStep ==
  ASSUME TypeOK, NEW t \in Threads, Locals(t), Step(t)
  PROVE  ItemKept(t) \/ ItemTaken(t) \/ ItemEntered(t)
<1>1. item \in [Threads -> Items \union {Null}] /\ DOMAIN pc = Threads
  BY DEF TypeOK
<1>2. item[t] # Null <=> pc[t] \in EnqueuePcs
  BY DEF Locals
<1> USE DEF Goto, queue, rings, locals, history, calls, EnqueuePcs
<1>3. CASE Call(t)
  BY <1>1, <1>2, <1>3 DEF Call, CallDequeue, CallEnqueue, ItemKept, ItemTaken
<1>4. CASE LTail(t) \/ LNext(t) \/ LHelp(t)
  BY <1>1, <1>4 DEF LTail, LNext, LHelp, Again, ItemKept
<1>5. CASE LLink(t)
  <2>1. CASE LinkNew(t)
    BY <1>1, <2>1 DEF ItemKept, LinkNew
  <2>2. CASE Again(t, "lLink", "lTail")
    BY <1>1, <2>2 DEF ItemKept, Again
  <2> QED
    BY <1>5, <2>1, <2>2, LinkStep
<1>6. CASE LSwing(t)
  BY <1>1, <1>6 DEF LSwing, EnqueueReturns, Return, ItemEntered
<1>7. CASE ETicket(t) \/ EVal(t) \/ EIdx(t) \/ EHead(t)
  BY <1>1, <1>7 DEF ETicket, EVal, EIdx, EHead, ItemKept
<1>8. CASE EOver(t) \/ EClose(t)
  BY <1>1, <1>8 DEF EOver, EClose, ItemKept
<1>9. CASE ECas(t)
  BY <1>1, <1>9 DEF ECas, EnqueueReturns, Return, ItemEntered, ItemKept
<1>10. CASE LHead(t) \/ LDReturnEmpty(t) \/ LDNext(t) \/ LDSwing(t)
  BY <1>1, <1>2, <1>10 DEF LHead, LDReturnEmpty, LDNext, LDSwing, Return, Again, ItemKept
<1>11. CASE DTicket(t) \/ DVal(t) \/ DIdx(t) \/ DTail(t)
  BY <1>1, <1>11 DEF DTicket, DVal, DIdx, DTail, ItemKept
<1>12. CASE DTake(t) \/ DUnsafe(t) \/ DSkip(t)
  BY <1>1, <1>2, <1>12 DEF DTake, DUnsafe, DSkip, Return, Reread, ItemKept
<1>13. CASE FHead(t) \/ FTail(t) \/ FTail2(t) \/ FCas(t)
  BY <1>1, <1>13 DEF FHead, FTail, FTail2, FCas, ItemKept
<1> QED
  BY <1>3, <1>4, <1>5, <1>6, <1>7, <1>8, <1>9, <1>10, <1>11, <1>12, <1>13
  DEF Step, Enqueue, Dequeue

LEMMA OwnedStep ==
  ASSUME TypeOK, \A u \in Threads : Locals(u), Owned, NEW t \in Threads, Step(t)
  PROVE  Owned'
<1>1. \A u \in Threads \ {t} : pc'[u] = pc[u] /\ item'[u] = item[u]
  BY OthersSame DEF Same
<1>2. CASE ItemKept(t)
  BY <1>1, <1>2 DEF Owned, ItemKept
<1>3. CASE ItemTaken(t)
  BY <1>1, <1>3 DEF Owned, ItemTaken
<1>4. CASE ItemEntered(t)
  <2>1. pc[t] \in EnqueuePcs /\ pc'[t] \notin EnqueuePcs
    BY <1>4 DEF ItemEntered, EnqueuePcs
  <2> QED
    BY <1>1, <1>4, <2>1 DEF Owned, ItemEntered
<1> QED
  BY <1>2, <1>3, <1>4, ItemStep

\* What has been sent stays sent; linking a ring sends one item more.
LEMMA SentStep ==
  ASSUME TypeOK, \A u \in Threads : Locals(u), Owned, NEW t \in Threads, Step(t)
  PROVE  /\ Cardinality(Sent) <= Cardinality(Sent)'
         /\ Cardinality(Sent) \in Nat /\ Cardinality(Sent)' \in Nat
         /\ Pending(t) => Cardinality(Sent) + 1 <= Cardinality(Items)
         /\ LinkNew(t) => Cardinality(Sent)' = Cardinality(Sent) + 1
<1>1. \A u \in Threads \ {t} : pc'[u] = pc[u] /\ item'[u] = item[u]
  BY OthersSame DEF Same
<1>2. IsFiniteSet(Sent) /\ IsFiniteSet(Sent') /\ Sent \subseteq Items /\ Sent' \subseteq Items
  BY FS_Subset DEF Sent
<1>3. Sent \subseteq Sent'
  <2>1. CASE ItemKept(t)
    BY <1>1, <2>1 DEF Sent, ItemKept, Pending
  <2>2. CASE ItemTaken(t)
    BY <1>1, <2>2 DEF Sent, ItemTaken, Pending
  <2>3. CASE ItemEntered(t)
    BY <1>1, <2>3 DEF Sent, ItemEntered, Pending, EnqueuePcs
  <2> QED
    BY <2>1, <2>2, <2>3, ItemStep
<1>4. Pending(t) => item[t] \in Items /\ item[t] \notin Sent
  BY DEF Sent, Pending, Locals, TypeOK
<1>5. Pending(t) => Cardinality(Sent) + 1 <= Cardinality(Items)
  <2> SUFFICES ASSUME Pending(t) PROVE Cardinality(Sent) + 1 <= Cardinality(Items)
    OBVIOUS
  <2>1. Cardinality(Sent \union {item[t]}) = Cardinality(Sent) + 1 /\ IsFiniteSet(Sent \union {item[t]})
    BY <1>2, <1>4, FS_AddElement
  <2>2. Sent \union {item[t]} \subseteq Items
    BY <1>2, <1>4
  <2> QED
    BY <2>1, <2>2, FS_Subset
<1>6. ASSUME LinkNew(t) PROVE Sent' = Sent \union {item[t]} /\ item[t] \notin Sent
  <2>1. pc[t] = "lLink" /\ pc'[t] = "lSwing" /\ item' = item /\ unsent' = unsent
    BY <1>6 DEF LinkNew, locals, calls
  <2>2. Pending(t) /\ ~Pending(t)' /\ item[t] \notin unsent
    BY <2>1 DEF Pending, EnqueuePcs, Owned
  <2>3. \A u \in Threads \ {t} : Pending(u)' <=> Pending(u)
    BY <1>1 DEF Pending
  <2>4. \A u \in Threads \ {t} : Pending(u) => item[u] # item[t]
    BY <2>2 DEF Owned, Pending
  <2> QED
    BY <1>4, <2>1, <2>2, <2>3, <2>4 DEF Sent
<1>7. Cardinality(Sent) \in Nat /\ Cardinality(Sent') \in Nat /\ Cardinality(Sent) <= Cardinality(Sent')
  BY <1>2, <1>3, FS_Subset, FS_CardinalityType
<1>8. LinkNew(t) => Cardinality(Sent') = Cardinality(Sent) + 1
  BY <1>2, <1>6, FS_AddElement
<1> QED
  BY <1>5, <1>7, <1>8

\* The rings as they are after thread t has linked one.
LEMMA LinkedRing ==
  ASSUME TypeOK, \A u \in Threads : Locals(u), Owned, List, NEW t \in Threads, Step(t), LinkNew(t)
  PROVE  /\ crq[t] \in Rings /\ crq[t] + 1 \in Rings /\ Linked(crq[t]) /\ New(crq[t] + 1)
         /\ ~Linked(crq[t] + 1) /\ crq[t] <= Cardinality(Sent)'
         /\ \A r \in Rings : next'[r] = IF r = crq[t] THEN r + 1 ELSE next[r]
         /\ rtail'[crq[t] + 1] = Word(1, FALSE)
         /\ \A r \in Rings \ {crq[t] + 1} : rtail'[r] = rtail[r] /\ cell'[r] = cell[r]
         /\ \A i \in Cells :
              cell'[crq[t] + 1][i] = IF i = 0 THEN Cell(TRUE, 0, item[t]) ELSE Cell(TRUE, i, Null)
         /\ cell' \in [Rings -> [Cells -> CellType]] /\ item[t] \in Items
<1> DEFINE n == crq[t] + 1
<1>1. pc[t] = "lLink" /\ crq[t] \in Rings /\ Linked(crq[t]) /\ item[t] \in Items
  <2>1. pc[t] = "lLink"
    BY DEF LinkNew
  <2>2. crq[t] # 0 /\ crq[t] \in Rings
    BY <2>1 DEF TypeOK, RingOrNull
  <2>3. item[t] # Null /\ item[t] \in Items \union {Null}
    BY <2>1 DEF TypeOK, Locals, EnqueuePcs
  <2> QED
    BY <2>1, <2>2, <2>3 DEF List
<1>2. crq[t] \in Nat \ {0} /\ Cardinality(Sent) \in Nat /\ Pending(t)
      /\ Cardinality(Sent) + 1 <= Cardinality(Items)
      /\ Cardinality(Sent)' = Cardinality(Sent) + 1
  BY <1>1, SentStep, RingsAre DEF Pending, EnqueuePcs
<1>3. crq[t] <= Cardinality(Sent) + 1
  <2>1. CASE crq[t] = 1
    BY <1>2, <2>1
  <2>2. CASE crq[t] # 1
    <3>1. next[crq[t] - 1] = crq[t] /\ crq[t] - 1 \in Nat \ {0}
      BY <1>1, <1>2, <2>2 DEF Linked
    <3>2. crq[t] - 1 \in Rings
      BY <1>1, <1>2, <3>1, RingsAre DEF Rings
    <3> QED
      BY <1>2, <3>1, <3>2 DEF List
  <2> QED
    BY <2>1, <2>2
<1>4. n \in Rings /\ n # crq[t]
  BY <1>2, <1>3, RingsAre
<1>5. ~Linked(n) /\ New(n)
  BY <1>1, <1>2, <1>4 DEF Linked, List, LinkNew
<1>6. 0 \in Cells /\ Cell(TRUE, 0, item[t]) \in CellType
  <2>1. 0 \in Cells
    <3>1. R \in Nat \ {0}
      OBVIOUS
    <3> QED
      BY <3>1 DEF Cells
  <2>2. Cell(TRUE, 0, item[t]) \in CellType
    BY <1>1, Values
  <2> QED
    BY <2>1, <2>2
<1>7. /\ cell' \in [Rings -> [Cells -> CellType]]
      /\ \A r \in Rings, i \in Cells :
           cell'[r][i] = IF r = n /\ i = 0 THEN Cell(TRUE, 0, item[t]) ELSE cell[r][i]
  <2> DEFINE c == Cell(TRUE, 0, item[t])
  <2>1. /\ c \in CellType /\ cell' = [cell EXCEPT ![n][0] = c]
        /\ cell \in [Rings -> [Cells -> CellType]] /\ n \in Rings /\ 0 \in Cells
    BY <1>4, <1>6 DEF LinkNew, TypeOK
  <2> HIDE DEF c, n
  <2>2. /\ cell' \in [Rings -> [Cells -> CellType]]
        /\ \A r \in Rings, i \in Cells : cell'[r][i] = IF r = n /\ i = 0 THEN c ELSE cell[r][i]
    BY <2>1, ExceptIs
  <2> QED
    BY <2>2 DEF c
<1>8. /\ \A r \in Rings : next'[r] = IF r = crq[t] THEN r + 1 ELSE next[r]
      /\ rtail' = [rtail EXCEPT ![n] = Word(1, FALSE)] /\ DOMAIN rtail = Rings
      /\ cell' = [cell EXCEPT ![n][0] = Cell(TRUE, 0, item[t])]
      /\ DOMAIN cell = Rings
  BY DEF LinkNew, TypeOK
<1>9. /\ rtail'[n] = Word(1, FALSE)
      /\ \A r \in Rings \ {n} : rtail'[r] = rtail[r] /\ cell'[r] = cell[r]
  <2> HIDE DEF n
  <2> QED
    BY <1>4, <1>8
<1>10. \A i \in Cells :
         cell'[n][i] = IF i = 0 THEN Cell(TRUE, 0, item[t]) ELSE Cell(TRUE, i, Null)
  BY <1>4, <1>5, <1>7 DEF New
<1>11. crq[t] <= Cardinality(Sent)'
  BY <1>2, <1>3
<1> QED
  BY <1>1, <1>4, <1>5, <1>7, <1>8, <1>9, <1>10, <1>11

\* Where thread t goes in the list.
LEMMA ListThread ==
  ASSUME TypeOK, List, NEW t \in Threads, Locals(t), Step(t)
  PROVE  /\ crq'[t] \in {crq[t], 0, qhead, qtail}
         /\ pc'[t] \in {"lHelp", "lSwing", "lDSwing"} =>
              crq'[t] = crq[t] /\ crq[t] # 0 /\ (next[crq[t]] # 0 \/ LinkNew(t))
<1>1. /\ DOMAIN pc = Threads /\ DOMAIN crq = Threads
      /\ crq[t] = 0 => pc[t] \in {"idle", "lTail", "lHead"}
  BY DEF TypeOK
<1>2. pc[t] \in {"lHelp", "lSwing", "lDSwing"} => next[crq[t]] # 0
  BY DEF List
<1> USE DEF Goto, queue, rings, locals, history, calls
<1>3. CASE Call(t)
  BY <1>1, <1>2, <1>3 DEF Call, CallDequeue, CallEnqueue
<1>4. CASE LTail(t) \/ LNext(t) \/ LHelp(t)
  BY <1>1, <1>2, <1>4 DEF LTail, LNext, LHelp, Again
<1>5. CASE LLink(t)
  <2>1. CASE LinkNew(t)
    BY <1>1, <2>1 DEF LinkNew
  <2>2. CASE Again(t, "lLink", "lTail")
    BY <1>1, <2>2 DEF Again
  <2> QED
    BY <1>5, <2>1, <2>2, LinkStep
<1>6. CASE LSwing(t) \/ ECas(t)
  BY <1>1, <1>2, <1>6 DEF LSwing, ECas, EnqueueReturns, Return
<1>7. CASE ETicket(t) \/ EVal(t) \/ EIdx(t) \/ EHead(t) \/ EOver(t) \/ EClose(t)
  BY <1>1, <1>2, <1>7 DEF ETicket, EVal, EIdx, EHead, EOver, EClose
<1>8. CASE LHead(t) \/ LDReturnEmpty(t) \/ LDNext(t) \/ LDSwing(t)
  BY <1>1, <1>2, <1>8 DEF LHead, LDReturnEmpty, LDNext, LDSwing, Return, Again
<1>9. CASE DTicket(t) \/ DVal(t) \/ DIdx(t) \/ DTail(t)
  BY <1>1, <1>2, <1>9 DEF DTicket, DVal, DIdx, DTail
<1>10. CASE DTake(t) \/ DUnsafe(t) \/ DSkip(t)
  BY <1>1, <1>2, <1>10 DEF DTake, DUnsafe, DSkip, Return, Reread
<1>11. CASE FHead(t) \/ FTail(t) \/ FTail2(t) \/ FCas(t)
  BY <1>1, <1>2, <1>11 DEF FHead, FTail, FTail2, FCas
<1> QED
  BY <1>3, <1>4, <1>5, <1>6, <1>7, <1>8, <1>9, <1>10, <1>11
  DEF Step, Enqueue, Dequeue

LEMMA ListStep ==
  ASSUME TypeOK, \A u \in Threads : Locals(u), Owned, List, NEW t \in Threads, Step(t)
  PROVE  List'
<1>1. \A u \in Threads \ {t} : Same(u)
  BY OthersSame
<1>2. /\ Cardinality(Sent) <= Cardinality(Sent)'
      /\ Cardinality(Sent) \in Nat /\ Cardinality(Sent)' \in Nat
  BY SentStep
<1>3. Rings \subseteq Nat \ {0} /\ qhead \in Rings /\ qtail \in Rings
  BY RingsAre DEF TypeOK
<1>4. \A u \in Threads : crq[u] # 0 => crq[u] \in Rings /\ Linked(crq[u])
  BY DEF TypeOK, List, RingOrNull
<1>5. CASE RingKept(t)
  <2>1. \A r \in Nat : Linked(r)' <=> Linked(r)
    BY <1>5 DEF RingKept, Linked
  <2>2. ASSUME NEW r \in Rings
        PROVE  /\ next'[r] \in {0, r + 1}
               /\ next'[r] # 0 => Linked(r)' /\ r <= Cardinality(Sent)'
    <3>1. next[r] \in {0, r + 1} /\ (next[r] # 0 => Linked(r) /\ r <= Cardinality(Sent))
      BY DEF List
    <3> QED
      BY <1>2, <1>3, <1>5, <2>1, <3>1 DEF RingKept
  <2>3. ASSUME NEW r \in Rings, ~Linked(r)' PROVE New(r)'
    <3>1. ~Linked(r) /\ r # crq[t]
      BY <1>3, <1>4, <2>1, <2>3
    <3>2. New(r)
      BY <3>1 DEF List
    <3>3. /\ rhead'[r] = rhead[r] /\ rtail'[r] = rtail[r] /\ cell'[r] = cell[r] /\ next'[r] = next[r]
      BY <1>5, <3>1 DEF RingKept
    <3> QED
      BY <3>2, <3>3 DEF New
  <2>4. Linked(qhead)' /\ Linked(qtail)'
    <3>1. next[crq[t]] # 0 /\ crq[t] \in Rings => Linked(next[crq[t]]) /\ next[crq[t]] \in Nat
      <4> SUFFICES ASSUME next[crq[t]] # 0, crq[t] \in Rings
                   PROVE  Linked(next[crq[t]]) /\ next[crq[t]] \in Nat
        OBVIOUS
      <4>1. \A r \in Rings : next[r] \in {0, r + 1}
        BY DEF List
      <4>2. next[crq[t]] = crq[t] + 1 /\ crq[t] \in Nat
        BY <1>3, <4>1
      <4>3. (crq[t] + 1) - 1 = crq[t]
        BY <4>2
      <4> QED
        BY <4>2, <4>3 DEF Linked
    <3>2. pc[t] \in {"lDSwing", "lHelp", "lSwing"} => next[crq[t]] # 0 /\ crq[t] \in Rings
      BY DEF List, TypeOK, RingOrNull
    <3>3. Linked(qhead) /\ Linked(qtail)
      BY DEF List
    <3>4. Linked(qhead)'
      <4>1. qhead' \in Nat /\ Linked(qhead')
        BY <1>3, <1>5, <3>1, <3>2, <3>3 DEF RingKept
      <4> QED
        BY <1>5, <4>1 DEF RingKept, Linked
    <3>5. Linked(qtail)'
      <4>1. qtail' \in Nat /\ Linked(qtail')
        BY <1>3, <1>5, <3>1, <3>2, <3>3 DEF RingKept
      <4> QED
        BY <1>5, <4>1 DEF RingKept, Linked
    <3> QED
      BY <3>4, <3>5
  <2>5. ASSUME NEW u \in Threads
        PROVE  /\ crq'[u] # 0 => Linked(crq[u])'
               /\ pc'[u] \in {"lHelp", "lSwing", "lDSwing"} => next'[crq'[u]] # 0
    <3>1. next' = next /\ ~LinkNew(t)
      <4>1. LinkNew(t) => next'[crq[t]] = crq[t] + 1 /\ crq[t] \in Nat /\ next[crq[t]] = 0
        BY LinkedRing, <1>3 DEF LinkNew
      <4> QED
        BY <1>5, <4>1 DEF RingKept
    <3>2. CASE u # t
      <4>1. crq'[u] = crq[u] /\ pc'[u] = pc[u]
        BY <1>1, <3>2 DEF Same
      <4> QED
        BY <1>4, <3>1, <4>1 DEF List, Linked
    <3>3. CASE u = t
      <4>1. Linked(qhead) /\ Linked(qtail)
        BY DEF List
      <4>2. crq'[t] # 0 => Linked(crq[t])'
        BY <1>4, <3>1, <4>1, ListThread DEF Linked
      <4>3. pc'[t] \in {"lHelp", "lSwing", "lDSwing"} => next'[crq'[t]] # 0
        BY <3>1, ListThread
      <4> QED
        BY <3>3, <4>2, <4>3
    <3> QED
      BY <3>2, <3>3
  <2> QED
    BY <2>2, <2>3, <2>4, <2>5 DEF List
<1>6. CASE LinkNew(t)
  <2> DEFINE n == crq[t] + 1
  <2>1. /\ crq[t] \in Rings /\ n \in Rings /\ Linked(crq[t]) /\ New(n) /\ ~Linked(n)
        /\ crq[t] <= Cardinality(Sent)'
        /\ \A r \in Rings : next'[r] = IF r = crq[t] THEN n ELSE next[r]
        /\ \A r \in Rings \ {n} : rtail'[r] = rtail[r] /\ cell'[r] = cell[r]
    BY <1>6, LinkedRing
  <2>2. /\ rhead' = rhead /\ qhead' = qhead /\ qtail' = qtail /\ crq' = crq
        /\ pc[t] = "lLink" /\ pc'[t] = "lSwing" /\ next[crq[t]] = 0
    BY <1>6 DEF LinkNew, locals
  <2> HIDE DEF n
  <2>3. n = crq[t] + 1
    BY DEF n
  <2>4. \A r \in Rings : Linked(r)' <=> Linked(r) \/ r = n
    <3> TAKE r \in Rings
    <3>1. CASE r = 1
      BY <3>1 DEF Linked
    <3>2. CASE r # 1
      <4>1. r - 1 \in Rings
        BY <3>2, RingsAre DEF Rings
      <4>2. next'[r - 1] = IF r - 1 = crq[t] THEN n ELSE next[r - 1]
        BY <2>1, <4>1
      <4>3. r \in Nat /\ crq[t] \in Nat
        BY <1>3, <2>1
      <4>4. r - 1 = crq[t] <=> r = n
        BY <2>3, <4>3
      <4>5. r - 1 # crq[t] => (Linked(r)' <=> Linked(r))
        BY <3>2, <4>2 DEF Linked
      <4>6. r = n => Linked(r)'
        BY <4>2, <4>4 DEF Linked
      <4> QED
        BY <4>4, <4>5, <4>6, <2>1
    <3> QED
      BY <3>1, <3>2
  <2>5. ASSUME NEW r \in Rings
        PROVE  /\ next'[r] \in {0, r + 1}
               /\ next'[r] # 0 => Linked(r)' /\ r <= Cardinality(Sent)'
               /\ ~Linked(r)' => New(r)'
    <3>1. /\ next[r] \in {0, r + 1}
          /\ next[r] # 0 => Linked(r) /\ r <= Cardinality(Sent)
          /\ ~Linked(r) => New(r)
      BY DEF List
    <3>2. n # crq[t]
      BY <1>3, <2>1, <2>3
    <3>3. CASE r = n
      <4>1. next'[r] = 0 /\ Linked(r)'
        BY <2>1, <2>4, <3>2, <3>3 DEF New
      <4> QED
        BY <4>1
    <3>4. CASE r = crq[t]
      BY <2>1, <2>3, <2>4, <3>4
    <3>5. CASE r # n /\ r # crq[t]
      <4>1. /\ next'[r] = next[r] /\ rtail'[r] = rtail[r] /\ cell'[r] = cell[r]
            /\ rhead'[r] = rhead[r] /\ (Linked(r)' <=> Linked(r))
        BY <2>1, <2>2, <2>4, <3>5
      <4>2. New(r) => New(r)'
        BY <4>1 DEF New
      <4> QED
        BY <1>2, <1>3, <3>1, <4>1, <4>2
    <3> QED
      BY <3>3, <3>4, <3>5
  <2>6. \A r \in Rings : Linked(r) => Linked(r)'
    BY <2>4
  <2>7. Linked(qhead)' /\ Linked(qtail)'
    <3>1. Linked(qhead) /\ Linked(qtail) /\ qhead' = qhead /\ qtail' = qtail
      BY <2>2 DEF List
    <3> QED
      BY <1>3, <2>6, <3>1 DEF Linked
  <2>8. ASSUME NEW u \in Threads
        PROVE  /\ crq'[u] # 0 => Linked(crq[u])'
               /\ pc'[u] \in {"lHelp", "lSwing", "lDSwing"} => next'[crq'[u]] # 0
    <3>1. /\ pc[u] \in {"lHelp", "lSwing", "lDSwing"} => next[crq[u]] # 0 /\ crq[u] \in Rings
          /\ crq'[u] = crq[u] /\ (u # t => pc'[u] = pc[u])
      <4>1. pc[u] \in {"lHelp", "lSwing", "lDSwing"} => next[crq[u]] # 0 /\ crq[u] \in Rings
        BY DEF List, TypeOK, RingOrNull
      <4>2. crq'[u] = crq[u] /\ (u # t => pc'[u] = pc[u])
        BY <1>1, <2>2 DEF Same
      <4> QED
        BY <4>1, <4>2
    <3>2. crq[u] # 0 => Linked(crq[u])'
      BY <1>4, <2>6, <3>1 DEF Linked
    <3>3. n # 0 /\ next'[crq[t]] = n
      BY <1>3, <2>1
    <3> QED
      BY <2>1, <3>1, <3>2, <3>3
  <2> QED
    BY <2>5, <2>7, <2>8 DEF List
<1> QED
  BY <1>5, <1>6, RingStep

LEMMA TypesLink ==
  ASSUME TypeOK, \A u \in Threads : Locals(u), Owned, List, NEW t \in Threads, LLink(t)
  PROVE  TypeOK' /\ Locals(t)'
<1>1. freed' = freed /\ Step(t)
  BY OthersSame DEF Step, Enqueue
<1>2. SharedTypes /\ CallTypes /\ RingTypes
  BY TypesSplit
<1>3. CASE Again(t, "lLink", "lTail") /\ UNCHANGED queue
  <2>1. SharedTypes'
    BY <1>1, <1>2, <1>3 DEF SharedTypes, queue, rings
  <2>2. RingTypes'
    BY <1>3, LeaveIs DEF Again
  <2>3. CallTypes'
    BY <1>2, <1>3 DEF Again, Goto, calls, history, CallTypes, EnqueuePcs, RingOrNull
  <2>4. Locals(t)'
    BY <1>2, <1>3 DEF Again, Goto, CallTypes, Locals, EnqueuePcs
  <2> QED
    BY <2>1, <2>2, <2>3, <2>4, TypesSplit
<1>4. CASE LinkNew(t)
  <2>1. /\ crq[t] \in Rings /\ crq[t] + 1 \in Rings /\ cell' \in [Rings -> [Cells -> CellType]]
    BY <1>1, <1>4, LinkedRing
  <2>2. /\ next' = [next EXCEPT ![crq[t]] = crq[t] + 1]
        /\ rtail' = [rtail EXCEPT ![crq[t] + 1] = Word(1, FALSE)]
        /\ qhead' = qhead /\ qtail' = qtail /\ rhead' = rhead
        /\ pc[t] = "lLink" /\ pc'[t] = "lSwing"
        /\ UNCHANGED <<locals, calls>>
    BY <1>4 DEF LinkNew
  <2>3. rtail' \in [Rings -> [t : Nat, closed : BOOLEAN]]
    BY <1>2, <2>1, <2>2, Values DEF SharedTypes
  <2>4. next' \in [Rings -> RingOrNull]
    BY <1>2, <2>1, <2>2 DEF SharedTypes, RingOrNull
  <2>5. SharedTypes'
    BY <1>1, <1>2, <2>1, <2>2, <2>3, <2>4 DEF SharedTypes
  <2>6. RingTypes'
    BY <1>2, <2>2 DEF locals, RingTypes
  <2>7. pc' = [pc EXCEPT ![t] = "lSwing"]
    <3>1. pc' \in {[pc EXCEPT ![t] = "lSwing"], [pc EXCEPT ![t] = "lTail"]} /\ DOMAIN pc = Threads
      BY <1>2 DEF LLink, Goto, Again, CallTypes
    <3> QED
      BY <2>2, <3>1
  <2>8. CallTypes'
    BY <1>2, <2>2, <2>7 DEF locals, calls, history, CallTypes, EnqueuePcs
  <2>9. Locals(t)'
    BY <2>2 DEF locals, Locals, EnqueuePcs
  <2> QED
    BY <2>5, <2>6, <2>8, <2>9, TypesSplit
<1> QED
  BY <1>3, <1>4, LinkStep

LEMMA BasicsStep ==
  ASSUME Basics, NEW t \in Threads, Step(t)
  PROVE  Basics'
<1>1. TypeOK /\ Locals(t) /\ (\A u \in Threads : Locals(u)) /\ Owned /\ List
  BY DEF Basics
<1>2. TypeOK' /\ Locals(t)'
  <2>1. CASE Call(t)
    BY <1>1, <2>1, TypesCall
  <2>2. CASE LTail(t) \/ LNext(t) \/ LHelp(t) \/ LSwing(t) \/ LHead(t) \/ LDReturnEmpty(t)
             \/ LDNext(t) \/ LDSwing(t)
    BY <1>1, <2>2, TypesList
  <2>3. CASE LLink(t)
    BY <1>1, <2>3, TypesLink
  <2>4. CASE ETicket(t) \/ EVal(t) \/ EIdx(t) \/ EHead(t) \/ ECas(t) \/ EOver(t) \/ EClose(t)
    BY <1>1, <2>4, TypesPut
  <2>5. CASE DTicket(t) \/ DVal(t) \/ DIdx(t) \/ DTake(t) \/ DUnsafe(t) \/ DSkip(t) \/ DTail(t)
             \/ FHead(t) \/ FTail(t) \/ FTail2(t) \/ FCas(t)
    BY <1>1, <2>5, TypesTake, LocalsTake
  <2> QED
    BY <2>1, <2>2, <2>3, <2>4, <2>5 DEF Step, Enqueue, Dequeue
<1>3. \A u \in Threads : Locals(u)'
  BY <1>1, <1>2, LocalsKept
<1> QED
  BY <1>1, <1>2, <1>3, OwnedStep, ListStep DEF Basics

\* Steps that only the destructor takes, or nobody.
LEMMA QuietStep ==
  ASSUME TypeOK, Destroy \/ Finished \/ UNCHANGED vars
  PROVE  UNCHANGED <<queue, pc, locals, calls>> /\ freed' \subseteq Rings
BY DEF TypeOK, Destroy, Finished, vars

LEMMA BasicsQuiet ==
  ASSUME Basics, Destroy \/ Finished \/ UNCHANGED vars
  PROVE  Basics'
<1>1. TypeOK /\ UNCHANGED <<queue, pc, locals, calls>> /\ freed' \subseteq Rings
  BY QuietStep DEF Basics
<1>2. /\ pc' = pc /\ freed' \subseteq Rings
      /\ qhead' = qhead /\ qtail' = qtail /\ next' = next /\ rhead' = rhead /\ rtail' = rtail
      /\ cell' = cell /\ item' = item /\ crq' = crq
      /\ ticket' = ticket /\ word' = word /\ tries' = tries /\ fix' = fix /\ unsent' = unsent
      /\ dequeues' = dequeues /\ entered' = entered /\ prior' = prior /\ out' = out /\ known' = known
  BY <1>1 DEF queue, rings, locals, history, calls
<1>3. TypeOK'
  BY <1>1, <1>2 DEF TypeOK
<1>4. \A t \in Threads : Locals(t)'
  BY <1>2 DEF Basics, Locals
<1>5. Owned' /\ Sent' = Sent
  BY <1>2 DEF Basics, Owned, Sent, Pending
<1>6. List'
  <2>1. List
    BY DEF Basics
  <2>2. Cardinality(Sent)' = Cardinality(Sent)
    BY <1>5
  <2> QED
    BY <1>2, <2>1, <2>2 DEF List, Linked, New
<1> QED
  BY <1>3, <1>4, <1>5, <1>6 DEF Basics

LEMMA BasicsInit == Init => Basics
<1> SUFFICES ASSUME Init PROVE Basics
  OBVIOUS
<1>1. TypeOK /\ \A t \in Threads : Locals(t)
  BY TypeInit
<1>2. Owned
  BY DEF Init, Owned, EnqueuePcs
<1>3. List
  BY <1>1, RingsAre DEF Init, List, Linked, New, NewCells, TypeOK
<1> QED
  BY <1>1, <1>2, <1>3 DEF Basics

\* Tickets, rings and locals have the types the code gives them; in particular
\* no call follows a null pointer between rings: outside the loops of
\* LCRQueue its local crq is a ring.
THEOREM TypeCorrect == Spec => []TypeOK
<1>1. Basics /\ [Next]_vars => Basics'
  BY BasicsStep, BasicsQuiet DEF Next, Step
<1>2. Basics => TypeOK
  BY DEF Basics
<1> QED
  BY <1>1, <1>2, BasicsInit, PTL DEF Spec

----------------------------------------------------------------------------
(* What a step does to the cells *)

\* Thread t goes from one access to another at the cell of its ticket.
TicketKept(t) == crq'[t] = crq[t] /\ ticket'[t] = ticket[t]
Leaves(t, from) == pc[t] = from /\ pc'[t] = "idle" /\ crq[t] \in Rings
Passes(t, from) == pc[t] = from /\ pc'[t] = "dTail" /\ crq[t] \in Rings /\ TicketKept(t)

\* The steps that change a cell, by what they do.
Puts(t) ==
  /\ Leaves(t, "eCas") /\ At(t) = word[t]
  /\ CellSet(t, Cell(TRUE, ticket[t], item[t])) /\ out' = out
Takes(t) ==
  /\ Leaves(t, "dTake") /\ At(t) = word[t]
  /\ CellSet(t, Cell(word[t].safe, ticket[t] + R, Null))
  /\ out' = [out EXCEPT ![word[t].val] = @ + 1]
Skips(t) ==
  /\ Passes(t, "dSkip") /\ At(t) = word[t]
  /\ CellSet(t, Cell(word[t].safe, ticket[t] + R, Null)) /\ out' = out
Spoils(t) ==
  /\ Passes(t, "dUnsafe") /\ At(t) = word[t]
  /\ CellSet(t, Cell(FALSE, word[t].idx, word[t].val)) /\ out' = out

\* An enqueue reads the index and the safe bit of its cell, or looks at _head.
Reads(t) ==
  /\ pc[t] = "eIdx" /\ TicketKept(t) /\ word[t].val = Null /\ At(t).idx <= ticket[t]
  /\ word'[t] = Cell(At(t).safe, At(t).idx, Null) /\ (pc'[t] = "eCas" => At(t).safe)
Looks(t) ==
  /\ pc[t] = "eHead" /\ TicketKept(t) /\ word'[t] = word[t]
  /\ rhead[crq[t]] <= ticket[t]

\* The steps that change no cell.
CellsKept(t) ==
  /\ \A r \in Rings, i \in Cells : cell'[r][i] = cell[r][i]
  /\ out' = out /\ (pc[t] = "lLink" => pc'[t] # "lSwing")
  /\ pc[t] \in CellPcs /\ pc'[t] \notin CellPcs => pc[t] = "dIdx" /\ At(t).idx > ticket[t]
  /\ pc[t] = "eCas" => pc'[t] # "idle"
  /\ pc'[t] \in {"eHead", "eCas"} => Reads(t) \/ Looks(t)

LEMMA CellStep ==
  ASSUME TypeOK, \A u \in Threads : Locals(u), Owned, List, NEW t \in Threads, Step(t)
  PROVE  CellsKept(t) \/ LinkNew(t) \/ Puts(t) \/ Takes(t) \/ Skips(t) \/ Spoils(t)
<1>1. /\ pc \in [Threads -> {"idle"} \union EnqueuePcs \union DequeuePcs]
      /\ DOMAIN crq = Threads /\ DOMAIN ticket = Threads /\ DOMAIN word = Threads
      /\ (crq[t] = 0 => pc[t] \in {"idle", "lTail", "lHead"}) /\ (crq[t] # 0 => crq[t] \in Rings)
  BY DEF TypeOK, RingOrNull
<1>2. /\ Cell(TRUE, ticket[t], item[t]) \in CellType
      /\ Cell(word[t].safe, ticket[t] + R, Null) \in CellType
      /\ Cell(FALSE, word[t].idx, word[t].val) \in CellType
  <2>1. item[t] \in Items \union {Null} /\ ticket[t] + R \in Nat /\ ticket[t] \in Nat
    BY CellIs DEF TypeOK
  <2> QED
    BY <2>1, CellIs, Values
<1>3. \A c \in CellType : crq[t] # 0 /\ Cas2(t, c) => CellSet(t, c) /\ At(t) = word[t]
  BY CasIs
<1> USE DEF Goto, queue, rings, locals, history, calls, TicketKept, Leaves, Passes, CellPcs
<1>4. CASE Call(t)
  BY <1>1, <1>4 DEF Call, CallDequeue, CallEnqueue, CellsKept
<1>5. CASE LTail(t) \/ LNext(t) \/ LHelp(t)
  BY <1>1, <1>5 DEF LTail, LNext, LHelp, Again, CellsKept
<1>6. CASE LLink(t)
  <2>1. CASE Again(t, "lLink", "lTail") /\ UNCHANGED queue
    BY <1>1, <2>1 DEF Again, CellsKept
  <2> QED
    BY <1>6, <2>1, LinkStep
<1>7. CASE LSwing(t)
  BY <1>1, <1>7 DEF LSwing, EnqueueReturns, Return, CellsKept
<1>8. CASE ETicket(t) \/ EVal(t) \/ EOver(t) \/ EClose(t)
  BY <1>1, <1>8 DEF ETicket, EVal, EOver, EClose, CellsKept
<1>9. CASE EIdx(t)
  <2>1. word'[t] = Cell(At(t).safe, At(t).idx, word[t].val)
    BY <1>1, <1>9, CellIs, WordType DEF EIdx
  <2> QED
    BY <1>1, <1>9, <2>1 DEF EIdx, CellsKept, Reads
<1>10. CASE EHead(t)
  BY <1>1, <1>10 DEF EHead, CellsKept, Looks
<1>11. CASE ECas(t)
  BY <1>1, <1>2, <1>3, <1>11 DEF ECas, EnqueueReturns, Return, CellsKept, Puts
<1>12. CASE LHead(t) \/ LDReturnEmpty(t) \/ LDNext(t) \/ LDSwing(t)
  BY <1>1, <1>12 DEF LHead, LDReturnEmpty, LDNext, LDSwing, Again, Return, CellsKept
<1>13. CASE DTicket(t) \/ DVal(t) \/ DTail(t)
  BY <1>1, <1>13 DEF DTicket, DVal, DTail, CellsKept
<1>14. CASE DIdx(t)
  BY <1>1, <1>14 DEF DIdx, CellsKept
<1>15. CASE DTake(t)
  BY <1>1, <1>2, <1>3, <1>15 DEF DTake, Return, Reread, CellsKept, Takes
<1>16. CASE DUnsafe(t)
  BY <1>1, <1>2, <1>3, <1>16 DEF DUnsafe, Reread, CellsKept, Spoils
<1>17. CASE DSkip(t)
  BY <1>1, <1>2, <1>3, <1>17 DEF DSkip, Reread, CellsKept, Skips
<1>18. CASE FHead(t) \/ FTail(t) \/ FTail2(t) \/ FCas(t)
  BY <1>1, <1>18 DEF FHead, FTail, FTail2, FCas, CellsKept
<1> QED
  BY <1>4, <1>5, <1>6, <1>7, <1>8, <1>9, <1>10, <1>11, <1>12, <1>13, <1>14, <1>15, <1>16, <1>17,
     <1>18 DEF Step, Enqueue, Dequeue

\* The ticket of a call is the one it had, or the next one of its ring.
TicketPut(t) ==
  /\ pc[t] = "eTicket" /\ crq[t] \in Rings /\ crq'[t] = crq[t] /\ pc'[t] = "eVal"
  /\ ticket'[t] = rtail[crq[t]].t /\ rtail'[crq[t]].t = rtail[crq[t]].t + 1
TicketTake(t) ==
  /\ pc[t] = "dTicket" /\ crq[t] \in Rings /\ crq'[t] = crq[t] /\ pc'[t] = "dVal"
  /\ ticket'[t] = rhead[crq[t]] /\ rhead'[crq[t]] = rhead[crq[t]] + 1
  /\ \A r \in Rings \ {crq[t]} : rhead'[r] = rhead[r]

LEMMA TicketStep ==
  ASSUME TypeOK, NEW t \in Threads, Step(t)
  PROVE  /\ pc'[t] \in PutPcs => TicketPut(t) \/ (pc[t] \in PutPcs /\ TicketKept(t))
         /\ pc'[t] \in TakePcs => TicketTake(t) \/ (pc[t] \in TakePcs /\ TicketKept(t))
         /\ pc'[t] \in CellPcs => TicketTake(t) \/ (pc[t] \in CellPcs /\ TicketKept(t))
         /\ rhead' = rhead \/ TicketTake(t)
<1>1. /\ pc \in [Threads -> {"idle"} \union EnqueuePcs \union DequeuePcs]
      /\ DOMAIN crq = Threads /\ DOMAIN ticket = Threads
      /\ DOMAIN rhead = Rings /\ rtail \in [Rings -> [t : Nat, closed : BOOLEAN]]
      /\ (crq[t] = 0 => pc[t] \in {"idle", "lTail", "lHead"}) /\ (crq[t] # 0 => crq[t] \in Rings)
  BY DEF TypeOK, RingOrNull
<1> USE DEF Goto, queue, rings, locals, history, calls, PutPcs, TakePcs, CellPcs, TicketKept
<1>2. CASE Call(t)
  BY <1>1, <1>2 DEF Call, CallDequeue, CallEnqueue
<1>3. CASE LTail(t) \/ LNext(t) \/ LHelp(t) \/ LSwing(t)
  BY <1>1, <1>3 DEF LTail, LNext, LHelp, LSwing, Again, EnqueueReturns, Return
<1>4. CASE LLink(t)
  BY <1>1, <1>4, LinkStep DEF LinkNew, Again
<1>5. CASE ETicket(t)
  <2>1. CASE pc'[t] = "eVal"
    <3>1. /\ pc[t] = "eTicket" /\ ticket'[t] = rtail[crq[t]].t /\ crq' = crq /\ rhead' = rhead
          /\ rtail' = [rtail EXCEPT ![crq[t]].t = @ + 1]
      BY <1>1, <1>5, <2>1 DEF ETicket
    <3>2. rtail'[crq[t]].t = rtail[crq[t]].t + 1
      BY <1>1, <3>1
    <3> QED
      BY <1>1, <2>1, <3>1, <3>2 DEF TicketPut
  <2>2. CASE pc'[t] = "lLink"
    BY <1>1, <1>5, <2>2 DEF ETicket
  <2> QED
    BY <1>1, <1>5, <2>1, <2>2 DEF ETicket
<1>6. CASE EVal(t) \/ EIdx(t) \/ EHead(t) \/ EOver(t) \/ EClose(t)
  BY <1>1, <1>6 DEF EVal, EIdx, EHead, EOver, EClose
<1>7. CASE ECas(t)
  BY <1>1, <1>7 DEF ECas, EnqueueReturns, Return
<1>8. CASE LHead(t) \/ LDReturnEmpty(t) \/ LDNext(t) \/ LDSwing(t)
  BY <1>1, <1>8 DEF LHead, LDReturnEmpty, LDNext, LDSwing, Return, Again
<1>9. CASE DTicket(t)
  BY <1>1, <1>9 DEF DTicket, TicketTake
<1>10. CASE DVal(t) \/ DIdx(t) \/ DTail(t)
  BY <1>1, <1>10 DEF DVal, DIdx, DTail
<1>11. CASE DTake(t) \/ DUnsafe(t) \/ DSkip(t)
  BY <1>1, <1>11 DEF DTake, DUnsafe, DSkip, Reread, Return
<1>12. CASE FHead(t) \/ FTail(t) \/ FTail2(t) \/ FCas(t)
  BY <1>1, <1>12 DEF FHead, FTail, FTail2, FCas
<1> QED
  BY <1>2, <1>3, <1>4, <1>5, <1>6, <1>7, <1>8, <1>9, <1>10, <1>11, <1>12
  DEF Step, Enqueue, Dequeue

----------------------------------------------------------------------------
(* No item is left behind *)

\* What becomes of a cell: it keeps its words, its index grows, or an item is in it.
Grows(a, b) == a.idx < b.idx \/ (a.idx = b.idx /\ b.val # Null)

LEMMA GrowStep ==
  ASSUME Basics, NEW t \in Threads, Step(t), NEW r \in Rings, NEW i \in Cells
  PROVE  cell'[r][i] = cell[r][i] \/ Grows(cell[r][i], cell'[r][i])
<1>1. TypeOK /\ Locals(t) /\ (\A u \in Threads : Locals(u)) /\ Owned /\ List
  BY DEF Basics
<1>2. /\ ticket[t] \in Nat /\ R \in Nat \ {0} /\ ticket[t] + R \in Nat
      /\ word[t].idx \in Nat /\ word[t].safe \in BOOLEAN /\ word[t].val \in Items \union {Null}
      /\ item[t] \in Items \union {Null}
      /\ crq[t] \in Rings => At(t) = cell[crq[t]][Slot(ticket[t])]
  <2>1. crq[t] \in Rings => crq[t] # 0
    BY RingsAre
  <2> QED
    BY <1>1, <2>1, CellIs DEF TypeOK
<1>3. CASE CellsKept(t)
  BY <1>3 DEF CellsKept
<1>4. CASE LinkNew(t)
  <2>1. /\ New(crq[t] + 1) /\ item[t] \in Items
        /\ \A s \in Rings \ {crq[t] + 1} : cell'[s] = cell[s]
        /\ \A j \in Cells :
             cell'[crq[t] + 1][j] = IF j = 0 THEN Cell(TRUE, 0, item[t]) ELSE Cell(TRUE, j, Null)
    BY <1>1, <1>4, LinkedRing
  <2>2. CASE r = crq[t] + 1 /\ i = 0
    <3>1. cell[r][i] = Cell(TRUE, 0, Null) /\ cell'[r][i] = Cell(TRUE, 0, item[t])
      BY <2>1, <2>2 DEF New
    <3>2. cell[r][i].idx = 0 /\ cell'[r][i].idx = 0 /\ cell'[r][i].val = item[t]
      BY <3>1 DEF Cell
    <3> QED
      BY <2>1, <3>2 DEF Grows
  <2>3. CASE ~(r = crq[t] + 1 /\ i = 0)
    BY <2>1, <2>3 DEF New
  <2> QED
    BY <2>2, <2>3
<1>5. CASE Puts(t)
  <2>1. /\ crq[t] \in Rings /\ pc[t] = "eCas" /\ At(t) = word[t]
        /\ CellSet(t, Cell(TRUE, ticket[t], item[t]))
    BY <1>5 DEF Puts, Leaves
  <2>2. item[t] # Null /\ word[t].idx <= ticket[t]
    BY <1>1, <2>1 DEF Locals, EnqueuePcs
  <2>3. Grows(word[t], Cell(TRUE, ticket[t], item[t]))
    <3>1. Cell(TRUE, ticket[t], item[t]).idx = ticket[t] /\ Cell(TRUE, ticket[t], item[t]).val = item[t]
      BY DEF Cell
    <3> QED
      <4>1. word[t].idx < ticket[t] \/ word[t].idx = ticket[t]
        BY <1>2, <2>2
      <4> QED
        BY <2>2, <3>1, <4>1, Zenon DEF Grows
  <2> QED
    BY <1>2, <2>1, <2>3 DEF CellSet
<1>6. CASE Takes(t) \/ Skips(t)
  <2>1. /\ crq[t] \in Rings /\ pc[t] \in {"dTake", "dSkip"} /\ At(t) = word[t]
        /\ CellSet(t, Cell(word[t].safe, ticket[t] + R, Null))
    BY <1>6 DEF Takes, Skips, Leaves, Passes
  <2>2. word[t].idx <= ticket[t]
    BY <1>1, <1>2, <2>1 DEF Locals
  <2>3. Grows(word[t], Cell(word[t].safe, ticket[t] + R, Null))
    <3>1. Cell(word[t].safe, ticket[t] + R, Null).idx = ticket[t] + R
      BY <1>2, Values
    <3>2. word[t].idx < ticket[t] + R
      BY <1>2, <2>2
    <3> QED
      BY <3>1, <3>2 DEF Grows
  <2> QED
    BY <1>2, <2>1, <2>3 DEF CellSet
<1>7. CASE Spoils(t)
  <2>1. /\ crq[t] \in Rings /\ pc[t] = "dUnsafe" /\ At(t) = word[t]
        /\ CellSet(t, Cell(FALSE, word[t].idx, word[t].val))
    BY <1>7 DEF Spoils, Passes
  <2>2. Grows(word[t], Cell(FALSE, word[t].idx, word[t].val))
    <3>1. Cell(FALSE, word[t].idx, word[t].val).idx = word[t].idx
          /\ Cell(FALSE, word[t].idx, word[t].val).val = word[t].val
      BY DEF Cell
    <3> QED
      BY <1>1, <1>2, <2>1, <3>1 DEF Locals, Grows
  <2> QED
    BY <1>2, <2>1, <2>2 DEF CellSet
<1> QED
  BY <1>1, <1>3, <1>4, <1>5, <1>6, <1>7, CellStep

\* The dequeue with ticket k of ring r leaves its cell in this step.
GoneNow(t, r, k) ==
  /\ pc[t] \in CellPcs /\ crq[t] = r /\ ticket[t] = k
  /\ Takes(t) \/ Skips(t) \/ Spoils(t) \/ (CellsKept(t) /\ At(t).idx > k)

LEMMA HeldStep ==
  ASSUME Basics, NEW t \in Threads, Step(t), NEW r \in Rings, NEW k \in Nat, Held(r, k)
  PROVE  Held(r, k)' \/ GoneNow(t, r, k)
<1>1. TypeOK /\ \A u \in Threads \ {t} : Same(u)
  BY OthersSame DEF Basics
<1>2. PICK u \in Threads : crq[u] = r /\ ticket[u] = k /\ pc[u] \in CellPcs
  BY DEF Held
<1>3. CASE u # t
  BY <1>1, <1>2, <1>3 DEF Held, Same
<1>4. CASE u = t /\ pc'[t] \in CellPcs
  <2>1. TicketKept(t)
    BY <1>1, <1>2, <1>4, TicketStep DEF TicketTake, CellPcs
  <2> QED
    BY <1>2, <1>4, <2>1 DEF Held, TicketKept
<1>5. CASE u = t /\ pc'[t] \notin CellPcs
  <2>1. CASE CellsKept(t)
    BY <1>2, <1>5, <2>1 DEF CellsKept, GoneNow
  <2>2. CASE Takes(t) \/ Skips(t) \/ Spoils(t)
    BY <1>2, <1>5, <2>2 DEF GoneNow
  <2>3. CASE LinkNew(t) \/ Puts(t)
    BY <1>2, <1>5, <2>3 DEF LinkNew, Puts, Leaves, CellPcs
  <2> QED
    BY <2>1, <2>2, <2>3, CellStep DEF Basics
<1> QED
  BY <1>2, <1>3, <1>4, <1>5

\* Tickets of dequeues run on, and their dequeue is at its cell.
LEMMA HeadStep ==
  ASSUME Basics, NEW t \in Threads, Step(t), NEW r \in Rings
  PROVE  /\ rhead[r] \in Nat /\ rhead'[r] \in Nat
         /\ \/ rhead'[r] = rhead[r]
            \/ /\ rhead'[r] = rhead[r] + 1 /\ TicketTake(t)
               /\ \A k \in Nat : k = rhead[r] => Held(r, k)'
<1>1. TypeOK /\ rhead[r] \in Nat
  BY DEF Basics, TypeOK
<1>2. CASE rhead' = rhead
  BY <1>1, <1>2
<1>3. CASE TicketTake(t) /\ r = crq[t]
  BY <1>1, <1>3 DEF TicketTake, Held, CellPcs
<1>4. CASE TicketTake(t) /\ r # crq[t]
  BY <1>1, <1>4 DEF TicketTake
<1> QED
  BY <1>1, <1>2, <1>3, <1>4, TicketStep

\* The cell of thread t before and after its step.
LEMMA OwnCell ==
  ASSUME Basics, NEW t \in Threads, crq[t] \in Rings
  PROVE  /\ Slot(ticket[t]) \in Cells /\ ticket[t] \in Nat /\ R \in Nat \ {0} /\ ticket[t] + R \in Nat
         /\ At(t) = cell[crq[t]][Slot(ticket[t])] /\ At(t) \in CellType
         /\ word[t].idx \in Nat /\ word[t].safe \in BOOLEAN /\ word[t].val \in Items \union {Null}
         /\ item[t] \in Items \union {Null} /\ Locals(t)
         /\ Takes(t) \/ Skips(t) =>
              /\ word[t].idx <= ticket[t] /\ At(t) = word[t]
              /\ cell'[crq[t]][Slot(ticket[t])] = Cell(word[t].safe, ticket[t] + R, Null)
              /\ cell'[crq[t]][Slot(ticket[t])].idx = ticket[t] + R
              /\ cell'[crq[t]][Slot(ticket[t])].val = Null
         /\ Spoils(t) =>
              /\ word[t].idx < ticket[t] /\ At(t) = word[t] /\ word[t].val # Null
              /\ cell'[crq[t]][Slot(ticket[t])] = Cell(FALSE, word[t].idx, word[t].val)
              /\ ~cell'[crq[t]][Slot(ticket[t])].safe
              /\ cell'[crq[t]][Slot(ticket[t])].idx = word[t].idx
         /\ Puts(t) =>
              /\ word[t].idx <= ticket[t] /\ At(t) = word[t] /\ word[t].val = Null /\ item[t] # Null
              /\ cell'[crq[t]][Slot(ticket[t])] = Cell(TRUE, ticket[t], item[t])
              /\ cell'[crq[t]][Slot(ticket[t])].idx = ticket[t]
              /\ cell'[crq[t]][Slot(ticket[t])].safe
<1>1. TypeOK /\ Locals(t)
  BY DEF Basics
<1>2. /\ Slot(ticket[t]) \in Cells /\ ticket[t] \in Nat /\ R \in Nat \ {0} /\ ticket[t] + R \in Nat
      /\ At(t) = cell[crq[t]][Slot(ticket[t])] /\ At(t) \in CellType
      /\ word[t].idx \in Nat /\ word[t].safe \in BOOLEAN /\ word[t].val \in Items \union {Null}
      /\ item[t] \in Items \union {Null}
  <2>1. crq[t] # 0
    BY RingsAre
  <2> QED
    BY <1>1, <2>1, CellIs DEF TypeOK
<1>3. ASSUME Takes(t) \/ Skips(t)
      PROVE  /\ word[t].idx <= ticket[t] /\ At(t) = word[t]
             /\ cell'[crq[t]][Slot(ticket[t])] = Cell(word[t].safe, ticket[t] + R, Null)
  <2>1. /\ pc[t] \in {"dTake", "dSkip"} /\ At(t) = word[t]
        /\ CellSet(t, Cell(word[t].safe, ticket[t] + R, Null))
    BY <1>3 DEF Takes, Skips, Leaves, Passes
  <2>2. word[t].idx <= ticket[t]
    BY <1>1, <1>2, <2>1 DEF Locals
  <2> QED
    BY <1>2, <2>1, <2>2 DEF CellSet
<1>4. ASSUME Spoils(t)
      PROVE  /\ word[t].idx < ticket[t] /\ At(t) = word[t] /\ word[t].val # Null
             /\ cell'[crq[t]][Slot(ticket[t])] = Cell(FALSE, word[t].idx, word[t].val)
  <2>1. pc[t] = "dUnsafe" /\ At(t) = word[t] /\ CellSet(t, Cell(FALSE, word[t].idx, word[t].val))
    BY <1>4 DEF Spoils, Passes
  <2> QED
    BY <1>1, <1>2, <2>1 DEF CellSet, Locals
<1>5. ASSUME Puts(t)
      PROVE  /\ word[t].idx <= ticket[t] /\ At(t) = word[t] /\ word[t].val = Null /\ item[t] # Null
             /\ cell'[crq[t]][Slot(ticket[t])] = Cell(TRUE, ticket[t], item[t])
  <2>1. pc[t] = "eCas" /\ At(t) = word[t] /\ CellSet(t, Cell(TRUE, ticket[t], item[t]))
    BY <1>5 DEF Puts, Leaves
  <2> QED
    BY <1>1, <1>2, <2>1 DEF CellSet, Locals, EnqueuePcs
<1>6. /\ Cell(word[t].safe, ticket[t] + R, Null).idx = ticket[t] + R
      /\ Cell(word[t].safe, ticket[t] + R, Null).val = Null
      /\ Cell(FALSE, word[t].idx, word[t].val).safe = FALSE
      /\ Cell(FALSE, word[t].idx, word[t].val).idx = word[t].idx
      /\ Cell(TRUE, ticket[t], item[t]).idx = ticket[t] /\ Cell(TRUE, ticket[t], item[t]).safe = TRUE
  BY DEF Cell
<1> QED
  BY <1>1, <1>2, <1>3, <1>4, <1>5, <1>6

\* The fields of a cell.
LEMMA CellFields ==
  ASSUME TypeOK, NEW r \in Rings, NEW i \in Cells
  PROVE  /\ cell[r][i] \in CellType /\ cell[r][i].idx \in Nat
         /\ cell[r][i].safe \in BOOLEAN /\ cell[r][i].val \in Items \union {Null}
<1>1. cell[r][i] \in CellType
  BY DEF TypeOK
<1> QED
  BY <1>1 DEF CellType

\* A cell that did not have this item before its step got it from an enqueue
\* with the index as its ticket, or with its ring.
LEMMA ItemComes ==
  ASSUME Basics, NEW t \in Threads, Step(t), NEW r \in Rings, NEW i \in Cells,
         cell'[r][i].val # Null
  PROVE  \/ cell[r][i].val = cell'[r][i].val /\ cell[r][i].idx = cell'[r][i].idx
         \/ Puts(t) /\ r = crq[t] /\ i = Slot(ticket[t]) /\ cell'[r][i].idx = ticket[t]
         \/ LinkNew(t) /\ r = crq[t] + 1 /\ i = 0 /\ cell'[r][i].idx = 0 /\ New(r)
<1>1. TypeOK /\ (\A u \in Threads : Locals(u)) /\ Owned /\ List
  BY DEF Basics
<1>2. CASE CellsKept(t)
  BY <1>2 DEF CellsKept
<1>3. CASE LinkNew(t)
  <2>1. /\ New(crq[t] + 1) /\ crq[t] + 1 \in Rings
        /\ \A s \in Rings \ {crq[t] + 1} : cell'[s] = cell[s]
        /\ \A j \in Cells :
             cell'[crq[t] + 1][j] = IF j = 0 THEN Cell(TRUE, 0, item[t]) ELSE Cell(TRUE, j, Null)
    BY <1>1, <1>3, LinkedRing
  <2>2. CASE r = crq[t] + 1 /\ i = 0
    <3>1. cell'[r][i] = Cell(TRUE, 0, item[t])
      BY <2>1, <2>2
    <3>2. cell'[r][i].idx = 0
      BY <3>1 DEF Cell
    <3> QED
      BY <1>3, <2>1, <2>2, <3>2
  <2>3. CASE ~(r = crq[t] + 1 /\ i = 0)
    BY <2>1, <2>3 DEF New
  <2> QED
    BY <2>2, <2>3
<1>4. ASSUME Puts(t) \/ Takes(t) \/ Skips(t) \/ Spoils(t)
      PROVE  crq[t] \in Rings /\ (r # crq[t] \/ i # Slot(ticket[t]) => cell'[r][i] = cell[r][i])
  BY <1>4 DEF Puts, Takes, Skips, Spoils, Leaves, Passes, CellSet
<1>5. CASE Puts(t)
  <2>1. cell'[crq[t]][Slot(ticket[t])].idx = ticket[t]
    BY <1>4, <1>5, OwnCell
  <2> QED
    BY <1>4, <1>5, <2>1
<1>6. CASE Takes(t) \/ Skips(t)
  BY <1>4, <1>6, OwnCell
<1>7. CASE Spoils(t)
  <2>1. /\ At(t) = cell[crq[t]][Slot(ticket[t])] /\ At(t) = word[t]
        /\ cell'[crq[t]][Slot(ticket[t])] = Cell(FALSE, word[t].idx, word[t].val)
    BY <1>4, <1>7, OwnCell
  <2>2. /\ Cell(FALSE, word[t].idx, word[t].val).idx = word[t].idx
        /\ Cell(FALSE, word[t].idx, word[t].val).val = word[t].val
    BY DEF Cell
  <2> QED
    BY <1>4, <1>7, <2>1, <2>2
<1> QED
  BY <1>1, <1>2, <1>3, <1>5, <1>6, <1>7, CellStep

LEMMA PlacedStep ==
  ASSUME Basics, Placed, NEW t \in Threads, Step(t)
  PROVE  Placed'
<1> SUFFICES ASSUME NEW r \in Rings, NEW i \in Cells, cell'[r][i].val # Null
             PROVE  Slot(cell'[r][i].idx) = i
  BY DEF Placed, Slot
<1>1. Slot(0) = 0
  <2>1. R \in Nat \ {0}
    OBVIOUS
  <2> QED
    BY <2>1 DEF Slot
<1> QED
  BY <1>1, ItemComes DEF Placed

\* A dequeue that leaves its cell has moved it past its ticket or spoilt it.
LEMMA GoneIs ==
  ASSUME Basics, NEW t \in Threads, NEW r \in Rings, NEW k \in Nat, GoneNow(t, r, k)
  PROVE  cell'[r][Slot(k)].idx > k \/ ~cell'[r][Slot(k)].safe
<1>1. crq[t] = r /\ ticket[t] = k /\ crq[t] \in Rings
  BY DEF GoneNow
<1>2. R \in Nat \ {0} /\ Slot(k) \in Cells
  BY SlotIs
<1>3. CASE Takes(t) \/ Skips(t)
  <2>1. cell'[r][Slot(k)].idx = k + R
    BY <1>1, <1>3, OwnCell
  <2> QED
    BY <1>2, <2>1
<1>4. CASE Spoils(t)
  BY <1>1, <1>4, OwnCell
<1>5. CASE CellsKept(t) /\ At(t).idx > k
  <2>1. At(t) = cell[r][Slot(k)]
    BY <1>1, OwnCell
  <2> QED
    BY <1>2, <1>5, <2>1 DEF CellsKept
<1> QED
  BY <1>3, <1>4, <1>5 DEF GoneNow

LEMMA GoneStep ==
  ASSUME Basics, Gone, \A u \in Threads : Awaits(u), NEW t \in Threads, Step(t)
  PROVE  Gone'
<1>1. TypeOK /\ TypeOK' /\ (\A u \in Threads : Locals(u)) /\ Owned /\ List
  BY BasicsStep DEF Basics
<1> SUFFICES ASSUME NEW r \in Rings, NEW k \in Nat, k < rhead'[r]
             PROVE  Held(r, k)' \/ cell'[r][Slot(k)].idx > k \/ ~cell'[r][Slot(k)].safe
  BY DEF Gone, Slot
<1>2. Slot(k) \in Cells
  BY SlotIs
<1>3. cell[r][Slot(k)].idx \in Nat /\ cell'[r][Slot(k)].idx \in Nat
  <2>1. cell'[r][Slot(k)] \in CellType
    BY <1>1, <1>2 DEF TypeOK
  <2> QED
    BY <1>1, <1>2, <2>1, CellFields DEF CellType
<1>4. CASE ~(k < rhead[r])
  <2>1. k = rhead[r]
    BY <1>4, HeadStep
  <2>2. rhead'[r] # rhead[r]
    BY <1>4
  <2> QED
    BY <2>1, <2>2, HeadStep
<1>5. CASE k < rhead[r] /\ Held(r, k)
  <2>1. Held(r, k)' \/ GoneNow(t, r, k)
    BY <1>5, HeldStep
  <2> QED
    BY <2>1, GoneIs
<1>6. CASE k < rhead[r] /\ cell[r][Slot(k)].idx > k
  BY <1>2, <1>3, <1>6, GrowStep DEF Grows
<1>7. CASE k < rhead[r] /\ ~Held(r, k) /\ ~(cell[r][Slot(k)].idx > k)
  <2>1. ~cell[r][Slot(k)].safe
    BY <1>7 DEF Gone
  <2>2. CASE cell'[r][Slot(k)] = cell[r][Slot(k)]
    BY <2>1, <2>2
  <2>3. CASE LinkNew(t) /\ cell'[r][Slot(k)] # cell[r][Slot(k)]
    <3>1. /\ New(crq[t] + 1) /\ \A s \in Rings \ {crq[t] + 1} : cell'[s] = cell[s]
      BY <1>1, <2>3, LinkedRing
    <3>2. rhead[r] = 0
      BY <2>3, <3>1 DEF New
    <3> QED
      BY <1>7, <3>2
  <2>4. ASSUME Puts(t) \/ Takes(t) \/ Skips(t) \/ Spoils(t), cell'[r][Slot(k)] # cell[r][Slot(k)]
        PROVE  crq[t] = r /\ crq[t] \in Rings /\ Slot(k) = Slot(ticket[t])
    BY <1>2, <2>4 DEF Puts, Takes, Skips, Spoils, Leaves, Passes, CellSet
  <2>5. CASE Takes(t) \/ Skips(t)
    <3>1. CASE cell'[r][Slot(k)] # cell[r][Slot(k)]
      <4>1. /\ crq[t] = r /\ Slot(k) = Slot(ticket[t]) /\ crq[t] \in Rings
        BY <2>4, <2>5, <3>1
      <4>2. /\ cell'[r][Slot(k)] = Cell(word[t].safe, ticket[t] + R, Null)
            /\ cell[r][Slot(k)] = word[t]
        BY <2>5, <4>1, OwnCell
      <4>3. cell'[r][Slot(k)].safe = word[t].safe
        BY <4>2 DEF Cell
      <4> QED
        BY <2>1, <4>2, <4>3
    <3> QED
      BY <2>2, <3>1
  <2>6. CASE Spoils(t)
    <3>1. CASE cell'[r][Slot(k)] # cell[r][Slot(k)]
      BY <2>4, <2>6, <3>1, OwnCell
    <3> QED
      BY <2>2, <3>1
  <2>7. CASE Puts(t)
    <3>1. CASE cell'[r][Slot(k)] # cell[r][Slot(k)]
      <4>1. /\ crq[t] = r /\ Slot(k) = Slot(ticket[t]) /\ crq[t] \in Rings
        BY <2>4, <2>7, <3>1
      <4>2. /\ At(t) = word[t] /\ cell[r][Slot(k)] = At(t) /\ ticket[t] \in Nat
            /\ cell'[r][Slot(k)].idx = ticket[t]
        BY <2>7, <4>1, OwnCell
      <4>3. ~word[t].safe /\ pc[t] = "eCas"
        BY <2>1, <2>7, <4>2 DEF Puts, Leaves
      <4>4. CASE ticket[t] <= k
        BY <1>7, <4>1, <4>2, <4>3, <4>4 DEF Awaits
      <4>5. CASE ~(ticket[t] <= k)
        BY <4>2, <4>5
      <4> QED
        BY <4>4, <4>5
    <3> QED
      BY <2>2, <3>1
  <2>8. CASE CellsKept(t)
    BY <1>2, <2>2, <2>8 DEF CellsKept
  <2> QED
    BY <1>1, <2>2, <2>3, <2>5, <2>6, <2>7, <2>8, CellStep
<1> QED
  BY <1>4, <1>5, <1>6, <1>7

LEMMA WaitingStep ==
  ASSUME Basics, Takers, NEW t \in Threads, Step(t)
  PROVE  Waiting'
<1>1. TypeOK /\ TypeOK' /\ (\A u \in Threads : Locals(u)) /\ Owned /\ List
  BY BasicsStep DEF Basics
<1> SUFFICES ASSUME NEW r \in Rings, NEW i \in Cells, cell'[r][i].val # Null
             PROVE  rhead'[r] <= cell'[r][i].idx \/ Held(r, cell[r][i].idx)'
  BY DEF Waiting
<1> DEFINE k == cell'[r][i].idx
<1>2. k \in Nat
  <2>1. cell'[r][i] \in CellType
    BY <1>1 DEF TypeOK
  <2> QED
    BY <2>1 DEF CellType
<1>3. rhead[r] \in Nat /\ rhead'[r] \in Nat
  BY HeadStep
<1> HIDE DEF k
\* Whoever is to take the item is still to come, or at the cell before the step.
<1>4. rhead[r] <= k \/ Held(r, k)
  <2>1. CASE cell[r][i].val = cell'[r][i].val /\ cell[r][i].idx = k
    BY <2>1 DEF Takers, Waiting
  <2>2. CASE Puts(t) /\ r = crq[t] /\ i = Slot(ticket[t]) /\ k = ticket[t]
    <3>1. /\ crq[t] \in Rings /\ pc[t] = "eCas" /\ At(t) = word[t] /\ word[t].idx <= ticket[t]
          /\ At(t) = cell[r][Slot(k)] /\ word[t].idx \in Nat /\ word[t].safe \in BOOLEAN
      BY <2>2, OwnCell DEF Puts, Leaves
    <3>2. CASE word[t].safe
      BY <1>2, <1>3, <2>2, <3>1, <3>2 DEF Takers, Gone
    <3>3. CASE ~word[t].safe
      <4>1. \A j \in Nat : ticket[t] <= j /\ j < rhead[crq[t]] /\ Slot(j) = Slot(ticket[t]) =>
              Held(crq[t], j)
        BY <3>1, <3>3 DEF Takers, Awaits
      <4>2. rhead[r] <= k \/ (ticket[t] <= k /\ k < rhead[crq[t]] /\ Slot(k) = Slot(ticket[t]))
        BY <1>2, <1>3, <2>2
      <4> QED
        BY <1>2, <2>2, <4>1, <4>2
    <3> QED
      BY <3>2, <3>3
  <2>3. CASE LinkNew(t) /\ New(r)
    BY <1>2, <2>3 DEF New
  <2> QED
    BY <2>1, <2>2, <2>3, ItemComes DEF k
\* It does not leave the cell with the item in it.
<1>5. ~GoneNow(t, r, k)
  <2> SUFFICES ASSUME GoneNow(t, r, k) PROVE FALSE
    OBVIOUS
  <2>1. crq[t] = r /\ ticket[t] = k /\ crq[t] \in Rings /\ pc[t] \in CellPcs
    BY DEF GoneNow
  <2>2. ~Puts(t) /\ ~LinkNew(t)
    BY <2>1 DEF Puts, LinkNew, Leaves, CellPcs
  <2>3. cell[r][i].val = cell'[r][i].val /\ cell[r][i].idx = k
    BY <2>2, ItemComes DEF k
  <2>4. i = Slot(k)
    BY <2>3 DEF Takers, Placed
  <2>5. At(t) = cell[r][i] /\ word[t].idx \in Nat
    BY <2>1, <2>4, OwnCell
  <2>6. CASE Takes(t) \/ Skips(t)
    BY <2>1, <2>4, <2>6, OwnCell
  <2>7. CASE Spoils(t)
    <3>1. word[t].idx < ticket[t] /\ At(t) = word[t]
      BY <2>1, <2>7, OwnCell
    <3>2. word[t].idx = ticket[t]
      BY <2>1, <2>3, <2>5, <3>1
    <3> QED
      BY <2>5, <3>1, <3>2
  <2>8. CASE CellsKept(t) /\ At(t).idx > k
    BY <1>2, <2>3, <2>5, <2>8
  <2> QED
    BY <2>6, <2>7, <2>8 DEF GoneNow
<1>6. CASE Held(r, k)
  BY <1>2, <1>5, <1>6, HeldStep DEF k, Held
<1>7. CASE rhead[r] <= k
  <2>1. CASE rhead'[r] = rhead[r]
    BY <1>7, <2>1 DEF k
  <2>2. CASE rhead'[r] = rhead[r] + 1 /\ k # rhead[r]
    BY <1>2, <1>3, <1>7, <2>2 DEF k
  <2>3. CASE rhead'[r] = rhead[r] + 1 /\ k = rhead[r]
    <3>1. \A j \in Nat : j = rhead[r] => Held(r, j)'
      BY <1>3, <2>3, HeadStep
    <3> QED
      BY <1>2, <2>3, <3>1 DEF k, Held
  <2> QED
    BY <2>1, <2>2, <2>3, HeadStep
<1> QED
  BY <1>4, <1>6, <1>7

\* An enqueue that goes to the compare-and-swap, or to _head before it, has just
\* read its cell or looked at _head; no cell changes in this step.
LEMMA PutComes ==
  ASSUME Basics, NEW t \in Threads, Step(t), pc'[t] \in {"eHead", "eCas"}
  PROVE  CellsKept(t) /\ (Reads(t) \/ Looks(t))
<1>1. ~LinkNew(t) /\ ~Puts(t) /\ ~Takes(t) /\ ~Skips(t) /\ ~Spoils(t)
  BY DEF LinkNew, Puts, Takes, Skips, Spoils, Leaves, Passes
<1>2. CellsKept(t)
  BY <1>1, CellStep DEF Basics
<1> QED
  BY <1>2 DEF CellsKept

LEMMA SawStep ==
  ASSUME Basics, NEW t \in Threads, Step(t), NEW u \in Threads, Saw(u)
  PROVE  Saw(u)'
<1>1. TypeOK /\ TypeOK' /\ \A v \in Threads \ {t} : Same(v)
  BY BasicsStep, OthersSame DEF Basics
<1> SUFFICES ASSUME pc'[u] \in {"eHead", "eCas"}
             PROVE  \/ At(u)'.idx > word'[u].idx
                    \/ At(u)'.idx = word'[u].idx /\ (At(u)'.val # Null \/ At(u)' = word'[u])
  BY DEF Saw
<1>2. crq'[u] \in Rings /\ ticket'[u] \in Nat
  BY <1>1 DEF TypeOK, RingOrNull
<1>3. Slot(ticket'[u]) \in Cells /\ At(u)' = cell'[crq'[u]][Slot(ticket'[u])]
  BY <1>2, SlotIs DEF At, Slot
<1>4. CASE u # t
  <2>1. pc[u] \in {"eHead", "eCas"} /\ crq'[u] = crq[u] /\ ticket'[u] = ticket[u] /\ word'[u] = word[u]
    BY <1>1, <1>4 DEF Same
  <2>2. /\ At(u) = cell[crq[u]][Slot(ticket[u])] /\ At(u).idx \in Nat /\ word[u].idx \in Nat
    <3>1. crq[u] \in Rings
      BY <1>2, <2>1
    <3>2. At(u) \in CellType /\ At(u) = cell[crq[u]][Slot(ticket[u])] /\ word[u].idx \in Nat
      BY <3>1, OwnCell
    <3> QED
      BY <3>2 DEF CellType
  <2>3. At(u)' = At(u) \/ Grows(At(u), At(u)')
    BY <1>2, <1>3, <2>1, <2>2, GrowStep
  <2>4. At(u)'.idx \in Nat
    <3>1. cell'[crq'[u]][Slot(ticket'[u])] \in CellType
      BY <1>1, <1>2, <1>3 DEF TypeOK
    <3> QED
      BY <1>3, <3>1 DEF CellType
  <2>5. \/ At(u).idx > word[u].idx
        \/ At(u).idx = word[u].idx /\ (At(u).val # Null \/ At(u) = word[u])
    BY <2>1 DEF Saw
  <2>6. CASE At(u)' = At(u)
    BY <2>1, <2>5, <2>6
  <2>7. CASE Grows(At(u), At(u)')
    <3>1. At(u).idx < At(u)'.idx \/ (At(u).idx = At(u)'.idx /\ At(u)'.val # Null)
      BY <2>7 DEF Grows
    <3>2. word[u].idx <= At(u).idx
      BY <2>2, <2>5
    <3> QED
      BY <2>1, <2>2, <2>4, <3>1, <3>2
  <2> QED
    BY <2>3, <2>6, <2>7
<1>5. CASE u = t
  <2>1. CellsKept(t) /\ (Reads(t) \/ Looks(t))
    BY <1>5, PutComes
  <2>2. crq'[t] = crq[t] /\ ticket'[t] = ticket[t]
    BY <2>1 DEF Reads, Looks, TicketKept
  <2>3. At(t) \in CellType /\ At(t) = cell[crq[t]][Slot(ticket[t])]
    BY <1>2, <1>5, <2>2, OwnCell
  <2>4. At(t)' = At(t)
    BY <1>2, <1>3, <1>5, <2>1, <2>2, <2>3 DEF CellsKept
  <2>5. CASE Reads(t)
    <3>1. word'[t] = Cell(At(t).safe, At(t).idx, Null)
      BY <2>5 DEF Reads
    <3>2. word'[t].idx = At(t).idx
      BY <3>1 DEF Cell
    <3>3. At(t).val = Null => At(t) = word'[t]
      BY <2>3, <3>1 DEF Cell, CellType
    <3> QED
      BY <1>5, <2>4, <3>2, <3>3
  <2>6. CASE Looks(t)
    BY <1>5, <2>4, <2>6 DEF Looks, Saw
  <2> QED
    BY <2>1, <2>5, <2>6
<1> QED
  BY <1>4, <1>5

LEMMA AwaitsStep ==
  ASSUME Basics, NEW t \in Threads, Step(t), NEW u \in Threads, Saw(u), Awaits(u)
  PROVE  Awaits(u)'
<1>1. TypeOK /\ TypeOK' /\ \A v \in Threads \ {t} : Same(v)
  BY BasicsStep, OthersSame DEF Basics
<1> SUFFICES ASSUME pc'[u] = "eCas", ~word'[u].safe, At(u)' = word'[u],
                    NEW k \in Nat, ticket'[u] <= k, k < rhead'[crq'[u]], Slot(k) = Slot(ticket'[u])
             PROVE  Held(crq[u], k)'
  BY DEF Awaits, Slot
<1>2. crq'[u] \in Rings /\ ticket'[u] \in Nat
  BY <1>1 DEF TypeOK, RingOrNull
<1>3. Slot(ticket'[u]) \in Cells /\ At(u)' = cell'[crq'[u]][Slot(ticket'[u])]
  BY <1>2, SlotIs DEF At, Slot
<1>4. CASE u = t
  <2>1. CellsKept(t) /\ (Reads(t) \/ Looks(t))
    BY <1>4, PutComes
  <2>2. CASE Reads(t)
    <3>1. word'[t].safe = At(t).safe
      BY <2>2 DEF Reads, Cell
    <3> QED
      BY <1>4, <2>2, <3>1 DEF Reads
  <2>3. CASE Looks(t)
    <3>1. crq'[t] = crq[t] /\ ticket'[t] = ticket[t] /\ rhead[crq[t]] <= ticket[t] /\ ~TicketTake(t)
      BY <2>3 DEF Looks, TicketKept, TicketTake
    <3>2. rhead'[crq[t]] = rhead[crq[t]] /\ rhead[crq[t]] \in Nat
      BY <1>2, <1>4, <3>1, HeadStep
    <3> QED
      BY <1>2, <1>4, <3>1, <3>2
  <2> QED
    BY <2>1, <2>2, <2>3
<1>5. CASE u # t
  <2>1. pc[u] = "eCas" /\ crq'[u] = crq[u] /\ ticket'[u] = ticket[u] /\ word'[u] = word[u]
    BY <1>1, <1>5 DEF Same
  <2>2. /\ At(u) = cell[crq[u]][Slot(ticket[u])] /\ At(u).idx \in Nat /\ word[u].idx \in Nat
        /\ Locals(u) /\ crq[u] \in Rings
    <3>1. crq[u] \in Rings
      BY <1>2, <2>1
    <3>2. /\ At(u) \in CellType /\ At(u) = cell[crq[u]][Slot(ticket[u])] /\ word[u].idx \in Nat
          /\ Locals(u)
      BY <3>1, OwnCell
    <3> QED
      BY <3>1, <3>2 DEF CellType
  <2>3. word[u].val = Null /\ word[u].idx <= ticket[u]
    BY <2>1, <2>2 DEF Locals
  <2>4. At(u) = word[u]
    <3>1. \/ At(u).idx > word[u].idx
          \/ At(u).idx = word[u].idx /\ (At(u).val # Null \/ At(u) = word[u])
      BY <2>1 DEF Saw
    <3>2. At(u)' = At(u) \/ Grows(At(u), At(u)')
      BY <1>2, <1>3, <2>1, <2>2, GrowStep
    <3>3. CASE At(u)' = At(u)
      BY <2>1, <3>3
    <3>4. CASE Grows(At(u), At(u)')
      <4>1. At(u).idx < word[u].idx \/ (At(u).idx = word[u].idx /\ word[u].val # Null)
        BY <2>1, <3>4 DEF Grows
      <4> QED
        BY <2>2, <2>3, <3>1, <4>1
    <3> QED
      BY <3>2, <3>3, <3>4
  <2>5. CASE k < rhead[crq[u]]
    <3>1. Held(crq[u], k)
      BY <2>1, <2>4, <2>5 DEF Awaits
    <3>3. \A s \in Rings : s = crq[u] /\ Held(s, k)' => Held(crq[u], k)'
      BY <2>1 DEF Held
    <3>2. ~GoneNow(t, crq[u], k)
      <4> SUFFICES ASSUME GoneNow(t, crq[u], k) PROVE FALSE
        OBVIOUS
      <4>1. crq[t] = crq[u] /\ ticket[t] = k /\ crq[t] \in Rings
        BY <1>2, <2>1 DEF GoneNow
      <4>2. At(t) = word[u] /\ cell'[crq[t]][Slot(ticket[t])] = word[u]
        BY <1>3, <2>1, <2>2, <2>4, <4>1, OwnCell
      <4>3. word[u].idx <= k
        BY <1>2, <2>1, <2>2, <2>3
      <4>4. CASE Takes(t) \/ Skips(t)
        <5>1. cell'[crq[t]][Slot(ticket[t])].idx = k + R /\ R \in Nat \ {0}
          BY <4>1, <4>4, OwnCell
        <5> QED
          BY <2>2, <4>2, <4>3, <5>1
      <4>5. CASE Spoils(t)
        BY <2>3, <4>1, <4>2, <4>5, OwnCell
      <4>6. CASE At(t).idx > k
        BY <2>2, <4>2, <4>3, <4>6
      <4> QED
        BY <4>4, <4>5, <4>6 DEF GoneNow
    <3> QED
      <4>1. PICK s \in Rings : s = crq[u]
        BY <2>2
      <4>2. Held(s, k)'
        BY <3>1, <3>2, <4>1, HeldStep
      <4> QED
        BY <3>3, <4>1, <4>2
  <2>6. CASE ~(k < rhead[crq[u]])
    <3>1. rhead'[crq[u]] # rhead[crq[u]] /\ rhead[crq[u]] \in Nat
      BY <1>2, <2>1, <2>6, HeadStep
    <3>2. PICK s \in Rings : s = crq[u]
      BY <2>2
    <3>3. rhead'[s] = rhead[s] + 1 /\ \A j \in Nat : j = rhead[s] => Held(s, j)'
      BY <3>1, <3>2, HeadStep
    <3>4. k = rhead[s]
      BY <2>1, <2>6, <3>1, <3>2, <3>3
    <3>5. Held(s, k)'
      BY <3>3, <3>4
    <3> QED
      BY <2>1, <3>2, <3>5 DEF Held
  <2> QED
    BY <2>5, <2>6
<1> QED
  BY <1>4, <1>5

LEMMA TakersStep ==
  ASSUME Basics, Takers, NEW t \in Threads, Step(t)
  PROVE  Takers'
<1>1. Placed' /\ Gone' /\ Waiting'
  BY PlacedStep, GoneStep, WaitingStep DEF Takers
<1>2. \A u \in Threads : Saw(u)' /\ Awaits(u)'
  BY SawStep, AwaitsStep DEF Takers
<1> QED
  BY <1>1, <1>2 DEF Takers

LEMMA TakersQuiet ==
  ASSUME Basics, Takers, Destroy \/ Finished \/ UNCHANGED vars
  PROVE  Takers'
<1>1. UNCHANGED <<queue, pc, locals, calls>>
  BY QuietStep DEF Basics
<1>2. /\ rhead' = rhead /\ cell' = cell /\ pc' = pc /\ crq' = crq /\ ticket' = ticket /\ word' = word
  BY <1>1 DEF queue, rings, locals
<1>3. Placed' /\ Gone' /\ Waiting'
  BY <1>2 DEF Takers, Placed, Gone, Waiting, Held, Slot
<1>4. \A t \in Threads : Saw(t)' /\ Awaits(t)'
  BY <1>2 DEF Takers, Saw, Awaits, Held, At, Slot
<1> QED
  BY <1>3, <1>4 DEF Takers

LEMMA TakersInit == Init => Takers
<1> SUFFICES ASSUME Init PROVE Takers
  OBVIOUS
<1>1. \A r \in Rings, i \in Cells : cell[r][i] = Cell(TRUE, i, Null)
  <2>1. \A r \in Rings : cell[r] = NewCells
    BY DEF Init
  <2>2. \A i \in Cells : NewCells[i] = Cell(TRUE, i, Null)
    BY DEF NewCells
  <2> QED
    BY <2>1, <2>2
<1>2. \A r \in Rings, i \in Cells : cell[r][i].val = Null
  <2>1. \A i \in Cells : Cell(TRUE, i, Null).val = Null
    BY DEF Cell
  <2> QED
    BY <1>1, <2>1
<1>3. \A r \in Rings : rhead[r] = 0
  BY DEF Init
<1>4. \A t \in Threads : pc[t] = "idle"
  BY DEF Init
<1> QED
  BY <1>2, <1>3, <1>4 DEF Takers, Placed, Gone, Waiting, Saw, Awaits

----------------------------------------------------------------------------
(* Every item is in one place *)

\* An item has been sent once its enqueue has put it into a ring, linked or not.
LEMMA SentIs ==
  ASSUME TypeOK, \A u \in Threads : Locals(u), Owned, NEW t \in Threads, Step(t)
  PROVE  LET puts == LinkNew(t) \/ (pc[t] = "eCas" /\ pc'[t] = "idle")
         IN  /\ puts => item[t] \in Items /\ item[t] \notin Sent /\ Sent' = Sent \union {item[t]}
             /\ ~puts => Sent' = Sent
<1> DEFINE puts == LinkNew(t) \/ (pc[t] = "eCas" /\ pc'[t] = "idle")
<1>1. \A u \in Threads \ {t} : pc'[u] = pc[u] /\ item'[u] = item[u]
  BY OthersSame DEF Same
<1>2. \A u \in Threads \ {t} : Pending(u)' <=> Pending(u)
  BY <1>1 DEF Pending
<1>3. ASSUME puts PROVE item[t] \in Items /\ item[t] \notin Sent /\ Sent' = Sent \union {item[t]}
  <2>1. pc[t] \in {"lLink", "eCas"} /\ pc'[t] \in {"lSwing", "idle"} /\ unsent' = unsent
    <3>1. CASE LinkNew(t)
      BY <3>1 DEF LinkNew, calls
    <3>2. CASE pc[t] = "eCas" /\ pc'[t] = "idle"
      BY <3>2, ItemStep DEF ItemKept, ItemTaken, ItemEntered, EnqueuePcs
    <3> QED
      BY <1>3, <3>1, <3>2
  <2>2. Pending(t) /\ ~Pending(t)' /\ pc[t] \in EnqueuePcs
    BY <2>1 DEF Pending, EnqueuePcs
  <2>3. item[t] \in Items /\ item[t] \notin unsent
    BY <2>2 DEF Owned, Locals, TypeOK
  <2>4. \A u \in Threads \ {t} : Pending(u) => item[u] # item[t]
    BY <2>2 DEF Owned, Pending
  <2>5. item[t] \notin Sent
    BY <2>2 DEF Sent
  <2>6. Sent' = {x \in Items : x \notin unsent /\ \A u \in Threads \ {t} : Pending(u) => item[u] # x}
    BY <1>1, <1>2, <2>1, <2>2 DEF Sent
  <2> QED
    BY <2>2, <2>3, <2>4, <2>5, <2>6 DEF Sent
<1>4. ASSUME ~puts PROVE Sent' = Sent
  <2>1. CASE ItemKept(t)
    <3>1. Pending(t)' <=> Pending(t)
      BY <1>4, <2>1 DEF ItemKept, Pending
    <3> QED
      BY <1>1, <1>2, <2>1, <3>1 DEF Sent, ItemKept
  <2>2. CASE ItemTaken(t)
    <3>1. ~Pending(t) /\ Pending(t)'
      BY <2>2 DEF ItemTaken, Pending, EnqueuePcs
    <3>2. \A x \in Items : x \in Sent' <=> x \in Sent
      BY <1>1, <1>2, <2>2, <3>1 DEF Sent, ItemTaken
    <3> QED
      BY <3>2 DEF Sent
  <2>3. CASE ItemEntered(t)
    <3>1. ~Pending(t) /\ ~Pending(t)'
      BY <1>4, <2>3 DEF ItemEntered, Pending, EnqueuePcs
    <3> QED
      BY <1>1, <1>2, <2>3, <3>1 DEF Sent, ItemEntered
  <2> QED
    BY <2>1, <2>2, <2>3, ItemStep
<1> QED
  BY <1>3, <1>4

\* Cell j of ring s gets the value v; all others keep theirs.
Gets(s, j, v) ==
  \A r \in Rings, i \in Cells :
    cell'[r][i].val = IF r = s /\ i = j THEN v ELSE cell[r][i].val

\* What a step does with the items: nothing, put one in, or take one out.
ItemsKept ==
  /\ \A r \in Rings, i \in Cells : cell'[r][i].val = cell[r][i].val
  /\ out' = out /\ Sent' = Sent
ItemPut(x, s, j) ==
  /\ cell[s][j].val \notin Items /\ Gets(s, j, x)
  /\ out' = out /\ x \notin Sent /\ Sent' = Sent \union {x}
ItemOut(x, s, j) ==
  /\ cell[s][j].val = x /\ Gets(s, j, Null)
  /\ out' = [out EXCEPT ![x] = @ + 1] /\ Sent' = Sent

LEMMA SetIs ==
  ASSUME NEW t \in Threads, NEW c, CellSet(t, c)
  PROVE  Gets(crq[t], Slot(ticket[t]), c.val)
BY DEF CellSet, Gets

LEMMA ItemsStep ==
  ASSUME Basics, NEW t \in Threads, Step(t)
  PROVE  ItemsKept \/ \E x \in Items, s \in Rings, j \in Cells : ItemPut(x, s, j) \/ ItemOut(x, s, j)
<1> DEFINE r == crq[t]
           i == Slot(ticket[t])
<1>1. TypeOK /\ (\A u \in Threads : Locals(u)) /\ Owned /\ List /\ Locals(t)
  BY DEF Basics
<1>2. /\ Null \notin Items
      /\ r \in Rings => i \in Cells /\ At(t) = cell[r][i]
  BY OwnCell
<1>3. /\ Cell(TRUE, ticket[t], item[t]).val = item[t]
      /\ Cell(TRUE, 0, item[t]).val = item[t]
      /\ Cell(word[t].safe, ticket[t] + R, Null).val = Null
      /\ Cell(FALSE, word[t].idx, word[t].val).val = word[t].val
      /\ \A j : Cell(TRUE, j, Null).val = Null
  BY DEF Cell
<1>4. CASE LinkNew(t)
  <2>1. /\ r + 1 \in Rings /\ New(r + 1)
        /\ \A s \in Rings \ {r + 1} : cell'[s] = cell[s]
        /\ \A j \in Cells : cell'[r + 1][j] = IF j = 0 THEN Cell(TRUE, 0, item[t]) ELSE Cell(TRUE, j, Null)
    BY <1>1, <1>4, LinkedRing
  <2>2. 0 \in Cells
    <3>1. R \in Nat \ {0}
      OBVIOUS
    <3> QED
      BY <3>1 DEF Cells
  <2>3. \A j \in Cells : cell[r + 1][j].val = Null
    BY <1>3, <2>1 DEF New
  <2>4. \A j \in Cells : cell'[r + 1][j].val = IF j = 0 THEN item[t] ELSE Null
    BY <1>3, <2>1
  <2>5. cell[r + 1][0].val \notin Items /\ Gets(r + 1, 0, item[t])
    BY <1>2, <2>1, <2>2, <2>3, <2>4 DEF Gets
  <2>6. out' = out
    BY <1>4 DEF LinkNew, calls, history
  <2>7. item[t] \in Items /\ item[t] \notin Sent /\ Sent' = Sent \union {item[t]}
    BY <1>1, <1>4, SentIs
  <2>8. ItemPut(item[t], r + 1, 0)
    BY <2>5, <2>6, <2>7 DEF ItemPut
  <2> QED
    BY <2>1, <2>2, <2>7, <2>8
<1>5. CASE Puts(t)
  <2>1. r \in Rings /\ At(t).val = Null /\ CellSet(t, Cell(TRUE, ticket[t], item[t])) /\ out' = out
    BY <1>5, OwnCell DEF Puts, Leaves
  <2>2. cell[r][i].val \notin Items /\ Gets(r, i, item[t])
    <3>1. Gets(r, i, Cell(TRUE, ticket[t], item[t]).val)
      BY <2>1, SetIs
    <3> QED
      BY <1>2, <1>3, <2>1, <3>1
  <2>3. item[t] \in Items /\ item[t] \notin Sent /\ Sent' = Sent \union {item[t]}
    BY <1>1, <1>5, SentIs DEF Puts, Leaves
  <2>4. ItemPut(item[t], r, i)
    BY <2>1, <2>2, <2>3 DEF ItemPut
  <2> QED
    BY <1>2, <2>1, <2>3, <2>4
<1>6. CASE Takes(t)
  <2>1. /\ r \in Rings /\ pc[t] = "dTake" /\ At(t) = word[t]
        /\ CellSet(t, Cell(word[t].safe, ticket[t] + R, Null))
        /\ out' = [out EXCEPT ![word[t].val] = @ + 1]
    BY <1>6 DEF Takes, Leaves
  <2>2. Gets(r, i, Null)
    <3>1. Gets(r, i, Cell(word[t].safe, ticket[t] + R, Null).val)
      BY <2>1, SetIs
    <3> QED
      BY <1>3, <3>1
  <2>3. cell[r][i].val = word[t].val /\ word[t].val \in Items
    BY <1>1, <1>2, <2>1, OwnCell DEF Locals
  <2>4. Sent' = Sent
    BY <1>1, <2>1, SentIs DEF LinkNew
  <2>5. ItemOut(word[t].val, r, i)
    BY <2>1, <2>2, <2>3, <2>4 DEF ItemOut
  <2> QED
    BY <1>2, <2>1, <2>3, <2>5
<1>7. CASE CellsKept(t)
  <2>1. Sent' = Sent
    BY <1>1, <1>7, SentIs DEF CellsKept, LinkNew
  <2> QED
    BY <1>7, <2>1 DEF CellsKept, ItemsKept
<1>8. CASE Skips(t)
  <2>1. r \in Rings /\ pc[t] = "dSkip" /\ At(t) = word[t]
        /\ CellSet(t, Cell(word[t].safe, ticket[t] + R, Null)) /\ out' = out
    BY <1>8 DEF Skips, Passes
  <2>2. At(t).val = Null
    BY <1>1, <2>1 DEF Locals
  <2>3. Gets(r, i, Cell(word[t].safe, ticket[t] + R, Null).val)
    BY <2>1, SetIs
  <2>4. \A s \in Rings, j \in Cells : cell'[s][j].val = cell[s][j].val
    BY <1>2, <1>3, <2>1, <2>2, <2>3 DEF Gets
  <2>5. Sent' = Sent
    BY <1>1, <2>1, SentIs DEF LinkNew
  <2> QED
    BY <2>1, <2>4, <2>5 DEF ItemsKept
<1>9. CASE Spoils(t)
  <2>1. r \in Rings /\ pc[t] = "dUnsafe" /\ At(t) = word[t]
        /\ CellSet(t, Cell(FALSE, word[t].idx, word[t].val)) /\ out' = out
    BY <1>9 DEF Spoils, Passes
  <2>2. Gets(r, i, Cell(FALSE, word[t].idx, word[t].val).val)
    BY <2>1, SetIs
  <2>3. \A s \in Rings, j \in Cells : cell'[s][j].val = cell[s][j].val
    BY <1>2, <1>3, <2>1, <2>2 DEF Gets
  <2>4. Sent' = Sent
    BY <1>1, <2>1, SentIs DEF LinkNew
  <2> QED
    BY <2>1, <2>3, <2>4 DEF ItemsKept
<1> QED
  BY <1>1, <1>4, <1>5, <1>6, <1>7, <1>8, <1>9, CellStep

LEMMA OnceStep ==
  ASSUME Basics, Once, NEW t \in Threads, Step(t)
  PROVE  Once'
<1>1. out \in [Items -> Nat]
  BY DEF Basics, TypeOK
<1>2. CASE ItemsKept
  <2>1. \A x \in Items : In(x)' <=> In(x)
    BY <1>1, <1>2 DEF In, ItemsKept
  <2>2. \A r \in Rings, i \in Cells :
          cell'[r][i].val \in Items => cell'[r][i].val = cell[r][i].val
    BY <1>2 DEF ItemsKept
  <2>3. \A x \in Items : /\ out'[x] \in {0, 1}
                         /\ In(x)' => out'[x] = 0
                         /\ In(x)' \/ out'[x] = 1 <=> x \in Sent'
    BY <1>2, <2>1 DEF Once, ItemsKept
  <2>4. \A r, s \in Rings, i, j \in Cells :
          cell'[r][i].val \in Items /\ cell'[r][i].val = cell'[s][j].val => r = s /\ i = j
    BY <2>2 DEF Once
  <2> QED
    BY <1>1, <2>3, <2>4 DEF Once
<1>3. ASSUME NEW y \in Items, NEW s \in Rings, NEW j \in Cells, ItemPut(y, s, j) PROVE Once'
  <2>1. ~In(y) /\ out[y] = 0
    BY <1>3 DEF Once, ItemPut
  <2>2. In(y)' /\ \A x \in Items \ {y} : In(x)' <=> In(x)
    <3>1. cell'[s][j].val = y
      BY <1>3 DEF ItemPut, Gets
    <3>2. ASSUME NEW x \in Items \ {y} PROVE In(x)' <=> In(x)
      BY <1>1, <1>3 DEF In, ItemPut, Gets
    <3> QED
      BY <1>1, <3>1, <3>2 DEF In
  <2>3. \A x \in Items : /\ out'[x] \in {0, 1}
                         /\ In(x)' => out'[x] = 0
                         /\ In(x)' \/ out'[x] = 1 <=> x \in Sent'
    BY <1>3, <2>1, <2>2 DEF Once, ItemPut
  <2>4. \A r \in Rings, i \in Cells : cell[r][i].val # y
    BY <2>1 DEF In
  <2>5. \A r, q \in Rings, i, k \in Cells :
          cell'[r][i].val \in Items /\ cell'[r][i].val = cell'[q][k].val => r = q /\ i = k
    BY <1>3, <2>4 DEF Once, ItemPut, Gets
  <2> QED
    BY <1>1, <2>3, <2>5 DEF Once
<1>4. ASSUME NEW y \in Items, NEW s \in Rings, NEW j \in Cells, ItemOut(y, s, j) PROVE Once'
  <2>1. cell[s][j].val = y /\ In(y) /\ out[y] = 0 /\ y \in Sent
    BY <1>4 DEF Once, ItemOut, In
  <2>2. \A r \in Rings, i \in Cells : cell[r][i].val = y => r = s /\ i = j
    BY <2>1 DEF Once
  <2>3. \A r \in Rings, i \in Cells :
          cell'[r][i].val = IF r = s /\ i = j THEN Null ELSE cell[r][i].val
    BY <1>4 DEF ItemOut, Gets
  <2>4. ~In(y)'
    BY <1>1, <2>2, <2>3 DEF In
  <2>5. ASSUME NEW x \in Items \ {y} PROVE In(x)' <=> In(x)
    BY <1>1, <2>1, <2>3 DEF In
  <2>6. out'[y] = 1 /\ \A x \in Items \ {y} : out'[x] = out[x]
    BY <1>1, <1>4, <2>1 DEF ItemOut
  <2>7. \A x \in Items : /\ out'[x] \in {0, 1}
                         /\ In(x)' => out'[x] = 0
                         /\ In(x)' \/ out'[x] = 1 <=> x \in Sent'
    BY <1>4, <2>1, <2>4, <2>5, <2>6 DEF Once, ItemOut
  <2>8. \A r, q \in Rings, i, k \in Cells :
          cell'[r][i].val \in Items /\ cell'[r][i].val = cell'[q][k].val => r = q /\ i = k
    BY <2>3 DEF Once
  <2> QED
    BY <1>1, <2>7, <2>8 DEF Once
<1> QED
  BY <1>2, <1>3, <1>4, ItemsStep

LEMMA OnceQuiet ==
  ASSUME Basics, Once, Destroy \/ Finished \/ UNCHANGED vars
  PROVE  Once'
<1>1. UNCHANGED <<queue, pc, locals, calls>>
  BY QuietStep DEF Basics
<1>2. cell' = cell /\ out' = out /\ pc' = pc /\ item' = item /\ unsent' = unsent
  BY <1>1 DEF queue, rings, locals, calls, history
<1>3. Sent' = Sent
  BY <1>2 DEF Sent, Pending
<1> QED
  BY <1>2, <1>3 DEF Once, In

LEMMA OnceInit == Init => Once
<1> SUFFICES ASSUME Init PROVE Once
  OBVIOUS
<1>1. \A r \in Rings, i \in Cells : cell[r][i].val = Null
  <2>1. \A r \in Rings : cell[r] = NewCells
    BY DEF Init
  <2>2. \A i \in Cells : NewCells[i] = Cell(TRUE, i, Null)
    BY DEF NewCells
  <2>3. \A i \in Cells : Cell(TRUE, i, Null).val = Null
    BY DEF Cell
  <2> QED
    BY <2>1, <2>2, <2>3
<1>2. \A x \in Items : ~In(x) /\ out[x] = 0 /\ x \notin Sent
  BY <1>1 DEF Init, In, Sent
<1> QED
  BY <1>1, <1>2 DEF Once

\* An item that has been sent is in one cell or has come out once.
LEMMA Counted ==
  ASSUME Basics, Once
  PROVE  AtMostOnce
<1> SUFFICES ASSUME NEW x \in Items
             PROVE  out[x] + Cardinality({p \in Rings \X Cells : cell[p[1]][p[2]].val = x}) <= 1
  BY DEF AtMostOnce
<1> DEFINE places == {p \in Rings \X Cells : cell[p[1]][p[2]].val = x}
<1>1. out[x] \in {0, 1} /\ (In(x) => out[x] = 0)
  BY DEF Once
<1>2. CASE In(x)
  <2>1. PICK r \in Rings, i \in Cells : cell[r][i].val = x
    BY <1>2 DEF In
  <2>2. \A s \in Rings, j \in Cells : cell[s][j].val = x => s = r /\ j = i
    BY <2>1 DEF Once
  <2>3. places = {<<r, i>>}
    BY <2>1, <2>2
  <2>4. Cardinality(places) = 1
    BY <2>3, FS_Singleton
  <2> QED
    BY <1>1, <1>2, <2>4
<1>3. CASE ~In(x)
  <2>1. places = {}
    BY <1>3 DEF In
  <2>2. Cardinality(places) = 0
    BY <2>1, FS_EmptySet
  <2> QED
    BY <1>1, <2>2
<1> QED
  BY <1>2, <1>3

----------------------------------------------------------------------------
(* Items come out in the order of their cells *)

\* Heads, tails and tickets only go forward.
LEMMA Forward ==
  ASSUME Basics, NEW t \in Threads, Step(t)
  PROVE  /\ qhead \in Nat /\ qhead' \in Nat /\ qhead <= qhead'
         /\ qtail \in Nat /\ qtail' \in Nat /\ qtail <= qtail'
         /\ \A r \in Rings : /\ rhead[r] \in Nat /\ rhead'[r] \in Nat /\ rhead[r] <= rhead'[r]
                             /\ rtail[r].t \in Nat /\ rtail'[r].t \in Nat
                             /\ rtail[r].t <= rtail'[r].t
<1>1. TypeOK /\ TypeOK' /\ Locals(t) /\ (\A u \in Threads : Locals(u)) /\ Owned /\ List
  BY BasicsStep DEF Basics
<1>2. /\ qhead \in Rings /\ qhead' \in Rings /\ qtail \in Rings /\ qtail' \in Rings
      /\ rhead \in [Rings -> Nat] /\ rhead' \in [Rings -> Nat]
      /\ rtail \in [Rings -> [t : Nat, closed : BOOLEAN]]
      /\ rtail' \in [Rings -> [t : Nat, closed : BOOLEAN]]
  BY <1>1 DEF TypeOK
<1>3. qhead \in Nat /\ qhead' \in Nat /\ qtail \in Nat /\ qtail' \in Nat
  BY <1>2, RingsAre
<1>4. \A r \in Rings : /\ rhead[r] \in Nat /\ rhead'[r] \in Nat
                       /\ rtail[r].t \in Nat /\ rtail'[r].t \in Nat
  BY <1>2
<1>5. CASE RingKept(t)
  <2>1. \A r \in Rings : next[r] # 0 => next[r] = r + 1
    BY <1>1 DEF List
  <2>2. pc[t] \in {"lHelp", "lSwing", "lDSwing"} => next[crq[t]] # 0
    BY <1>1 DEF List
  <2>3. qhead <= qhead'
    <3>1. CASE qhead' = qhead
      BY <1>3, <3>1
    <3>2. CASE pc[t] = "lDSwing" /\ qhead = crq[t] /\ qhead' = next[crq[t]]
      <4>1. qhead' = qhead + 1
        BY <1>2, <2>1, <2>2, <3>2
      <4> QED
        BY <1>3, <4>1
    <3> QED
      BY <1>5, <3>1, <3>2 DEF RingKept
  <2>4. qtail <= qtail'
    <3>1. CASE qtail' = qtail
      BY <1>3, <3>1
    <3>2. CASE pc[t] \in {"lHelp", "lSwing"} /\ qtail = crq[t] /\ qtail' = next[crq[t]]
      <4>1. qtail' = qtail + 1
        BY <1>2, <2>1, <2>2, <3>2
      <4> QED
        BY <1>3, <4>1
    <3> QED
      BY <1>5, <3>1, <3>2 DEF RingKept
  <2>5. \A r \in Rings : rhead[r] <= rhead'[r] /\ rtail[r].t <= rtail'[r].t
    BY <1>4, <1>5 DEF RingKept
  <2> QED
    BY <1>3, <1>4, <2>3, <2>4, <2>5
<1>6. CASE LinkNew(t)
  <2>1. qhead' = qhead /\ qtail' = qtail /\ rhead' = rhead
    BY <1>6 DEF LinkNew
  <2>2. /\ New(crq[t] + 1) /\ crq[t] + 1 \in Rings
        /\ \A r \in Rings \ {crq[t] + 1} : rtail'[r] = rtail[r]
    BY <1>1, <1>6, LinkedRing
  <2>3. rtail[crq[t] + 1].t = 0
    BY <2>2, Values DEF New
  <2>4. \A r \in Rings : rtail[r].t <= rtail'[r].t
    <3> SUFFICES ASSUME NEW r \in Rings PROVE rtail[r].t <= rtail'[r].t
      OBVIOUS
    <3>1. CASE r = crq[t] + 1
      BY <1>4, <2>3, <3>1
    <3>2. CASE r # crq[t] + 1
      <4>1. rtail'[r] = rtail[r]
        BY <2>2, <3>2
      <4> QED
        BY <1>4, <4>1
    <3> QED
      BY <3>1, <3>2
  <2> QED
    BY <1>3, <1>4, <2>1, <2>4
<1> QED
  BY <1>1, <1>5, <1>6, RingStep

\* No step opens a closed ring: fixState compares the closed bit along with the
\* ticket, and a ring is not closed before it is linked.
LEMMA ClosedStep ==
  ASSUME Basics, NEW t \in Threads, Step(t), NEW r \in Rings, rtail[r].closed
  PROVE  rtail'[r].closed
<1>1. TypeOK /\ Locals(t) /\ (\A u \in Threads : Locals(u)) /\ Owned /\ List
  BY DEF Basics
<1>2. rtail \in [Rings -> [t : Nat, closed : BOOLEAN]] /\ (crq[t] # 0 => crq[t] \in Rings)
  BY <1>1 DEF TypeOK, RingOrNull
<1>3. CASE rtail'[r] = rtail[r]
  BY <1>3
<1>4. CASE LinkNew(t)
  <2>1. New(crq[t] + 1) /\ \A s \in Rings \ {crq[t] + 1} : rtail'[s] = rtail[s]
    BY <1>1, <1>4, LinkedRing
  <2>2. ~rtail[crq[t] + 1].closed
    <3>1. rtail[crq[t] + 1] = Word(0, FALSE)
      BY <2>1 DEF New
    <3> QED
      BY <3>1 DEF Word
  <2> QED
    BY <2>1, <2>2, <1>3
<1>5. CASE ETicket(t) \/ EClose(t)
  <2>1. \/ rtail' = [rtail EXCEPT ![crq[t]].t = rtail[crq[t]].t + 1]
        \/ rtail' = [rtail EXCEPT ![crq[t]].closed = TRUE]
    BY <1>5 DEF ETicket, EClose
  <2> QED
    BY <1>2, <2>1
<1>6. CASE FCas(t)
  <2>1. \/ rtail' = rtail
        \/ rtail[crq[t]] = fix[t].tail /\ ~fix[t].tail.closed
           /\ rtail' = [rtail EXCEPT ![crq[t]] = Word(fix[t].h, FALSE)]
    BY <1>1, <1>6 DEF FCas, Goto, Locals
  <2>2. r = crq[t] => rtail' = rtail
    BY <2>1
  <2> QED
    BY <1>2, <1>3, <2>1, <2>2
<1>7. CASE rtail' = rtail
  BY <1>3, <1>7
<1> USE DEF Goto, queue, rings
<1>8. CASE Call(t)
  BY <1>7, <1>8 DEF Call, CallDequeue, CallEnqueue
<1>9. CASE LTail(t) \/ LNext(t) \/ LHelp(t) \/ LSwing(t)
  BY <1>7, <1>9 DEF LTail, LNext, LHelp, LSwing, CasTail
<1>10. CASE LLink(t)
  BY <1>1, <1>4, <1>7, <1>10, LinkStep
<1>11. CASE EVal(t) \/ EIdx(t) \/ EHead(t) \/ ECas(t) \/ EOver(t)
  BY <1>7, <1>11 DEF EVal, EIdx, EHead, ECas, EOver
<1>12. CASE LHead(t) \/ LDReturnEmpty(t) \/ LDNext(t) \/ LDSwing(t)
  BY <1>7, <1>12 DEF LHead, LDReturnEmpty, LDNext, LDSwing
<1>13. CASE DTicket(t) \/ DVal(t) \/ DIdx(t) \/ DTake(t) \/ DUnsafe(t) \/ DSkip(t) \/ DTail(t)
  BY <1>7, <1>13 DEF DTicket, DVal, DIdx, DTake, DUnsafe, DSkip, DTail
<1>14. CASE FHead(t) \/ FTail(t) \/ FTail2(t)
  BY <1>7, <1>14 DEF FHead, FTail, FTail2
<1> QED
  BY <1>5, <1>6, <1>8, <1>9, <1>10, <1>11, <1>12, <1>13, <1>14 DEF Step, Enqueue, Dequeue

\* A call stays in its ring, leaves it, or goes to the last or the first ring.
LEMMA OwnRing ==
  ASSUME TypeOK, NEW t \in Threads, Locals(t), Step(t), crq'[t] # 0
  PROVE  \/ /\ crq'[t] = crq[t]
            /\ pc[t] \in EnqueuePcs <=> pc'[t] \in EnqueuePcs
            /\ pc[t] \in DequeuePcs <=> pc'[t] \in DequeuePcs
         \/ /\ pc[t] = "lTail" /\ pc'[t] = "lNext" /\ crq'[t] = qtail
            /\ UNCHANGED <<rhead, rtail, qhead, qtail>>
         \/ /\ pc[t] = "lHead" /\ pc'[t] = "dTicket" /\ crq'[t] = qhead
            /\ UNCHANGED <<rhead, rtail, qhead, qtail>>
<1>1. /\ DOMAIN pc = Threads /\ DOMAIN crq = Threads
      /\ crq[t] = 0 => pc[t] \in {"idle", "lTail", "lHead"}
      /\ pc[t] \in {"idle", "lTail", "lHead"} => crq[t] = 0
  BY DEF TypeOK, Locals
<1> USE DEF Goto, queue, rings, locals, history, calls, EnqueuePcs, DequeuePcs
<1>2. CASE Call(t)
  BY <1>1, <1>2 DEF Call, CallDequeue, CallEnqueue
<1>3. CASE LTail(t) \/ LNext(t) \/ LHelp(t) \/ LSwing(t)
  BY <1>1, <1>3 DEF LTail, LNext, LHelp, LSwing, Again, EnqueueReturns, Return
<1>4. CASE LLink(t)
  BY <1>1, <1>4, LinkStep DEF LinkNew, Again
<1>5. CASE ETicket(t) \/ EVal(t) \/ EIdx(t) \/ EHead(t)
  BY <1>1, <1>5 DEF ETicket, EVal, EIdx, EHead
<1>6. CASE ECas(t) \/ EOver(t) \/ EClose(t)
  BY <1>1, <1>6 DEF ECas, EOver, EClose, EnqueueReturns, Return
<1>7. CASE LHead(t) \/ LDReturnEmpty(t) \/ LDNext(t) \/ LDSwing(t)
  BY <1>1, <1>7 DEF LHead, LDReturnEmpty, LDNext, LDSwing, Return, Again
<1>8. CASE DTicket(t) \/ DVal(t) \/ DIdx(t) \/ DTail(t)
  BY <1>1, <1>8 DEF DTicket, DVal, DIdx, DTail
<1>9. CASE DTake(t) \/ DUnsafe(t) \/ DSkip(t)
  BY <1>1, <1>9 DEF DTake, DUnsafe, DSkip, Return, Reread
<1>10. CASE FHead(t) \/ FTail(t) \/ FTail2(t) \/ FCas(t)
  BY <1>1, <1>10 DEF FHead, FTail, FTail2, FCas
<1> QED
  BY <1>2, <1>3, <1>4, <1>5, <1>6, <1>7, <1>8, <1>9, <1>10 DEF Step, Enqueue, Dequeue

\* What a step does to the histories, apart from entered and out.
HistoryKept(t) ==
  /\ prior' = prior /\ known' = known
  /\ pc[t] \in DequeuePcs <=> pc'[t] \in DequeuePcs
CalledWith(t, x) ==
  /\ x \in unsent /\ prior' = [prior EXCEPT ![x] = entered] /\ known' = known
  /\ pc[t] = "idle" /\ pc'[t] = "lTail" /\ item'[t] = x /\ out' = out /\ entered' = entered
DequeueCalled(t) ==
  /\ prior' = prior /\ known' = [known EXCEPT ![t] = {x \in Items : out[x] > 0}]
  /\ pc[t] = "idle" /\ pc'[t] = "lHead"
DequeueDone(t) ==
  /\ prior' = prior /\ known' = [known EXCEPT ![t] = {}] /\ pc'[t] = "idle"

LEMMA HistoryStep ==
  ASSUME TypeOK, NEW t \in Threads, Step(t)
  PROVE  \/ HistoryKept(t) \/ DequeueCalled(t) \/ DequeueDone(t)
         \/ \E x \in Items : CalledWith(t, x)
<1>1. DOMAIN pc = Threads /\ DOMAIN item = Threads
  BY DEF TypeOK
<1> USE DEF Goto, queue, rings, locals, history, calls, EnqueuePcs, DequeuePcs
<1>2. CASE Call(t)
  BY <1>1, <1>2 DEF Call, CallDequeue, CallEnqueue, CalledWith, DequeueCalled
<1>3. CASE LTail(t) \/ LNext(t) \/ LHelp(t) \/ LSwing(t)
  BY <1>1, <1>3 DEF LTail, LNext, LHelp, LSwing, Again, EnqueueReturns, Return, HistoryKept
<1>4. CASE LLink(t)
  BY <1>1, <1>4, LinkStep DEF LinkNew, Again, HistoryKept
<1>5. CASE ETicket(t) \/ EVal(t) \/ EIdx(t) \/ EHead(t)
  BY <1>1, <1>5 DEF ETicket, EVal, EIdx, EHead, HistoryKept
<1>6. CASE ECas(t) \/ EOver(t) \/ EClose(t)
  BY <1>1, <1>6 DEF ECas, EOver, EClose, EnqueueReturns, Return, HistoryKept
<1>7. CASE LHead(t) \/ LDReturnEmpty(t) \/ LDNext(t) \/ LDSwing(t)
  BY <1>1, <1>7 DEF LHead, LDReturnEmpty, LDNext, LDSwing, Return, Again, HistoryKept, DequeueDone
<1>8. CASE DTicket(t) \/ DVal(t) \/ DIdx(t) \/ DTail(t)
  BY <1>1, <1>8 DEF DTicket, DVal, DIdx, DTail, HistoryKept
<1>9. CASE DTake(t)
  BY <1>1, <1>9 DEF DTake, Return, Reread, HistoryKept, DequeueDone
<1>10. CASE DUnsafe(t) \/ DSkip(t)
  BY <1>1, <1>10 DEF DUnsafe, DSkip, Reread, HistoryKept
<1>11. CASE FHead(t) \/ FTail(t) \/ FTail2(t) \/ FCas(t)
  BY <1>1, <1>11 DEF FHead, FTail, FTail2, FCas, HistoryKept
<1> QED
  BY <1>2, <1>3, <1>4, <1>5, <1>6, <1>7, <1>8, <1>9, <1>10, <1>11 DEF Step, Enqueue, Dequeue

\* Within a ring the turn of a call only goes forward.
LEMMA TurnForward ==
  ASSUME Basics, Reached, NEW t \in Threads, Step(t),
         NEW u \in Threads, crq[u] # 0, crq'[u] = crq[u]
  PROVE  Turn(u) \in Nat /\ Turn(u)' \in Nat /\ Turn(u) <= Turn(u)'
<1>1. TypeOK /\ TypeOK' /\ \A v \in Threads \ {t} : Same(v)
  BY BasicsStep, OthersSame DEF Basics
<1>2. crq[u] \in Rings /\ ticket[u] \in Nat /\ ticket'[u] \in Nat /\ Locals(u)
  BY <1>1 DEF Basics, TypeOK, RingOrNull
<1> DEFINE r == crq[u]
<1>3. /\ rhead[r] \in Nat /\ rhead'[r] \in Nat /\ rhead[r] <= rhead'[r]
      /\ rtail[r].t \in Nat /\ rtail'[r].t \in Nat /\ rtail[r].t <= rtail'[r].t
  BY <1>2, Forward
<1>4. /\ pc[u] \in EnqueuePcs \union DequeuePcs /\ pc'[u] \in EnqueuePcs \union DequeuePcs
      /\ pc[u] \in EnqueuePcs <=> pc'[u] \in EnqueuePcs
  <2>1. pc[u] # "idle" /\ pc[u] \in {"idle"} \union EnqueuePcs \union DequeuePcs
    BY <1>1, <1>2 DEF Locals, TypeOK
  <2>2. CASE u # t
    BY <1>1, <2>1, <2>2 DEF Same
  <2>3. CASE u = t
    <3>1. pc[t] \notin {"lTail", "lHead"}
      BY <1>2, <2>3 DEF Locals
    <3> QED
      BY <1>1, <1>2, <2>1, <2>3, <3>1, OwnRing
  <2> QED
    BY <2>2, <2>3
<1>5. /\ pc[u] \in PutPcs => ticket[u] < rtail[r].t
      /\ pc[u] \in TakePcs => ticket[u] < rhead[r]
  BY DEF Reached
<1>6. /\ EnqueuePcs \intersect DequeuePcs = {} /\ PutPcs \subseteq EnqueuePcs
      /\ TakePcs \subseteq DequeuePcs
  BY DEF EnqueuePcs, DequeuePcs, PutPcs, TakePcs, CellPcs
<1>7. /\ pc'[u] \in PutPcs => ticket'[u] = rtail[r].t \/ (pc[u] \in PutPcs /\ ticket'[u] = ticket[u])
      /\ pc'[u] \in TakePcs => ticket'[u] = rhead[r] \/ (pc[u] \in TakePcs /\ ticket'[u] = ticket[u])
  <2>1. CASE u # t
    BY <1>1, <2>1 DEF Same
  <2>2. CASE u = t
    BY <1>1, <2>2, TicketStep DEF TicketPut, TicketTake, TicketKept
  <2> QED
    BY <2>1, <2>2
<1>8. /\ pc[u] \in PutPcs \union TakePcs => Turn(u) = ticket[u]
      /\ pc[u] \in EnqueuePcs \ PutPcs => Turn(u) = rtail[r].t
      /\ pc[u] \in DequeuePcs \ TakePcs => Turn(u) = rhead[r]
  BY <1>6 DEF Turn
<1>9. /\ pc'[u] \in PutPcs \union TakePcs => Turn(u)' = ticket'[u]
      /\ pc'[u] \in EnqueuePcs \ PutPcs => Turn(u)' = rtail'[r].t
      /\ pc'[u] \in DequeuePcs \ TakePcs => Turn(u)' = rhead'[r]
  BY <1>6 DEF Turn
<1>10. CASE pc[u] \in EnqueuePcs
  <2>1. pc'[u] \in EnqueuePcs /\ Turn(u) \in Nat /\ Turn(u) <= rtail[r].t
    BY <1>2, <1>3, <1>4, <1>5, <1>8, <1>10
  <2>2. CASE pc'[u] \notin PutPcs
    BY <1>3, <1>9, <2>1, <2>2
  <2>3. CASE pc'[u] \in PutPcs
    <3>1. Turn(u)' = ticket'[u]
      BY <1>9, <2>3
    <3>2. CASE ticket'[u] = rtail[r].t
      BY <1>3, <2>1, <3>1, <3>2
    <3>3. CASE pc[u] \in PutPcs /\ ticket'[u] = ticket[u]
      BY <1>2, <1>8, <3>1, <3>3
    <3> QED
      BY <1>7, <2>3, <3>2, <3>3
  <2> QED
    BY <2>2, <2>3
<1>11. CASE pc[u] \in DequeuePcs
  <2>1. pc'[u] \in DequeuePcs /\ Turn(u) \in Nat /\ Turn(u) <= rhead[r]
    BY <1>2, <1>3, <1>4, <1>5, <1>6, <1>8, <1>11
  <2>2. CASE pc'[u] \notin TakePcs
    BY <1>3, <1>9, <2>1, <2>2
  <2>3. CASE pc'[u] \in TakePcs
    <3>1. Turn(u)' = ticket'[u]
      BY <1>9, <2>3
    <3>2. CASE ticket'[u] = rhead[r]
      BY <1>3, <2>1, <3>1, <3>2
    <3>3. CASE pc[u] \in TakePcs /\ ticket'[u] = ticket[u]
      BY <1>2, <1>8, <3>1, <3>3
    <3> QED
      BY <1>7, <2>3, <3>2, <3>3
  <2> QED
    BY <2>2, <2>3
<1> QED
  BY <1>4, <1>10, <1>11

LEMMA ReachedStep ==
  ASSUME Basics, Reached, NEW t \in Threads, Step(t)
  PROVE  Reached'
<1>1. TypeOK /\ TypeOK' /\ Locals(t) /\ \A v \in Threads \ {t} : Same(v)
  BY BasicsStep, OthersSame DEF Basics
<1>2. /\ qhead \in Nat /\ qhead' \in Nat /\ qhead <= qhead'
      /\ qtail \in Nat /\ qtail' \in Nat /\ qtail <= qtail'
  BY Forward
<1>3. \A r \in Rings : /\ rhead[r] \in Nat /\ rhead'[r] \in Nat /\ rhead[r] <= rhead'[r]
                       /\ rtail[r].t \in Nat /\ rtail'[r].t \in Nat /\ rtail[r].t <= rtail'[r].t
  BY Forward
<1> SUFFICES ASSUME NEW u \in Threads
             PROVE  /\ pc'[u] \in EnqueuePcs => crq'[u] <= qtail'
                    /\ pc'[u] \in DequeuePcs => crq'[u] <= qhead'
                    /\ pc'[u] \in PutPcs => ticket'[u] < rtail'[crq'[u]].t
                    /\ pc'[u] \in TakePcs => ticket'[u] < rhead'[crq'[u]]
  BY DEF Reached
<1>4. /\ crq[u] \in Nat /\ crq'[u] \in Nat /\ ticket[u] \in Nat /\ ticket'[u] \in Nat
      /\ crq[u] # 0 => crq[u] \in Rings
      /\ crq'[u] = 0 => pc'[u] \in {"idle", "lTail", "lHead"}
  <2>1. crq[u] \in RingOrNull /\ crq'[u] \in RingOrNull /\ ticket[u] \in Nat /\ ticket'[u] \in Nat
    BY <1>1 DEF TypeOK
  <2>2. \A r \in RingOrNull : r \in Nat /\ (r # 0 => r \in Rings)
    BY RingsAre DEF RingOrNull
  <2>3. crq'[u] = 0 => pc'[u] \in {"idle", "lTail", "lHead"}
    BY <1>1 DEF TypeOK
  <2> QED
    BY <2>1, <2>2, <2>3
<1>5. /\ EnqueuePcs \intersect DequeuePcs = {}
      /\ PutPcs \subseteq EnqueuePcs \ {"lTail"} /\ TakePcs \subseteq DequeuePcs \ {"lHead"}
  BY DEF EnqueuePcs, DequeuePcs, PutPcs, TakePcs, CellPcs
<1>6. /\ pc[u] \in EnqueuePcs => crq[u] <= qtail
      /\ pc[u] \in DequeuePcs => crq[u] <= qhead
      /\ pc[u] \in PutPcs => ticket[u] < rtail[crq[u]].t
      /\ pc[u] \in TakePcs => ticket[u] < rhead[crq[u]]
  BY DEF Reached
<1>7. CASE crq'[u] = 0
  <2>1. pc'[u] \notin PutPcs /\ pc'[u] \notin TakePcs
    BY <1>4, <1>5, <1>7 DEF PutPcs, TakePcs, CellPcs
  <2> QED
    BY <1>2, <1>7, <2>1
<1>8. CASE crq'[u] # 0 /\ u # t
  <2>1. pc'[u] = pc[u] /\ crq'[u] = crq[u] /\ ticket'[u] = ticket[u] /\ crq[u] \in Rings
    BY <1>1, <1>4, <1>8 DEF Same
  <2>2. crq[u] <= qtail => crq[u] <= qtail'
    BY <1>2, <1>4
  <2>3. crq[u] <= qhead => crq[u] <= qhead'
    BY <1>2, <1>4
  <2>4. /\ ticket[u] < rtail[crq[u]].t => ticket[u] < rtail'[crq[u]].t
        /\ ticket[u] < rhead[crq[u]] => ticket[u] < rhead'[crq[u]]
    <3>1. \A a, b, c \in Nat : a < b /\ b <= c => a < c
      OBVIOUS
    <3>2. /\ rhead[crq[u]] \in Nat /\ rhead'[crq[u]] \in Nat /\ rhead[crq[u]] <= rhead'[crq[u]]
          /\ rtail[crq[u]].t \in Nat /\ rtail'[crq[u]].t \in Nat /\ rtail[crq[u]].t <= rtail'[crq[u]].t
      BY <1>3, <2>1
    <3> QED
      BY <1>4, <3>1, <3>2
  <2> QED
    BY <1>6, <2>1, <2>2, <2>3, <2>4
<1>9. CASE crq'[u] # 0 /\ u = t
  <2>1. pc'[t] \in EnqueuePcs => crq'[t] <= qtail'
    <3> SUFFICES ASSUME pc'[t] \in EnqueuePcs PROVE crq'[t] <= qtail'
      OBVIOUS
    <3>1. crq'[t] <= qtail
      <4>1. \/ crq'[t] = crq[t] /\ pc[t] \in EnqueuePcs
            \/ crq'[t] = qtail
        BY <1>1, <1>5, <1>9, OwnRing DEF EnqueuePcs
      <4> QED
        BY <1>2, <1>6, <1>9, <4>1
    <3> QED
      BY <1>2, <1>4, <1>9, <3>1
  <2>2. pc'[t] \in DequeuePcs => crq'[t] <= qhead'
    <3> SUFFICES ASSUME pc'[t] \in DequeuePcs PROVE crq'[t] <= qhead'
      OBVIOUS
    <3>1. crq'[t] <= qhead
      <4>1. \/ crq'[t] = crq[t] /\ pc[t] \in DequeuePcs
            \/ crq'[t] = qhead
        BY <1>1, <1>5, <1>9, OwnRing DEF DequeuePcs
      <4> QED
        BY <1>2, <1>6, <1>9, <4>1
    <3> QED
      BY <1>2, <1>4, <1>9, <3>1
  <2>3. \A a, b, c \in Nat : a < b /\ b <= c => a < c
    OBVIOUS
  <2>4. pc'[t] \in PutPcs => ticket'[t] < rtail'[crq'[t]].t
    <3> SUFFICES ASSUME pc'[t] \in PutPcs PROVE ticket'[t] < rtail'[crq'[t]].t
      OBVIOUS
    <3>1. CASE TicketPut(t)
      <4>1. crq'[t] = crq[t] /\ ticket'[t] = rtail[crq[t]].t /\ rtail'[crq[t]].t = rtail[crq[t]].t + 1
            /\ crq[t] \in Rings
        BY <3>1 DEF TicketPut
      <4>2. rtail[crq[t]].t \in Nat
        BY <1>3, <4>1
      <4> QED
        BY <4>1, <4>2
    <3>2. CASE pc[t] \in PutPcs /\ TicketKept(t)
      <4>1. crq'[t] = crq[t] /\ ticket'[t] = ticket[t] /\ ticket[t] < rtail[crq[t]].t
        BY <1>6, <1>9, <3>2 DEF TicketKept
      <4>2. /\ rtail[crq[t]].t \in Nat /\ rtail'[crq[t]].t \in Nat
            /\ rtail[crq[t]].t <= rtail'[crq[t]].t /\ ticket[t] \in Nat
        BY <1>3, <1>4, <1>9, <4>1
      <4> QED
        BY <2>3, <4>1, <4>2
    <3> QED
      BY <1>1, <3>1, <3>2, TicketStep
  <2>5. pc'[t] \in TakePcs => ticket'[t] < rhead'[crq'[t]]
    <3> SUFFICES ASSUME pc'[t] \in TakePcs PROVE ticket'[t] < rhead'[crq'[t]]
      OBVIOUS
    <3>1. CASE TicketTake(t)
      <4>1. crq'[t] = crq[t] /\ ticket'[t] = rhead[crq[t]] /\ rhead'[crq[t]] = rhead[crq[t]] + 1
            /\ crq[t] \in Rings
        BY <3>1 DEF TicketTake
      <4>2. rhead[crq[t]] \in Nat
        BY <1>3, <4>1
      <4> QED
        BY <4>1, <4>2
    <3>2. CASE pc[t] \in TakePcs /\ TicketKept(t)
      <4>1. crq'[t] = crq[t] /\ ticket'[t] = ticket[t] /\ ticket[t] < rhead[crq[t]]
        BY <1>6, <1>9, <3>2 DEF TicketKept
      <4>2. /\ rhead[crq[t]] \in Nat /\ rhead'[crq[t]] \in Nat
            /\ rhead[crq[t]] <= rhead'[crq[t]] /\ ticket[t] \in Nat
        BY <1>3, <1>4, <1>9, <4>1
      <4> QED
        BY <2>3, <4>1, <4>2
    <3> QED
      BY <1>1, <3>1, <3>2, TicketStep
  <2> QED
    BY <1>9, <2>1, <2>2, <2>4, <2>5
<1> QED
  BY <1>7, <1>8, <1>9

\* An item in a cell after the step was there before, or is that of the enqueue that
\* makes the step and was nowhere.
Stays(r, i) == cell[r][i].val = cell'[r][i].val /\ cell[r][i].idx = cell'[r][i].idx
PutNow(t, r, i) ==
  /\ Pending(t) /\ cell'[r][i].val = item[t] /\ item[t] \notin Sent /\ crq[t] \in Rings
  /\ \/ Puts(t) /\ r = crq[t] /\ cell'[r][i].idx = ticket[t]
     \/ LinkNew(t) /\ r = crq[t] + 1 /\ cell'[r][i].idx = 0

LEMMA ItemFrom ==
  ASSUME Basics, NEW t \in Threads, Step(t), NEW r \in Rings, NEW i \in Cells,
         cell'[r][i].val # Null
  PROVE  Stays(r, i) \/ PutNow(t, r, i)
<1>1. TypeOK /\ (\A u \in Threads : Locals(u)) /\ Owned /\ List
  BY DEF Basics
<1>2. CASE Puts(t) /\ r = crq[t] /\ i = Slot(ticket[t]) /\ cell'[r][i].idx = ticket[t]
  <2>1. cell'[r][i] = Cell(TRUE, ticket[t], item[t]) /\ pc[t] = "eCas" /\ pc'[t] = "idle"
    BY <1>2, OwnCell DEF Puts, Leaves
  <2>2. cell'[r][i].val = item[t]
    BY <2>1 DEF Cell
  <2>3. Pending(t) /\ item[t] \notin Sent
    BY <1>1, <2>1, SentIs DEF Pending, EnqueuePcs
  <2> QED
    BY <1>2, <2>2, <2>3 DEF PutNow
<1>3. CASE LinkNew(t) /\ r = crq[t] + 1 /\ i = 0 /\ cell'[r][i].idx = 0
  <2>1. cell'[r][i] = Cell(TRUE, 0, item[t]) /\ crq[t] \in Rings
    BY <1>1, <1>3, LinkedRing
  <2>2. cell'[r][i].val = item[t]
    BY <2>1 DEF Cell
  <2>3. Pending(t) /\ item[t] \notin Sent
    BY <1>1, <1>3, SentIs DEF Pending, EnqueuePcs, LinkNew
  <2> QED
    BY <1>3, <2>1, <2>2, <2>3 DEF PutNow
<1> QED
  BY <1>2, <1>3, ItemComes DEF Stays

\* What has entered has been sent, and so has what is in a cell.
LEMMA SentFacts ==
  ASSUME Basics, Once
  PROVE  /\ entered \subseteq Sent
         /\ \A r \in Rings, i \in Cells : cell[r][i].val \in Items => cell[r][i].val \in Sent
         /\ \A x \in Items : out[x] # 0 => x \in Sent
<1>1. entered \subseteq Items /\ entered \intersect unsent = {}
      /\ \A u \in Threads : Pending(u) => item[u] \notin entered
  BY DEF Basics, Owned, TypeOK, Pending
<1>2. entered \subseteq Sent
  BY <1>1 DEF Sent
<1> QED
  BY <1>2 DEF Once, In

\* The compare-and-swap of _tail at the end of an enqueue leaves it behind crq.
LEMMA SwingStep ==
  ASSUME Basics, Reached, NEW t \in Threads, Step(t), pc[t] = "lSwing"
  PROVE  crq[t] + 1 <= qtail'
<1>1. TypeOK /\ List /\ qtail \in Nat
  BY RingsAre DEF Basics, TypeOK
<1>2. crq[t] \in Rings /\ crq[t] \in Nat
  BY <1>1, RingsAre DEF TypeOK, RingOrNull
<1>3. next[crq[t]] = crq[t] + 1
  BY <1>1, <1>2 DEF List
<1>4. crq[t] <= qtail
  BY DEF Reached, EnqueuePcs
<1>5. qtail' = IF qtail = crq[t] THEN next[crq[t]] ELSE qtail
  <2> USE DEF Goto
  <2>1. ~Call(t)
    BY DEF Call, CallDequeue, CallEnqueue
  <2>2. ~Dequeue(t)
    BY DEF Dequeue, LHead, LDReturnEmpty, LDNext, LDSwing, DTicket, DVal, DIdx, DTake,
           DUnsafe, DSkip, DTail, FHead, FTail, FTail2, FCas, Return, Again, Reread
  <2>3. LSwing(t)
    BY <2>1, <2>2 DEF Step, Enqueue, LTail, LNext, LHelp, LLink, ETicket, EVal, EIdx, EHead, ECas,
                      EOver, EClose, Again, EnqueueReturns, Return
  <2> QED
    BY <2>3 DEF LSwing, CasTail
<1> QED
  BY <1>1, <1>2, <1>3, <1>4, <1>5

LEMMA DrawnStep ==
  ASSUME Basics, Once, Reached, Drawn, NEW t \in Threads, Step(t)
  PROVE  Drawn'
<1>1. TypeOK /\ TypeOK' /\ (\A u \in Threads : Locals(u)) /\ Locals(t) /\ Owned /\ List
      /\ \A v \in Threads \ {t} : Same(v)
  BY BasicsStep, OthersSame DEF Basics
<1> SUFFICES ASSUME NEW r \in Rings, NEW i \in Cells, cell'[r][i].val # Null
             PROVE  /\ cell'[r][i].idx < rtail'[r].t
                    /\ cell'[r][i].val \in entered' => r <= qtail'
                    /\ \A u \in Threads : pc'[u] = "lSwing" /\ item'[u] = cell'[r][i].val =>
                         r <= crq'[u] + 1
  BY DEF Drawn
<1>2. /\ r \in Nat /\ qtail \in Nat /\ qtail' \in Nat /\ qtail <= qtail'
      /\ rtail[r].t \in Nat /\ rtail'[r].t \in Nat /\ rtail[r].t <= rtail'[r].t
  BY Forward, RingsAre
<1>3. cell[r][i].idx \in Nat /\ cell'[r][i].val \in Items
  <2>1. cell'[r][i] \in CellType
    BY <1>1 DEF TypeOK
  <2> QED
    BY <1>1, <2>1, CellFields DEF CellType
<1>4. pc'[t] = "lSwing" => LinkNew(t) /\ item'[t] = item[t]
  BY <1>1, ItemStep DEF ItemKept, ItemTaken, ItemEntered
<1>5. CASE Stays(r, i)
  <2>1. cell[r][i].val = cell'[r][i].val /\ cell[r][i].idx = cell'[r][i].idx /\ cell[r][i].val \in Sent
    BY <1>3, <1>5, SentFacts DEF Stays
  <2>2. /\ cell[r][i].idx < rtail[r].t
        /\ cell[r][i].val \in entered => r <= qtail
        /\ \A u \in Threads : pc[u] = "lSwing" /\ item[u] = cell[r][i].val => r <= crq[u] + 1
    BY <1>3, <2>1 DEF Drawn
  <2>3. cell'[r][i].idx < rtail'[r].t
    BY <1>2, <1>3, <2>1, <2>2
  <2>4. cell'[r][i].val \in entered' => r <= qtail'
    <3>1. CASE cell[r][i].val \in entered
      BY <1>2, <2>2, <3>1
    <3>2. CASE ItemEntered(t) /\ cell[r][i].val = item[t]
      <4>1. CASE pc[t] = "lSwing"
        <5>1. r <= crq[t] + 1 /\ crq[t] + 1 <= qtail'
          BY <2>2, <3>2, <4>1, SwingStep
        <5>2. crq[t] \in Nat
          BY <1>1, <4>1, RingsAre DEF TypeOK, RingOrNull
        <5> QED
          BY <1>2, <5>1, <5>2
      <4>2. CASE pc[t] = "eCas"
        BY <1>1, <2>1, <3>2, <4>2, SentIs DEF ItemEntered
      <4> QED
        BY <3>2, <4>1, <4>2 DEF ItemEntered
    <3> QED
      BY <1>1, <2>1, <3>1, <3>2, ItemStep DEF ItemKept, ItemTaken, ItemEntered
  <2>5. ASSUME NEW u \in Threads, pc'[u] = "lSwing", item'[u] = cell'[r][i].val
        PROVE  r <= crq'[u] + 1
    <3>1. CASE u # t
      BY <1>1, <2>1, <2>2, <2>5, <3>1 DEF Same
    <3>2. CASE u = t
      BY <1>1, <1>4, <2>1, <2>5, <3>2, SentIs
    <3> QED
      BY <3>1, <3>2
  <2> QED
    BY <2>3, <2>4, <2>5
<1>6. CASE PutNow(t, r, i)
  <2>1. /\ Pending(t) /\ cell'[r][i].val = item[t] /\ crq[t] \in Rings /\ pc[t] \in EnqueuePcs
    BY <1>6 DEF PutNow, Pending
  <2>2. \A u \in Threads \ {t} : pc'[u] = "lSwing" => item'[u] # item[t]
    <3>1. \A u \in Threads \ {t} : pc[u] = "lSwing" => item[u] # item[t]
      BY <1>1, <2>1 DEF Owned, EnqueuePcs
    <3> QED
      BY <1>1, <3>1 DEF Same
  <2>3. CASE Puts(t) /\ r = crq[t] /\ cell'[r][i].idx = ticket[t]
    <3>1. pc[t] = "eCas" /\ pc'[t] = "idle" /\ ticket[t] \in Nat
      BY <1>1, <2>3 DEF Puts, Leaves, TypeOK
    <3>2. ticket[t] < rtail[r].t /\ r <= qtail
      BY <2>3, <3>1 DEF Reached, PutPcs, EnqueuePcs
    <3>3. ticket[t] < rtail'[r].t /\ r <= qtail'
      BY <1>2, <3>1, <3>2
    <3> QED
      BY <2>1, <2>2, <2>3, <3>1, <3>3
  <2>4. CASE LinkNew(t) /\ r = crq[t] + 1 /\ cell'[r][i].idx = 0
    <3>1. rtail'[r] = Word(1, FALSE) /\ entered' = entered /\ crq' = crq /\ item' = item
      BY <1>1, <2>4, LinkedRing DEF LinkNew, calls, history, locals
    <3>2. 0 < rtail'[r].t
      BY <3>1 DEF Word
    <3>3. item[t] \notin entered
      BY <1>1, <2>1 DEF Owned
    <3>4. r <= r
      BY <1>2
    <3> QED
      BY <2>1, <2>2, <2>4, <3>1, <3>2, <3>3, <3>4
  <2> QED
    BY <1>6, <2>3, <2>4 DEF PutNow
<1> QED
  BY <1>5, <1>6, ItemFrom

\* An item that has come out stays out, and one comes out only by being taken.
LEMMA OutStep ==
  ASSUME Basics, Once, NEW t \in Threads, Step(t), NEW x \in Items
  PROVE  /\ out[x] # 0 => out'[x] # 0
         /\ out'[x] # 0 => out[x] # 0 \/ (Takes(t) /\ word[t].val = x)
<1>1. TypeOK /\ (\A u \in Threads : Locals(u)) /\ Owned /\ List
  BY DEF Basics
<1>2. out \in [Items -> Nat] /\ out[x] \in Nat
  BY <1>1 DEF TypeOK
<1>3. out' = out \/ (Takes(t) /\ out' = [out EXCEPT ![word[t].val] = @ + 1])
  BY <1>1, CellStep DEF CellsKept, Puts, Takes, Skips, Spoils, LinkNew, calls, history
<1>4. CASE out' = out
  BY <1>4
<1>5. CASE Takes(t) /\ out' = [out EXCEPT ![word[t].val] = @ + 1]
  <2>1. out'[x] = IF word[t].val = x THEN out[x] + 1 ELSE out[x]
    BY <1>2, <1>5
  <2> QED
    BY <1>2, <1>5, <2>1
<1> QED
  BY <1>3, <1>4, <1>5

LEMMA RememberedStep ==
  ASSUME Basics, Once, Remembered, NEW t \in Threads, Step(t)
  PROVE  Remembered'
<1>1. TypeOK /\ Locals(t) /\ \A v \in Threads \ {t} : Same(v)
  BY OthersSame DEF Basics
<1>2. /\ prior \in [Items -> SUBSET Items] /\ known \in [Threads -> SUBSET Items]
      /\ out \in [Items -> Nat]
  BY <1>1 DEF TypeOK
<1>3. entered \subseteq entered'
  BY <1>1, ItemStep DEF ItemKept, ItemTaken, ItemEntered
<1>4. \A x \in Items : out[x] # 0 => out'[x] # 0
  BY OutStep
<1>5. \A x \in Items : prior'[x] = prior[x] \/ prior'[x] = entered
  BY <1>1, <1>2, HistoryStep DEF HistoryKept, DequeueCalled, DequeueDone, CalledWith
<1>6. \A x \in Items : prior'[x] \subseteq entered'
  BY <1>3, <1>5 DEF Remembered
<1>7. ASSUME NEW u \in Threads
      PROVE  /\ \A x \in known'[u] : out'[x] # 0
             /\ pc'[u] \notin DequeuePcs => known'[u] = {}
  <2>1. /\ \A x \in known[u] : out[x] # 0 /\ x \in Items
        /\ pc[u] \notin DequeuePcs => known[u] = {}
    BY <1>2 DEF Remembered
  <2>2. CASE u # t
    <3>1. known'[u] = known[u] /\ pc'[u] = pc[u]
      BY <1>1, <2>2 DEF Same
    <3> QED
      BY <1>4, <2>1, <3>1
  <2>3. CASE u = t
    <3>1. CASE HistoryKept(t)
      BY <1>4, <2>1, <2>3, <3>1 DEF HistoryKept
    <3>2. CASE DequeueCalled(t)
      <4>1. known'[u] = {x \in Items : out[x] > 0} /\ pc'[u] \in DequeuePcs
        BY <1>2, <2>3, <3>2 DEF DequeueCalled, DequeuePcs
      <4>2. \A x \in Items : out[x] > 0 => out[x] # 0
        BY <1>2
      <4> QED
        BY <1>4, <4>1, <4>2
    <3>3. CASE DequeueDone(t)
      BY <1>2, <2>3, <3>3 DEF DequeueDone
    <3>4. CASE \E x \in Items : CalledWith(t, x)
      <4>1. known' = known /\ pc[t] \notin DequeuePcs
        BY <3>4 DEF CalledWith, DequeuePcs
      <4> QED
        BY <2>1, <2>3, <4>1
    <3> QED
      BY <1>1, <3>1, <3>2, <3>3, <3>4, HistoryStep
  <2> QED
    BY <2>2, <2>3
<1> QED
  BY <1>6, <1>7 DEF Remembered

LEMMA AheadMore ==
  ASSUME NEW r \in Nat, NEW k \in Nat, NEW s \in Nat, NEW j \in Nat,
         NEW q \in Nat, NEW l \in Nat, Ahead(r, k, s, j), s < q \/ (s = q /\ j <= l)
  PROVE  Ahead(r, k, q, l)
BY DEF Ahead

\* The enqueue of y begins: y is nowhere yet.
LEMMA NotBehind ==
  ASSUME Basics, Once, Remembered, NEW t \in Threads, Step(t),
         NEW y \in Items, CalledWith(t, y), NEW r, NEW k
  PROVE  AheadOf(r, k, y)'
<1>1. TypeOK /\ Locals(t) /\ Owned /\ \A v \in Threads \ {t} : Same(v)
  BY OthersSame DEF Basics
<1>2. y \notin Sent /\ y \in unsent
  BY DEF CalledWith, Sent
<1>3. out[y] = 0 /\ ~In(y) /\ \A v \in Threads : y \notin known[v]
  <2>1. out[y] = 0 /\ ~In(y)
    BY <1>2 DEF Once
  <2> QED
    BY <2>1 DEF Remembered
<1>4. out' = out /\ known' = known /\ pc'[t] = "lTail" /\ pc[t] = "idle"
  BY DEF CalledWith
<1>5. crq'[t] = 0
  <2>1. Locals(t)'
    BY BasicsStep DEF Basics
  <2> QED
    BY <1>4, <2>1 DEF Locals
<1>6. \A s \in Rings, j \in Cells : cell'[s][j].val # y
  <2>1. CellsKept(t)
    BY <1>4, CellStep DEF Basics, LinkNew, Puts, Takes, Skips, Spoils, Leaves, Passes
  <2>2. \A s \in Rings, j \in Cells : cell'[s][j] = cell[s][j]
    BY <2>1 DEF CellsKept
  <2> QED
    BY <1>3, <2>2 DEF In
<1>7. \A u \in Threads : crq'[u] # 0 => ~(Pending(u)' /\ item'[u] = y) /\ y \notin known'[u]
  <2> SUFFICES ASSUME NEW u \in Threads, crq'[u] # 0
               PROVE  ~(Pending(u)' /\ item'[u] = y) /\ y \notin known'[u]
    OBVIOUS
  <2>1. pc'[u] = pc[u] /\ item'[u] = item[u] /\ known'[u] = known[u]
    BY <1>1, <1>5 DEF Same
  <2> QED
    BY <1>1, <1>2, <1>3, <2>1 DEF Pending, Owned
<1> QED
  BY <1>3, <1>4, <1>6, <1>7 DEF AheadOf

\* What is ahead of an item stays ahead of it.
LEMMA AheadStep ==
  ASSUME Basics, Once, Reached, Remembered, NEW t \in Threads, Step(t),
         NEW r \in Rings, NEW k \in Nat, NEW y \in Items,
         k < rtail[r].t, r <= qtail, AheadOf(r, k, y)
  PROVE  AheadOf(r, k, y)'
<1>1. TypeOK /\ TypeOK' /\ Locals(t) /\ Locals(t)' /\ \A v \in Threads \ {t} : Same(v)
  BY BasicsStep, OthersSame DEF Basics
<1>2. /\ qhead \in Rings /\ qhead' \in Rings /\ qtail \in Rings /\ r \in Nat
      /\ \A s \in RingOrNull : s \in Nat /\ (s # 0 => s \in Rings)
  BY <1>1, RingsAre DEF TypeOK, RingOrNull
<1>3. /\ qhead \in Nat /\ qhead' \in Nat /\ qhead <= qhead' /\ qtail \in Nat
      /\ \A s \in Rings : rhead[s] \in Nat /\ rhead'[s] \in Nat /\ rhead[s] <= rhead'[s]
      /\ \A s \in Rings : rtail[s].t \in Nat /\ rtail'[s].t \in Nat
  BY Forward
<1>4. /\ \A s \in Rings, j \in Cells : cell[s][j].val = y => Ahead(r, k, s, cell[s][j].idx)
      /\ out[y] # 0 => Ahead(r, k, qhead, rhead[qhead])
      /\ \A u \in Threads : crq[u] # 0 /\ ((Pending(u) /\ item[u] = y) \/ y \in known[u]) =>
           Ahead(r, k, crq[u], Turn(u))
  BY DEF AheadOf
<1>5. ASSUME NEW s \in Rings, NEW j \in Cells, cell'[s][j].val = y
      PROVE  Ahead(r, k, s, cell'[s][j].idx)
  <2>1. CASE Stays(s, j)
    BY <1>4, <1>5, <2>1 DEF Stays
  <2>2. CASE PutNow(t, s, j)
    <3>1. /\ Pending(t) /\ item[t] = y /\ crq[t] \in Rings
      BY <1>5, <2>2 DEF PutNow
    <3>2. crq[t] # 0 /\ crq[t] \in Nat
      BY <3>1, RingsAre
    <3>3. Ahead(r, k, crq[t], Turn(t))
      BY <1>4, <3>1, <3>2
    <3>4. CASE Puts(t) /\ s = crq[t] /\ cell'[s][j].idx = ticket[t]
      <4>1. Turn(t) = ticket[t]
        BY <3>4 DEF Puts, Leaves, Turn, PutPcs
      <4> QED
        BY <3>3, <3>4, <4>1
    <3>5. CASE LinkNew(t) /\ s = crq[t] + 1 /\ cell'[s][j].idx = 0
      BY <1>2, <3>2, <3>3, <3>5 DEF Ahead
    <3> QED
      BY <2>2, <3>4, <3>5 DEF PutNow
  <2> QED
    BY <1>5, <2>1, <2>2, ItemFrom
<1>6. Ahead(r, k, qhead, rhead[qhead]) => Ahead(r, k, qhead', rhead'[qhead'])
  <2>1. qhead < qhead' \/ (qhead = qhead' /\ rhead[qhead] <= rhead'[qhead'])
    <3>1. qhead < qhead' \/ qhead = qhead'
      BY <1>3
    <3> QED
      BY <1>2, <1>3, <3>1
  <2>2. rhead[qhead] \in Nat /\ rhead'[qhead'] \in Nat
    BY <1>2, <1>3
  <2> QED
    BY <1>2, <1>3, <2>1, <2>2, AheadMore
<1>7. ASSUME out'[y] # 0 PROVE Ahead(r, k, qhead', rhead'[qhead'])
  <2>1. CASE out[y] # 0
    BY <1>4, <1>6, <2>1
  <2>2. CASE Takes(t) /\ word[t].val = y
    <3>1. /\ crq[t] \in Rings /\ pc[t] = "dTake" /\ At(t) = word[t] /\ word[t].idx = ticket[t]
          /\ At(t) = cell[crq[t]][Slot(ticket[t])] /\ Slot(ticket[t]) \in Cells /\ ticket[t] \in Nat
      BY <1>1, <2>2, OwnCell DEF Takes, Leaves, Locals
    <3>2. Ahead(r, k, crq[t], ticket[t])
      BY <1>4, <2>2, <3>1
    <3>3. crq[t] <= qhead /\ ticket[t] < rhead[crq[t]]
      BY <3>1 DEF Reached, DequeuePcs, TakePcs, CellPcs
    <3>4. crq[t] \in Nat /\ rhead[crq[t]] \in Nat /\ rhead[qhead] \in Nat
      BY <1>2, <1>3, <3>1, RingsAre
    <3>5. crq[t] < qhead \/ (crq[t] = qhead /\ ticket[t] <= rhead[qhead])
      <4>1. crq[t] < qhead \/ crq[t] = qhead
        BY <1>3, <3>3, <3>4
      <4>2. ticket[t] <= rhead[crq[t]]
        BY <3>1, <3>3, <3>4
      <4> QED
        BY <4>1, <4>2
    <3>6. Ahead(r, k, qhead, rhead[qhead])
      BY <1>2, <1>3, <3>1, <3>2, <3>4, <3>5, AheadMore
    <3> QED
      BY <1>6, <3>6
  <2> QED
    BY <1>7, <2>1, <2>2, OutStep
<1>8. ASSUME NEW u \in Threads, crq'[u] # 0,
             (Pending(u)' /\ item'[u] = y) \/ y \in known'[u]
      PROVE  Ahead(r, k, crq'[u], Turn(u)')
  <2>1. CASE crq'[u] = crq[u]
    <3>1. crq[u] \in Rings /\ crq[u] \in Nat
      BY <1>1, <1>2, <1>8, <2>1 DEF TypeOK
    <3>2. (Pending(u) /\ item[u] = y) \/ y \in known[u]
      <4>1. CASE u # t
        BY <1>1, <1>8, <4>1 DEF Same, Pending
      <4>2. CASE u = t
        <5>1. pc'[t] \notin {"idle", "lTail", "lHead"}
          BY <1>1, <1>8, <4>2 DEF Locals
        <5>2. Pending(t)' /\ item'[t] = y => Pending(t) /\ item[t] = y
          BY <1>1, <5>1, ItemStep DEF ItemKept, ItemTaken, ItemEntered, Pending, LinkNew
        <5>3. known'[t] = known[t]
          BY <1>1, <5>1, HistoryStep DEF HistoryKept, DequeueCalled, DequeueDone, CalledWith
        <5> QED
          BY <1>8, <4>2, <5>2, <5>3
      <4> QED
        BY <4>1, <4>2
    <3>3. Ahead(r, k, crq[u], Turn(u))
      BY <1>4, <1>8, <2>1, <3>2
    <3>4. Turn(u) \in Nat /\ Turn(u)' \in Nat /\ Turn(u) <= Turn(u)'
      BY <1>8, <2>1, TurnForward
    <3> QED
      BY <1>2, <2>1, <3>1, <3>3, <3>4, AheadMore
  <2>2. CASE u = t /\ pc[t] = "lTail" /\ pc'[t] = "lNext" /\ crq'[t] = qtail /\ rtail' = rtail
    <3>1. Turn(t)' = rtail[qtail].t
      BY <2>2 DEF Turn, PutPcs, TakePcs, CellPcs, EnqueuePcs
    <3>2. rtail[qtail].t \in Nat
      BY <1>2, <1>3
    <3>3. r < qtail \/ r = qtail
      BY <1>2, <1>3
    <3> QED
      BY <2>2, <3>1, <3>3 DEF Ahead
  <2>3. CASE u = t /\ pc[t] = "lHead" /\ pc'[t] = "dTicket" /\ crq'[t] = qhead /\ rhead' = rhead
    <3>1. Turn(t)' = rhead[qhead]
      BY <2>3 DEF Turn, PutPcs, TakePcs, CellPcs, EnqueuePcs
    <3>2. ~Pending(t)' /\ pc[t] # "idle"
      BY <2>3 DEF Pending, EnqueuePcs
    <3>3. y \in known[t]
      <4>1. known'[t] = known[t]
        BY <1>1, <2>3, HistoryStep DEF HistoryKept, DequeueCalled, DequeueDone, CalledWith
      <4> QED
        BY <1>8, <2>3, <3>2, <4>1
    <3>4. out[y] # 0
      BY <3>3 DEF Remembered
    <3> QED
      BY <1>4, <2>3, <3>1, <3>4
  <2>4. u # t => crq'[u] = crq[u]
    BY <1>1 DEF Same
  <2> QED
    BY <1>1, <1>8, <2>1, <2>2, <2>3, <2>4, OwnRing
<1> QED
  BY <1>5, <1>7, <1>8 DEF AheadOf

LEMMA InOrderStep ==
  ASSUME Basics, Once, Order, NEW t \in Threads, Step(t)
  PROVE  InOrder'
<1>1. TypeOK /\ TypeOK' /\ Reached /\ Drawn /\ Remembered /\ InOrder
  BY BasicsStep DEF Basics, Order
<1> SUFFICES ASSUME NEW r \in Rings, NEW i \in Cells, NEW y \in Items,
                    cell'[r][i].val \in prior'[y],
                    NEW k \in Nat, k = cell'[r][i].idx
             PROVE  AheadOf(r, k, y)'
  <2>1. \A r \in Rings, i \in Cells : cell'[r][i].idx \in Nat
    <3>1. \A r \in Rings, i \in Cells : cell'[r][i] \in CellType
      BY <1>1 DEF TypeOK
    <3> QED
      BY <3>1 DEF CellType
  <2> QED
    BY <2>1 DEF InOrder, AheadOf, Ahead
<1>2. prior \in [Items -> SUBSET Items] /\ prior' \in [Items -> SUBSET Items]
  BY <1>1 DEF TypeOK
<1>3. CASE CalledWith(t, y)
  BY <1>1, <1>3, NotBehind
<1>4. CASE ~CalledWith(t, y)
  <2>1. prior'[y] = prior[y]
    BY <1>1, <1>2, <1>4, HistoryStep DEF HistoryKept, DequeueCalled, DequeueDone, CalledWith
  <2>2. cell'[r][i].val \in entered /\ cell'[r][i].val \in Sent /\ cell'[r][i].val # Null
    <3>1. cell'[r][i].val \in Items
      BY <1>2
    <3> QED
      BY <1>1, <2>1, <3>1, SentFacts DEF Remembered
  <2>3. cell[r][i].val = cell'[r][i].val /\ cell[r][i].idx = k
    BY <2>2, ItemFrom DEF Stays, PutNow
  <2>4. k < rtail[r].t /\ r <= qtail
    BY <1>1, <2>2, <2>3 DEF Drawn
  <2>5. AheadOf(r, k, y)
    BY <1>1, <2>1, <2>3 DEF InOrder
  <2> QED
    BY <1>1, <2>4, <2>5, AheadStep
<1> QED
  BY <1>3, <1>4

LEMMA OrderStep ==
  ASSUME Basics, Once, Order, NEW t \in Threads, Step(t)
  PROVE  Order'
<1>1. Reached /\ Drawn /\ Remembered
  BY DEF Order
<1>2. Reached' /\ Drawn' /\ Remembered'
  BY <1>1, ReachedStep, DrawnStep, RememberedStep
<1>3. InOrder'
  BY InOrderStep
<1> QED
  BY <1>2, <1>3 DEF Order

LEMMA OrderQuiet ==
  ASSUME Basics, Order, Destroy \/ Finished \/ UNCHANGED vars
  PROVE  Order'
<1>1. UNCHANGED <<queue, pc, locals, calls>>
  BY QuietStep DEF Basics
<1>2. /\ qhead' = qhead /\ qtail' = qtail /\ rhead' = rhead /\ rtail' = rtail /\ cell' = cell
      /\ pc' = pc /\ item' = item /\ crq' = crq /\ ticket' = ticket
      /\ entered' = entered /\ prior' = prior /\ out' = out /\ known' = known
  BY <1>1 DEF queue, rings, locals, calls, history
<1>3. \A t \in Threads : Turn(t)' = Turn(t) /\ (Pending(t)' <=> Pending(t))
  BY <1>2 DEF Turn, Pending
<1>4. Reached' /\ Drawn' /\ Remembered'
  BY <1>2 DEF Order, Reached, Drawn, Remembered
<1>5. InOrder'
  BY <1>2, <1>3 DEF Order, InOrder, AheadOf, Ahead
<1> QED
  BY <1>4, <1>5 DEF Order

LEMMA OrderInit == Init => Order
<1> SUFFICES ASSUME Init PROVE Order
  OBVIOUS
<1>1. \A t \in Threads : pc[t] = "idle" /\ known[t] = {}
  BY DEF Init
<1>2. \A x \in Items : prior[x] = {}
  BY DEF Init
<1>3. \A r \in Rings, i \in Cells : cell[r][i].val = Null
  <2>1. \A r \in Rings : cell[r] = NewCells
    BY DEF Init
  <2>2. \A i \in Cells : NewCells[i] = Cell(TRUE, i, Null)
    BY DEF NewCells
  <2>3. \A i \in Cells : Cell(TRUE, i, Null).val = Null
    BY DEF Cell
  <2> QED
    BY <2>1, <2>2, <2>3
<1>4. Reached
  BY <1>1 DEF Reached, EnqueuePcs, DequeuePcs, PutPcs, TakePcs, CellPcs
<1>5. Drawn /\ Remembered /\ InOrder
  BY <1>1, <1>2, <1>3 DEF Drawn, Remembered, InOrder
<1> QED
  BY <1>4, <1>5 DEF Order

\* A dequeue takes nothing that should have come out before what it knows.
LEMMA TakesInOrder ==
  ASSUME Basics, Order, NEW t \in Threads, Step(t), NEW u \in Threads,
         pc[u] = "dTake", pc'[u] = "idle", NEW y \in known[u]
  PROVE  word[u].val \notin prior[y]
<1>1. TypeOK /\ (\A v \in Threads \ {t} : Same(v)) /\ y \in Items
  BY OthersSame DEF Basics, TypeOK
<1>2. u = t
  BY <1>1 DEF Same
<1>3. Takes(t)
  BY <1>2, CellStep DEF Basics, CellsKept, CellPcs, LinkNew, Puts, Skips, Spoils, Leaves, Passes
<1>4. /\ crq[t] \in Rings /\ At(t) = word[t] /\ Slot(ticket[t]) \in Cells /\ ticket[t] \in Nat
      /\ At(t) = cell[crq[t]][Slot(ticket[t])] /\ word[t].idx = ticket[t]
  BY <1>2, <1>3, OwnCell DEF Takes, Leaves, Locals
<1> SUFFICES ASSUME word[t].val \in prior[y] PROVE FALSE
  BY <1>2
<1>5. AheadOf(crq[t], ticket[t], y)
  BY <1>1, <1>4 DEF Order, InOrder
<1>6. crq[t] # 0 /\ crq[t] \in Nat
  BY <1>4, RingsAre
<1>7. Ahead(crq[t], ticket[t], crq[t], Turn(t))
  BY <1>2, <1>5, <1>6 DEF AheadOf
<1>8. Turn(t) = ticket[t]
  BY <1>2 DEF Turn, TakePcs, CellPcs
<1> QED
  BY <1>4, <1>6, <1>7, <1>8 DEF Ahead

----------------------------------------------------------------------------
(* The inductive invariant and what follows from it *)

IInv == Basics /\ Takers /\ Once /\ Order

LEMMA Inductive == Spec => []IInv
<1>1. Init => IInv
  BY BasicsInit, TakersInit, OnceInit, OrderInit DEF IInv
<1>2. IInv /\ [Next]_vars => IInv'
  <2> SUFFICES ASSUME IInv, [Next]_vars PROVE IInv'
    OBVIOUS
  <2> USE DEF IInv
  <2>1. CASE \E t \in Threads : Step(t)
    BY <2>1, BasicsStep, TakersStep, OnceStep, OrderStep
  <2>2. CASE Destroy \/ Finished \/ UNCHANGED vars
    BY <2>2, BasicsQuiet, TakersQuiet, OnceQuiet, OrderQuiet
  <2> QED
    BY <2>1, <2>2 DEF Next, Step
<1> QED
  BY <1>1, <1>2, PTL DEF Spec

\* NoneStranded for rings of any size and any number of threads: no item is left
\* in a cell that the dequeues have passed.  It is the part Waiting of IInv.
THEOREM NothingStranded == Spec => []NoneStranded
<1>1. IInv => NoneStranded
  BY DEF IInv, Takers, Waiting, NoneStranded, Held, CellPcs
<1> QED
  BY <1>1, Inductive, PTL

\* TailForward for rings of any size and any number of threads: whatever fixState
\* does, the tail of a ring does not go back (Forward), and a closed ring stays
\* closed (ClosedStep).
THEOREM TailsGoForward == Spec => TailForward
<1> DEFINE Keeps == \A r \in Rings : /\ rtail[r].t <= rtail'[r].t
                                     /\ rtail[r].closed => rtail'[r].closed
<1>1. IInv /\ [Next]_vars => [Keeps]_rtail
  <2> SUFFICES ASSUME IInv, [Next]_vars PROVE [Keeps]_rtail
    OBVIOUS
  <2>1. CASE \E t \in Threads : Step(t)
    BY <2>1, Forward, ClosedStep DEF IInv
  <2>2. CASE Destroy \/ Finished \/ UNCHANGED vars
    BY <2>2 DEF Destroy, Finished, vars, queue, rings
  <2> QED
    BY <2>1, <2>2 DEF Next, Step
<1> QED
  BY <1>1, Inductive, PTL DEF Spec, TailForward

\* AtMostOnce for rings of any size and any number of threads: no item is in two
\* cells or comes out twice, however many cells and rings its enqueue has tried.
THEOREM NoneTwice == Spec => []AtMostOnce
<1>1. IInv => AtMostOnce
  BY Counted DEF IInv
<1> QED
  BY <1>1, Inductive, PTL

\* OrderKept for rings of any size and any number of threads: what comes out keeps
\* the order of the enqueues that did not overlap.  The cells are in the order of
\* their rings and tickets (AheadOf), and a dequeue goes through them in this order.
THEOREM FirstInFirstOut == Spec => OrderKept
<1> DEFINE Keeps == \A t \in Threads : (pc[t] = "dTake" /\ pc'[t] = "idle") =>
                      \A y \in known[t] : word[t].val \notin prior[y]
<1>1. IInv /\ [Next]_vars => [Keeps]_vars
  <2> SUFFICES ASSUME IInv, [Next]_vars PROVE [Keeps]_vars
    OBVIOUS
  <2>1. CASE \E t \in Threads : Step(t)
    BY <2>1, TakesInOrder DEF IInv
  <2>2. CASE Destroy \/ Finished \/ UNCHANGED vars
    <3>1. pc' = pc
      BY <2>2 DEF Destroy, Finished, vars
    <3> QED
      BY <3>1
  <2> QED
    BY <2>1, <2>2 DEF Next, Step
<1> QED
  BY <1>1, Inductive, PTL DEF Spec, OrderKept

=============================================================================
