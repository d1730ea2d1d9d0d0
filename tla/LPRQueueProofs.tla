--------------------------- MODULE LPRQueueProofs ---------------------------
(***************************************************************************)
(* Proofs about LPRQueue for any number of threads, items and calls, and   *)
(* rings of any size.                                                      *)
(*                                                                         *)
(* The epoch of a cell never falls, and a cell becomes full only together  *)
(* with an epoch it never had before.  So whoever has read the mark of a   *)
(* cell and then its value knows what the value still is, as long as the   *)
(* epoch has not moved (Knows).  Whether the dequeue of a ticket is still  *)
(* to come or still at its cell follows from the marks it leaves behind    *)
(* (Gone, Awaits), and where items are from both.  Items come out in the   *)
(* order of the rings and tickets they were put at (AheadOf).              *)
(***************************************************************************)
EXTENDS LPRQueue, FiniteSetTheorems, TLAPS

\* The cell and the epoch of a ticket, and back.
Cell(k) == k % R
Round(k) == k \div R
Ticket(e, i) == e * R + i

----------------------------------------------------------------------------
(* Types, locals and the list of rings *)

\* The accesses of an enqueue that has a ticket; those for which a dequeue
\* has one.
PutPcs == {"eMark", "eVal", "eHead", "eToken", "eEpoch", "eUndo", "ePut", "eOver"}
TakePcs == CellPcs \union {"dTail"}

\* The enqueue of thread t has not put its item anywhere yet.
Pending(t) == pc[t] \in EnqueuePcs \ {"lSwing"}

Locals(t) ==
  /\ item[t] # Null <=> pc[t] \in EnqueuePcs
  /\ pc[t] \in {"idle", "lTail", "lHead"} => prq[t] = 0
  /\ pc[t] \notin DequeuePcs \ {"lHead"} => ~again[t]
  /\ pc[t] \in PutPcs \union TakePcs => ticket[t] >= R
  /\ pc[t] \in {"eHead", "eToken", "eEpoch"} => /\ Free(seen[t].value)
                                                /\ seen[t].mark.epoch < Cycle(t)
  /\ pc[t] = "eHead" => ~seen[t].mark.safe
  /\ pc[t] = "dTake" => seen[t].value \in Items /\ seen[t].mark.epoch = Cycle(t)
  /\ pc[t] = "dToken" => seen[t].value \in Threads /\ seen[t].mark.epoch <= Cycle(t)
  /\ pc[t] = "dSkip" => seen[t].mark.epoch <= Cycle(t)
  /\ pc[t] = "dUnsafe" => seen[t].value \in Items /\ seen[t].mark.epoch < Cycle(t)

\* An item belongs to one call at most, until it has been put somewhere.
Owned ==
  /\ \A t \in Threads : pc[t] \in EnqueuePcs => item[t] \notin unsent \union entered
  /\ \A t, u \in Threads : t # u /\ pc[t] \in EnqueuePcs /\ pc[u] \in EnqueuePcs =>
       item[t] # item[u]
  /\ entered \intersect unsent = {}

\* The items that have been put into a ring.
Sent == {x \in Items : x \notin unsent /\ \A t \in Threads : Pending(t) => item[t] # x}

Linked(r) == r = 1 \/ next[r - 1] = r

New(r) ==
  /\ next[r] = 0 /\ rhead[r] = R /\ rtail[r] = [t |-> R, closed |-> FALSE]
  /\ \A i \in Cells : mark[r][i] = Mark(TRUE, 0) /\ value[r][i] = Null

\* The rings are linked in the order of their numbers, each one closed before.
List ==
  /\ \A r \in Rings : /\ rhead[r] >= R /\ rtail[r].t >= R
                      /\ next[r] \in {0, r + 1}
                      /\ next[r] # 0 => Linked(r) /\ rtail[r].closed
                                        /\ r <= Cardinality(Sent)
                      /\ ~Linked(r) => New(r)
  /\ Linked(qhead) /\ Linked(qtail)
  /\ \A t \in Threads :
       /\ prq[t] # 0 => Linked(prq[t])
       /\ again[t] \/ pc[t] \in {"lHelp", "lSwing", "lDSwing"} => next[prq[t]] # 0
       /\ pc[t] = "lLink" => rtail[prq[t]].closed

Basics == TypeOK /\ (\A t \in Threads : Locals(t)) /\ Owned /\ List

----------------------------------------------------------------------------
(* Tickets, tokens and epochs *)

Tickets ==
  /\ \A t \in Threads :
       /\ pc[t] \in PutPcs => ticket[t] < rtail[prq[t]].t
       /\ pc[t] \in TakePcs => ticket[t] < rhead[prq[t]]
  /\ \A t, u \in Threads : t # u /\ pc[t] \in CellPcs /\ pc[u] \in CellPcs
                             /\ prq[t] = prq[u] => ticket[t] # ticket[u]

\* A token is in the cell of the thread it names.
Tokens ==
  \A r \in Rings, i \in Cells, t \in Threads : value[r][i] = t =>
    pc[t] \in {"eEpoch", "eUndo", "ePut"} /\ prq[t] = r /\ Cell(ticket[t]) = i

\* The token in the cell is about to become an item; it is or is one already.
Ripe(r, i) == \E t \in Threads : value[r][i] = t /\ pc[t] = "ePut"
Full(r, i) == value[r][i] \in Items \/ Ripe(r, i)

SawMark(t) == pc[t] \in {"eVal", "eHead", "eToken", "eEpoch"} \union (CellPcs \ {"dMark"})

\* A mark that is not m any more: its epoch is greater, or it became unsafe.
Later(m, n) == m.epoch < n.epoch \/ (m.epoch = n.epoch /\ (n.safe => m.safe))

\* The epoch of the cell of thread t has moved on since t read the mark.
Moved(t) == seen[t].mark.epoch < MarkAt(t).epoch

\* What thread t knows of its cell from the mark and the value it has read.
Knows(t) ==
  LET full == Full(prq[t], Cell(ticket[t]))
      ripe == Ripe(prq[t], Cell(ticket[t]))
  IN  /\ SawMark(t) => Later(seen[t].mark, MarkAt(t))
      /\ pc[t] = "eEpoch" /\ full => Moved(t)
      /\ pc[t] \in {"eHead", "eToken"} /\ ~seen[t].mark.safe /\ full => Moved(t)
      /\ pc[t] = "ePut" /\ ValueAt(t) = t => MarkAt(t) = Mark(TRUE, Cycle(t))
      /\ pc[t] = "dSkip" \/ (pc[t] = "dMark2" /\ seen[t].value = Null) =>
           (full => Moved(t))
      /\ pc[t] = "dUnsafe" \/ (pc[t] = "dMark2" /\ seen[t].value \in Items) =>
           (ripe => Moved(t))
      /\ pc[t] = "dMark2" /\ seen[t].value \in Items /\ MarkAt(t).epoch = Cycle(t)
           /\ ~Moved(t) => ValueAt(t) = seen[t].value
      /\ pc[t] = "dTake" => MarkAt(t).epoch = Cycle(t) /\ ValueAt(t) = seen[t].value

Cells2 == Tickets /\ Tokens /\ \A t \in Threads : Knows(t)

----------------------------------------------------------------------------
(* Dequeues that are to come and dequeues that have been *)

\* The dequeue with ticket k of ring r is at its cell.
Held(r, k) == \E t \in Threads : prq[t] = r /\ ticket[t] = k /\ pc[t] \in CellPcs

\* A dequeue that has left its cell has moved the epoch on to its own, or left
\* the cell unsafe.
Gone ==
  \A r \in Rings : \A k \in R..(rhead[r] - 1) :
    \/ Held(r, k)
    \/ mark[r][Cell(k)].epoch >= Round(k)
    \/ ~mark[r][Cell(k)].safe

\* An enqueue that found its cell unsafe, but no dequeue with its ticket or a
\* later one, keeps these dequeues at the cell as long as the epoch stays.
Awaits(t) ==
  pc[t] \in {"eToken", "eEpoch"} /\ ~seen[t].mark.safe /\ ~Moved(t) =>
    /\ \A k \in ticket[t]..(rhead[prq[t]] - 1) :
         Cell(k) = Cell(ticket[t]) => Held(prq[t], k)
    /\ \A u \in Threads :
         (/\ prq[u] = prq[t] /\ Cell(ticket[u]) = Cell(ticket[t]) /\ ticket[u] >= ticket[t]
          /\ pc[u] = "dUnsafe" \/ (pc[u] = "dMark2" /\ seen[u].value \in Items)) => Moved(u)

\* Whatever is or will be in ring r has a ticket that a dequeue has taken.
Drained(r) ==
  /\ \A t \in Threads : prq[t] = r /\ pc[t] \in PutPcs => ticket[t] < rhead[r]
  /\ \A i \in Cells : Full(r, i) => Ticket(mark[r][i].epoch, i) < rhead[r]

Passed ==
  /\ \A r \in Rings : r < qhead => Drained(r) /\ next[r] # 0
  /\ \A t \in Threads : /\ pc[t] \in DequeuePcs => prq[t] <= qhead
                        /\ pc[t] = "lDSwing" => Drained(prq[t])

\* NoneStranded, from the moment the epoch is set.
Waiting ==
  \A r \in Rings, i \in Cells : Full(r, i) =>
    LET h == Ticket(mark[r][i].epoch, i)
    IN  /\ h < rtail[r].t /\ h >= R
        /\ \/ r >= qhead /\ rhead[r] <= h
           \/ Held(r, h)

Takers == Gone /\ (\A t \in Threads : Awaits(t)) /\ Passed /\ Waiting

----------------------------------------------------------------------------
(* Every item is in one place *)

In(x) == \E r \in Rings, i \in Cells : value[r][i] = x

Once ==
  /\ \A x \in Items : /\ out[x] \in {0, 1}
                      /\ In(x) => out[x] = 0
                      /\ In(x) \/ out[x] = 1 <=> x \in Sent
  /\ \A r, s \in Rings, i, j \in Cells :
       value[r][i] \in Items /\ value[r][i] = value[s][j] => r = s /\ i = j

----------------------------------------------------------------------------
(* The order of the items *)

\* The ticket that an item in the cell was put there with.
Place(r, i) == Ticket(mark[r][i].epoch, i)

\* Cell k of ring r comes before cell j of ring s.
Ahead(r, k, s, j) == r < s \/ (r = s /\ k < j)

\* The ticket of a call, or the least it can still get in its ring.
Turn(t) ==
  IF pc[t] \in PutPcs \union TakePcs THEN ticket[t]
  ELSE IF pc[t] \in EnqueuePcs THEN rtail[prq[t]].t ELSE rhead[prq[t]]

\* No enqueue is in a ring that _tail has not reached; when it returns, _tail has
\* reached the ring of its item.
Reached ==
  /\ \A t \in Threads : pc[t] \in EnqueuePcs => prq[t] <= qtail
  /\ \A r \in Rings, i \in Cells : value[r][i] \in Items =>
       /\ value[r][i] \in entered => r <= qtail
       /\ \A t \in Threads : pc[t] = "lSwing" /\ item[t] = value[r][i] => r <= prq[t] + 1

Remembered ==
  /\ \A x \in Items : prior[x] \subseteq entered
  /\ \A t \in Threads : /\ \A x \in known[t] : out[x] # 0
                        /\ pc[t] \notin DequeuePcs => known[t] = {}

\* Cell k of ring r comes before the item y, wherever y is: in a cell, with an
\* enqueue in a ring, or out already; then also before every cell that a dequeue
\* can still get if y had come out when it was called.
AheadOf(r, k, y) ==
  /\ \A s \in Rings, j \in Cells : value[s][j] = y => Ahead(r, k, s, Place(s, j))
  /\ out[y] # 0 => Ahead(r, k, qhead, rhead[qhead])
  /\ \A t \in Threads : prq[t] # 0 /\ ((Pending(t) /\ item[t] = y) \/ y \in known[t]) =>
       Ahead(r, k, prq[t], Turn(t))

InOrder ==
  \A r \in Rings, i \in Cells, y \in Items :
    value[r][i] \in prior[y] => AheadOf(r, Place(r, i), y)

Order == Reached /\ Remembered /\ InOrder

IInv == Basics /\ Cells2 /\ Takers /\ Once /\ Order

USE ValuesAssumption, SizeAssumption

----------------------------------------------------------------------------
(* Arithmetic of tickets *)

LEMMA DivMod ==
  ASSUME NEW k \in Nat, NEW n \in Nat \ {0}
  PROVE  k % n \in 0..(n - 1) /\ k \div n \in Nat /\ k = (k \div n) * n + (k % n)
OBVIOUS

\* Later tickets of a cell have later rounds.
LEMMA DivGrows ==
  ASSUME NEW k \in Nat, NEW j \in Nat, NEW n \in Nat \ {0}, k % n = j % n
  PROVE  /\ k \div n = j \div n => k = j
         /\ k < j => k \div n < j \div n
<1> DEFINE p == k \div n
           q == j \div n
           i == k % n
<1>1. p \in Nat /\ q \in Nat /\ i \in 0..(n - 1) /\ k = p * n + i /\ j = q * n + i
  BY DivMod
<1> HIDE DEF p, q, i
<1>2. p = q => k = j
  BY <1>1
<1>3. ASSUME q <= p PROVE j <= k
  <2>1. q * n <= p * n
    BY <1>1, <1>3
  <2> QED
    BY <1>1, <2>1
<1>4. k < j => p < q
  BY <1>1, <1>3
<1> QED
  BY <1>2, <1>4 DEF p, q

LEMMA TicketIs ==
  ASSUME NEW e \in Nat, NEW n \in Nat \ {0}, NEW i \in 0..(n - 1)
  PROVE  e * n + i \in Nat /\ (e * n + i) % n = i /\ (e * n + i) \div n = e
OBVIOUS

----------------------------------------------------------------------------
(* What a step of thread t leaves alone *)

Step(t) == Call(t) \/ Enqueue(t) \/ Dequeue(t)

Same(u) ==
  /\ pc'[u] = pc[u] /\ item'[u] = item[u] /\ prq'[u] = prq[u] /\ again'[u] = again[u]
  /\ ticket'[u] = ticket[u] /\ seen'[u] = seen[u] /\ known'[u] = known[u]

LEMMA OthersSame ==
  ASSUME TypeOK, NEW t \in Threads, Step(t)
  PROVE  R' = R /\ freed' = freed /\ \A u \in Threads \ {t} : Same(u)
<1> USE DEF TypeOK, Same, Goto, Test, queue, ends, tickets, cells, locals, ringLocals, calls
<1>1. CASE Call(t)
  BY <1>1 DEF Call, CallDequeue, CallEnqueue
<1>2. CASE LTail(t) \/ LNext(t) \/ LHelp(t) \/ LLink(t) \/ LSwing(t)
  BY <1>2 DEF LTail, LNext, LHelp, LLink, LSwing, Again, LeaveRing, EnqueueReturns, Return
<1>3. CASE ETicket(t) \/ EMark(t) \/ EVal(t) \/ EHead(t) \/ EToken(t) \/ EEpoch(t)
  BY <1>3 DEF ETicket, EMark, EVal, EHead, EToken, EEpoch, LeaveRing
<1>4. CASE EUndo(t) \/ EPut(t) \/ EOver(t) \/ EClose(t)
  BY <1>4 DEF EUndo, EPut, EOver, EClose, LeaveRing, EnqueueReturns, Return
<1>5. CASE LHead(t) \/ LDNext(t) \/ LDSwing(t) \/ DTicket(t) \/ DMark(t) \/ DVal(t) \/ DMark2(t)
  BY <1>5 DEF LHead, LDNext, LDSwing, DTicket, DMark, DVal, DMark2, Reread, Again, LeaveRing, Return
<1>6. CASE DTake(t) \/ DToken(t) \/ DSkip(t) \/ DUnsafe(t) \/ DTail(t)
  BY <1>6 DEF DTake, DToken, DSkip, DUnsafe, DCasMark, DTail, Reread, LeaveRing, Return
<1> QED
  BY <1>1, <1>2, <1>3, <1>4, <1>5, <1>6 DEF Step, Enqueue, Dequeue

\* The cell of a thread.
LEMMA CellIs ==
  ASSUME TypeOK, NEW t \in Threads
  PROVE  /\ R \in Nat \ {0} /\ ticket[t] \in Nat
         /\ Cell(ticket[t]) \in Cells /\ Cell(ticket[t]) = ticket[t] % R
         /\ Cycle(t) \in Nat /\ Cycle(t) = Round(ticket[t])
         /\ seen[t].mark \in MarkType /\ seen[t].value \in ValueType
         /\ seen[t].mark.epoch \in Nat /\ seen[t].mark.safe \in BOOLEAN
         /\ prq[t] # 0 => /\ prq[t] \in Rings
                          /\ MarkAt(t) = mark[prq[t]][Cell(ticket[t])] /\ MarkAt(t) \in MarkType
                          /\ MarkAt(t).epoch \in Nat /\ MarkAt(t).safe \in BOOLEAN
                          /\ ValueAt(t) = value[prq[t]][Cell(ticket[t])]
                          /\ ValueAt(t) \in ValueType
<1>1. R \in Nat \ {0} /\ ticket[t] \in Nat
  BY DEF TypeOK
<1>2. ticket[t] % R \in Cells /\ Cycle(t) \in Nat
  BY <1>1, DivMod DEF Cells, Cycle
<1>3. /\ seen[t].mark \in MarkType /\ seen[t].value \in ValueType
      /\ seen[t].mark.epoch \in Nat /\ seen[t].mark.safe \in BOOLEAN
  BY DEF TypeOK, MarkType
<1>4. prq[t] # 0 => /\ prq[t] \in Rings
                    /\ MarkAt(t) \in MarkType /\ ValueAt(t) \in ValueType
                    /\ MarkAt(t).epoch \in Nat /\ MarkAt(t).safe \in BOOLEAN
  BY <1>2 DEF TypeOK, MarkAt, ValueAt, MarkType
<1> QED
  BY <1>1, <1>2, <1>3, <1>4 DEF Cell, Round, Cycle, MarkAt, ValueAt

LEMMA ExceptIs ==
  ASSUME NEW A, NEW B, NEW S, NEW f \in [A -> [B -> S]], NEW a \in A, NEW b \in B, NEW v \in S
  PROVE  /\ [f EXCEPT ![a][b] = v] \in [A -> [B -> S]]
         /\ \A x \in A, y \in B :
              [f EXCEPT ![a][b] = v][x][y] = IF x = a /\ y = b THEN v ELSE f[x][y]
<1>1. [f EXCEPT ![a][b] = v] = [f EXCEPT ![a] = [f[a] EXCEPT ![b] = v]]
  OBVIOUS
<1>2. [f[a] EXCEPT ![b] = v] \in [B -> S]
  OBVIOUS
<1> QED
  BY <1>1, <1>2

LEMMA SetIs ==
  ASSUME TypeOK, NEW t \in Threads, prq[t] # 0
  PROVE  /\ \A m \in MarkType : SetMark(t, m) =>
              /\ mark' \in [Rings -> [Cells -> MarkType]]
              /\ \A r \in Rings, i \in Cells :
                   mark'[r][i] = IF r = prq[t] /\ i = Cell(ticket[t]) THEN m ELSE mark[r][i]
         /\ \A v \in ValueType : SetValue(t, v) =>
              /\ value' \in [Rings -> [Cells -> ValueType]]
              /\ \A r \in Rings, i \in Cells :
                   value'[r][i] = IF r = prq[t] /\ i = Cell(ticket[t]) THEN v ELSE value[r][i]
<1>1. prq[t] \in Rings /\ Cell(ticket[t]) \in Cells /\ Cell(ticket[t]) = ticket[t] % R
  BY CellIs
<1>2. mark \in [Rings -> [Cells -> MarkType]] /\ value \in [Rings -> [Cells -> ValueType]]
  BY DEF TypeOK
<1>3. ASSUME NEW m \in MarkType, SetMark(t, m)
      PROVE  /\ mark' \in [Rings -> [Cells -> MarkType]]
             /\ \A r \in Rings, i \in Cells :
                  mark'[r][i] = IF r = prq[t] /\ i = Cell(ticket[t]) THEN m ELSE mark[r][i]
  <2>1. mark' = [mark EXCEPT ![prq[t]][Cell(ticket[t])] = m]
    BY <1>1, <1>3 DEF SetMark
  <2> QED
    BY <1>1, <1>2, <2>1, ExceptIs
<1>4. ASSUME NEW v \in ValueType, SetValue(t, v)
      PROVE  /\ value' \in [Rings -> [Cells -> ValueType]]
             /\ \A r \in Rings, i \in Cells :
                  value'[r][i] = IF r = prq[t] /\ i = Cell(ticket[t]) THEN v ELSE value[r][i]
  <2>1. value' = [value EXCEPT ![prq[t]][Cell(ticket[t])] = v]
    BY <1>1, <1>4 DEF SetValue
  <2> QED
    BY <1>1, <1>2, <2>1, ExceptIs
<1> QED
  BY <1>3, <1>4

----------------------------------------------------------------------------
(* Types and locals *)

\* TypeOK in three parts: what rings and cells hold, what the locals of a call
\* and what those of its ring hold.
SharedTypes ==
  /\ R \in Sizes
  /\ qhead \in Rings /\ qtail \in Rings /\ next \in [Rings -> Rings \union {0}]
  /\ rhead \in [Rings -> Nat] /\ rtail \in [Rings -> [t : Nat, closed : BOOLEAN]]
  /\ mark \in [Rings -> [Cells -> MarkType]]
  /\ value \in [Rings -> [Cells -> ValueType]]
  /\ freed \subseteq Rings
CallTypes ==
  /\ pc \in [Threads -> {"idle"} \union EnqueuePcs \union DequeuePcs]
  /\ item \in [Threads -> Items \union {Null}]
  /\ prq \in [Threads -> Rings \union {0}] /\ again \in [Threads -> BOOLEAN]
  /\ \A t \in Threads : prq[t] = 0 => pc[t] \in {"idle", "lTail", "lHead"}
  /\ unsent \subseteq Items /\ dequeues \in 0..MaxDequeues
  /\ entered \subseteq Items /\ prior \in [Items -> SUBSET Items]
  /\ out \in [Items -> Nat] /\ known \in [Threads -> SUBSET Items]
RingTypes ==
  /\ ticket \in [Threads -> Nat] /\ tries \in [Threads -> 0..(StarvingThreshold + 1)]
  /\ seen \in [Threads -> [mark : MarkType, value : ValueType]]

LEMMA TypesSplit ==
  /\ TypeOK <=> SharedTypes /\ CallTypes /\ RingTypes
  /\ TypeOK' <=> SharedTypes' /\ CallTypes' /\ RingTypes'
BY DEF TypeOK, SharedTypes, CallTypes, RingTypes

LEMMA TypeInit == Init => TypeOK /\ \A t \in Threads : Locals(t)
<1> SUFFICES ASSUME Init PROVE TypeOK /\ \A t \in Threads : Locals(t)
  OBVIOUS
<1>1. R \in Nat \ {0} /\ 0 \in Nat /\ 1 \in Rings
  <2>1. Cardinality(Items) \in Nat
    BY FS_CardinalityType
  <2> QED
    BY <2>1 DEF Init, Rings
<1>2. Mark(TRUE, 0) \in MarkType /\ Null \in ValueType /\ NoneSeen \in [mark : MarkType, value : ValueType]
  BY DEF Mark, MarkType, ValueType, NoneSeen, Seen
<1> HIDE DEF Rings
<1>3. TypeOK
  <2>1. /\ mark \in [Rings -> [Cells -> MarkType]] /\ value \in [Rings -> [Cells -> ValueType]]
        /\ seen \in [Threads -> [mark : MarkType, value : ValueType]]
    BY <1>2 DEF Init
  <2>2. /\ rhead \in [Rings -> Nat] /\ rtail \in [Rings -> [t : Nat, closed : BOOLEAN]]
        /\ tries \in [Threads -> 0..(StarvingThreshold + 1)]
    BY <1>1 DEF Init, StarvingThreshold
  <2> QED
    BY <1>1, <2>1, <2>2 DEF Init, TypeOK
<1>4. \A t \in Threads : Locals(t)
  BY DEF Init, Locals, EnqueuePcs, PutPcs, TakePcs, CellPcs
<1> QED
  BY <1>3, <1>4

\* What returns, starts over and leaves a ring has no locals left.
LEMMA LeaveIs ==
  ASSUME TypeOK, NEW t \in Threads, LeaveRing(t)
  PROVE  /\ ticket' \in [Threads -> Nat] /\ seen' \in [Threads -> [mark : MarkType, value : ValueType]]
         /\ tries' \in [Threads -> 0..(StarvingThreshold + 1)]
<1>1. Mark(TRUE, 0) \in MarkType /\ Null \in ValueType /\ 0 \in 0..(R + 1)
  BY DEF Mark, MarkType, ValueType, TypeOK
<1> QED
  BY <1>1 DEF LeaveRing, TypeOK, NoneSeen, Seen, StarvingThreshold

\* The locals of thread t after its step, and nobody else's, are to be looked at.
LEMMA LocalsKept ==
  ASSUME TypeOK, \A u \in Threads : Locals(u), NEW t \in Threads, Step(t), Locals(t)'
  PROVE  \A u \in Threads : Locals(u)'
<1> SUFFICES ASSUME NEW u \in Threads \ {t} PROVE Locals(u)'
  OBVIOUS
<1>1. R' = R /\ Same(u)
  BY OthersSame
<1>2. Cycle(u)' = Cycle(u)
  BY <1>1 DEF Same, Cycle
<1> QED
  BY <1>1, <1>2 DEF Same, Locals

LEMMA TypesCall ==
  ASSUME TypeOK, NEW t \in Threads, Locals(t), Call(t)
  PROVE  TypeOK' /\ Locals(t)'
<1>1. R' = R /\ freed' = freed /\ Cells' = Cells /\ StarvingThreshold' = StarvingThreshold
  BY OthersSame DEF Step, Cells, StarvingThreshold
<1> USE DEF Goto, queue, ends, tickets, cells, locals, ringLocals, calls
<1>2. CASE CallDequeue(t)
  <2>1. TypeOK'
    BY <1>1, <1>2 DEF CallDequeue, TypeOK, DequeuePcs
  <2>2. Locals(t)'
    BY <1>1, <1>2 DEF CallDequeue, TypeOK, Locals, EnqueuePcs, DequeuePcs, CellPcs, PutPcs, TakePcs
  <2> QED
    BY <2>1, <2>2
<1>3. CASE \E x \in Items : CallEnqueue(t, x)
  <2>1. TypeOK'
    BY <1>1, <1>3 DEF CallEnqueue, TypeOK, EnqueuePcs
  <2>2. Locals(t)'
    BY <1>1, <1>3 DEF CallEnqueue, TypeOK, Locals, EnqueuePcs, DequeuePcs, CellPcs, PutPcs, TakePcs
  <2> QED
    BY <2>1, <2>2
<1> QED
  BY <1>2, <1>3 DEF Call

LEMMA TypesList ==
  ASSUME TypeOK, List, NEW t \in Threads, Locals(t),
         LTail(t) \/ LNext(t) \/ LHelp(t) \/ LSwing(t) \/ LHead(t) \/ LDNext(t) \/ LDSwing(t)
  PROVE  TypeOK' /\ Locals(t)'
<1>1. R' = R /\ freed' = freed /\ Cells' = Cells /\ StarvingThreshold' = StarvingThreshold
  BY OthersSame DEF Step, Enqueue, Dequeue, Cells, StarvingThreshold
<1>2. (prq[t] # 0 => prq[t] \in Rings) /\ 0 \notin Rings
  BY DEF TypeOK, Rings
<1>6. pc[t] = "lSwing" => item[t] \in Items
  BY DEF TypeOK, Locals, EnqueuePcs
<1>3. pc[t] \in {"lHelp", "lSwing", "lDSwing"} => next[prq[t]] \in Rings
  BY <1>2 DEF List, TypeOK, EnqueuePcs
<1> USE DEF Goto, queue, ends, tickets, cells, locals, ringLocals, calls
<1>4. TypeOK'
  <2>1. CASE LTail(t) \/ LNext(t) \/ LHead(t)
    <3>1. SharedTypes'
      BY <1>1, <2>1, TypesSplit DEF LTail, LNext, LHead, Test, SharedTypes
    <3>2. RingTypes'
      BY <1>1, <2>1, TypesSplit DEF LTail, LNext, LHead, Test, RingTypes
    <3>3. CASE LTail(t)
      BY <1>2, <3>1, <3>2, <3>3, TypesSplit DEF LTail, SharedTypes, CallTypes, EnqueuePcs
    <3>4. CASE LHead(t)
      BY <1>2, <3>1, <3>2, <3>4, TypesSplit DEF LHead, SharedTypes, CallTypes, DequeuePcs
    <3>5. CASE LNext(t)
      BY <1>2, <3>1, <3>2, <3>5, TypesSplit DEF LNext, Test, SharedTypes, CallTypes, EnqueuePcs
    <3> QED
      BY <2>1, <3>3, <3>4, <3>5
  <2>2. CASE LHelp(t)
    BY <1>1, <1>3, <2>2, LeaveIs DEF LHelp, Again, CasTail, TypeOK, EnqueuePcs
  <2>3. CASE LSwing(t)
    BY <1>1, <1>3, <1>6, <2>3, LeaveIs DEF LSwing, EnqueueReturns, Return, CasTail, TypeOK
  <2>4. CASE LDNext(t)
    BY <1>1, <2>4, LeaveIs DEF LDNext, Return, TypeOK, DequeuePcs
  <2>5. CASE LDSwing(t)
    BY <1>1, <1>3, <2>5, LeaveIs DEF LDSwing, Again, TypeOK, DequeuePcs
  <2> QED
    BY <2>1, <2>2, <2>3, <2>4, <2>5
<1>5. Locals(t)'
  <2> USE DEF TypeOK, Locals, EnqueuePcs, DequeuePcs, CellPcs, PutPcs, TakePcs
  <2>1. CASE LTail(t) \/ LNext(t) \/ LHead(t)
    BY <1>1, <2>1 DEF LTail, LNext, LHead, Test
  <2>2. CASE LHelp(t) \/ LDSwing(t)
    BY <1>1, <2>2 DEF LHelp, LDSwing, Again
  <2>3. CASE LSwing(t)
    BY <1>1, <2>3 DEF LSwing, EnqueueReturns, Return
  <2>4. CASE LDNext(t)
    BY <1>1, <2>4 DEF LDNext, Return
  <2> QED
    BY <2>1, <2>2, <2>3, <2>4
<1> QED
  BY <1>4, <1>5

\* Accesses inside a ring leave its locals as they are but for what they read.
LEMMA SeenType ==
  ASSUME TypeOK, NEW t \in Threads, NEW m \in MarkType, NEW v \in ValueType
  PROVE  /\ [seen EXCEPT ![t].mark = m] \in [Threads -> [mark : MarkType, value : ValueType]]
         /\ [seen EXCEPT ![t].value = v] \in [Threads -> [mark : MarkType, value : ValueType]]
         /\ [seen EXCEPT ![t] = NoneSeen] \in [Threads -> [mark : MarkType, value : ValueType]]
         /\ [seen EXCEPT ![t].mark = m][t] = [seen[t] EXCEPT !.mark = m]
         /\ [seen EXCEPT ![t].value = v][t] = [seen[t] EXCEPT !.value = v]
<1>1. NoneSeen \in [mark : MarkType, value : ValueType]
  BY DEF NoneSeen, Seen, Mark, MarkType, ValueType
<1>2. seen \in [Threads -> [mark : MarkType, value : ValueType]]
  BY DEF TypeOK
<1> QED
  BY <1>1, <1>2

LEMMA TypesPut ==
  ASSUME TypeOK, NEW t \in Threads, Locals(t),
         ETicket(t) \/ EMark(t) \/ EVal(t) \/ EHead(t) \/ EToken(t) \/ EEpoch(t)
         \/ EUndo(t) \/ EPut(t) \/ EOver(t) \/ EClose(t)
  PROVE  TypeOK'
<1>1. R' = R /\ freed' = freed /\ Cells' = Cells /\ StarvingThreshold' = StarvingThreshold
  BY OthersSame DEF Step, Enqueue, Cells, StarvingThreshold
<1>2. prq[t] # 0 /\ prq[t] \in Rings /\ pc[t] \in EnqueuePcs /\ item[t] \in Items
  BY DEF TypeOK, ETicket, EMark, EVal, EHead, EToken, EEpoch, EUndo, EPut, EOver, EClose,
         Goto, Test, EnqueueReturns, Return, Locals, EnqueuePcs
<1>3. /\ MarkAt(t) \in MarkType /\ ValueAt(t) \in ValueType
      /\ Cycle(t) \in Nat /\ Mark(TRUE, Cycle(t)) \in MarkType
      /\ t \in ValueType /\ item[t] \in ValueType /\ Null \in ValueType
  BY <1>2, CellIs DEF Mark, MarkType, ValueType
<1>4. SharedTypes /\ CallTypes /\ RingTypes
  BY TypesSplit
<1> USE DEF Goto, Test, queue, ends, tickets, cells, locals, ringLocals, calls
<1>5. SharedTypes'
  <2>1. CASE ETicket(t) \/ EClose(t)
    <3>1. rtail[prq[t]] \in [t : Nat, closed : BOOLEAN] /\ rtail[prq[t]].t + 1 \in Nat
      BY <1>2, <1>4 DEF SharedTypes
    <3>2. /\ [rtail[prq[t]] EXCEPT !.t = rtail[prq[t]].t + 1] \in [t : Nat, closed : BOOLEAN]
          /\ [rtail[prq[t]] EXCEPT !.closed = TRUE] \in [t : Nat, closed : BOOLEAN]
      BY <3>1
    <3>3. rtail' \in [Rings -> [t : Nat, closed : BOOLEAN]]
      BY <1>2, <1>4, <2>1, <3>2 DEF ETicket, EClose, SharedTypes
    <3> QED
      BY <1>1, <1>4, <2>1, <3>3 DEF ETicket, EClose, SharedTypes
  <2>2. CASE EMark(t) \/ EVal(t) \/ EHead(t) \/ EOver(t)
    BY <1>1, <1>4, <2>2 DEF EMark, EVal, EHead, EOver, SharedTypes
  <2>3. CASE EToken(t)
    BY <1>1, <1>2, <1>3, <1>4, <2>3, SetIs DEF EToken, SharedTypes
  <2>4. CASE EEpoch(t)
    BY <1>1, <1>2, <1>3, <1>4, <2>4, SetIs DEF EEpoch, SharedTypes
  <2>5. CASE EUndo(t)
    BY <1>1, <1>2, <1>3, <1>4, <2>5, SetIs DEF EUndo, SharedTypes
  <2>6. CASE EPut(t)
    BY <1>1, <1>2, <1>3, <1>4, <2>6, SetIs DEF EPut, EnqueueReturns, Return, SharedTypes
  <2> QED
    BY <2>1, <2>2, <2>3, <2>4, <2>5, <2>6
<1>6. RingTypes'
  <2>1. CASE ETicket(t)
    BY <1>1, <1>2, <1>4, <2>1, LeaveIs DEF ETicket, RingTypes, SharedTypes
  <2>2. CASE EMark(t) \/ EVal(t)
    BY <1>1, <1>3, <1>4, <2>2, SeenType DEF EMark, EVal, RingTypes
  <2>3. CASE EHead(t) \/ EToken(t) \/ EEpoch(t) \/ EUndo(t)
    BY <1>1, <1>4, <2>3 DEF EHead, EToken, EEpoch, EUndo, RingTypes
  <2>4. CASE EPut(t) \/ EClose(t)
    BY <1>1, <1>4, <2>4, LeaveIs DEF EPut, EClose, EnqueueReturns, Return, RingTypes
  <2>5. CASE EOver(t)
    <3>1. tries' \in [Threads -> 0..(StarvingThreshold + 1)]
      <4>1. R \in Nat
        BY DEF TypeOK
      <4> QED
        BY <1>4, <2>5, <4>1 DEF EOver, RingTypes, StarvingThreshold
    <3>2. ticket' \in [Threads -> Nat] /\ seen' = [seen EXCEPT ![t] = NoneSeen]
      BY <1>4, <2>5 DEF EOver, RingTypes
    <3> QED
      BY <1>1, <1>3, <3>1, <3>2, SeenType DEF RingTypes
  <2> QED
    BY <2>1, <2>2, <2>3, <2>4, <2>5
<1>7. CallTypes'
  <2>1. CASE ETicket(t) \/ EMark(t) \/ EVal(t) \/ EHead(t) \/ EToken(t)
    BY <1>1, <1>2, <1>4, <2>1 DEF ETicket, EMark, EVal, EHead, EToken, CallTypes, EnqueuePcs
  <2>2. CASE EEpoch(t) \/ EUndo(t) \/ EOver(t) \/ EClose(t)
    BY <1>1, <1>2, <1>4, <2>2 DEF EEpoch, EUndo, EOver, EClose, CallTypes, EnqueuePcs
  <2>3. CASE EPut(t)
    BY <1>1, <1>2, <1>4, <2>3 DEF EPut, EnqueueReturns, Return, CallTypes, EnqueuePcs
  <2> QED
    BY <2>1, <2>2, <2>3
<1> QED
  BY <1>5, <1>6, <1>7, TypesSplit

LEMMA LocalsPut ==
  ASSUME TypeOK, List, NEW t \in Threads, Locals(t),
         ETicket(t) \/ EMark(t) \/ EVal(t) \/ EHead(t) \/ EToken(t) \/ EEpoch(t)
         \/ EUndo(t) \/ EPut(t) \/ EOver(t) \/ EClose(t)
  PROVE  Locals(t)'
<1>1. R' = R /\ R \in Nat /\ Cycle(t) \in Nat
  BY OthersSame, CellIs DEF Step, Enqueue
<1>2. /\ prq[t] # 0 /\ prq[t] \in Rings /\ rtail[prq[t]].t >= R
      /\ MarkAt(t) \in MarkType /\ ValueAt(t) \in ValueType
  <2>1. prq[t] # 0
    BY DEF TypeOK, ETicket, EMark, EVal, EHead, EToken, EEpoch, EUndo, EPut, EOver, EClose,
           Goto, Test, EnqueueReturns, Return
  <2> QED
    BY <2>1, CellIs DEF List
<1>3. seen[t] \in [mark : MarkType, value : ValueType] /\ DOMAIN seen = Threads
      /\ ticket \in [Threads -> Nat]
  BY DEF TypeOK
<1>4. pc \in [Threads -> {"idle"} \union EnqueuePcs \union DequeuePcs]
  BY DEF TypeOK
<1> USE DEF Goto, Test, Locals, EnqueuePcs, DequeuePcs, CellPcs, PutPcs, TakePcs
<1>5. CASE ETicket(t)
  <2>1. CASE rtail[prq[t]].closed
    BY <1>4, <1>5, <2>1 DEF ETicket
  <2>2. CASE ~rtail[prq[t]].closed
    BY <1>1, <1>2, <1>3, <1>4, <1>5, <2>2 DEF ETicket
  <2> QED
    BY <2>1, <2>2
<1>6. CASE EMark(t)
  BY <1>1, <1>4, <1>6 DEF EMark
<1>7. CASE EVal(t)
  <2>1. seen'[t] = [seen[t] EXCEPT !.value = ValueAt(t)]
    BY <1>2, <1>7, SeenType DEF EVal
  <2>2. seen'[t].value = ValueAt(t) /\ seen'[t].mark = seen[t].mark
    BY <1>3, <2>1
  <2>3. Cycle(t)' = Cycle(t) /\ ticket' = ticket /\ item' = item /\ prq' = prq /\ again' = again
    BY <1>1, <1>7 DEF EVal, Cycle
  <2> QED
    BY <1>1, <1>4, <1>7, <2>2, <2>3 DEF EVal
<1>8. CASE EHead(t)
  BY <1>1, <1>4, <1>8 DEF EHead, locals, ringLocals, Cycle
<1>9. CASE EToken(t) \/ EEpoch(t) \/ EUndo(t)
  BY <1>1, <1>4, <1>9 DEF EToken, EEpoch, EUndo, locals, ringLocals, Cycle
<1>10. CASE EPut(t)
  BY <1>1, <1>3, <1>4, <1>10, TypesSplit DEF EPut, EnqueueReturns, Return, locals, ringLocals, CallTypes
<1>11. CASE EOver(t) \/ EClose(t)
  BY <1>1, <1>4, <1>11 DEF EOver, EClose
<1> QED
  BY <1>5, <1>6, <1>7, <1>8, <1>9, <1>10, <1>11

LEMMA TypesTake ==
  ASSUME TypeOK, NEW t \in Threads, Locals(t),
         DTicket(t) \/ DMark(t) \/ DVal(t) \/ DMark2(t) \/ DTake(t) \/ DToken(t)
         \/ DSkip(t) \/ DUnsafe(t) \/ DTail(t)
  PROVE  TypeOK'
<1>1. R' = R /\ freed' = freed /\ Cells' = Cells /\ StarvingThreshold' = StarvingThreshold
  BY OthersSame DEF Step, Dequeue, Cells, StarvingThreshold
<1>2. prq[t] # 0 /\ prq[t] \in Rings /\ pc[t] \in DequeuePcs
      /\ (pc[t] = "dTake" => seen[t].value \in Items)
  BY DEF TypeOK, DTicket, DMark, DVal, DMark2, DTake, DToken, DSkip, DUnsafe, DCasMark, DTail,
         Goto, Test, Return, Reread, Locals, DequeuePcs, CellPcs
<1>3. /\ MarkAt(t) \in MarkType /\ ValueAt(t) \in ValueType /\ Null \in ValueType
      /\ Mark(seen[t].mark.safe, Cycle(t)) \in MarkType
      /\ Mark(FALSE, seen[t].mark.epoch) \in MarkType
  BY <1>2, CellIs DEF Mark, MarkType, ValueType
<1>4. SharedTypes /\ CallTypes /\ RingTypes
  BY TypesSplit
<1> USE DEF Goto, Test, queue, ends, tickets, cells, locals, ringLocals, calls
<1>5. SharedTypes'
  <2>1. CASE DTicket(t)
    BY <1>1, <1>2, <1>4, <2>1 DEF DTicket, SharedTypes
  <2>2. CASE DMark(t) \/ DVal(t) \/ DMark2(t) \/ DTail(t)
    BY <1>1, <1>4, <2>2 DEF DMark, DVal, DMark2, DTail, SharedTypes
  <2>3. CASE DTake(t) \/ DToken(t)
    BY <1>1, <1>2, <1>3, <1>4, <2>3, SetIs DEF DTake, DToken, SharedTypes
  <2>4. CASE DSkip(t) \/ DUnsafe(t)
    BY <1>1, <1>2, <1>3, <1>4, <2>4, SetIs DEF DSkip, DUnsafe, DCasMark, SharedTypes
  <2> QED
    BY <2>1, <2>2, <2>3, <2>4
<1>6. RingTypes'
  <2>1. CASE DTicket(t)
    BY <1>1, <1>2, <1>4, <2>1 DEF DTicket, RingTypes, SharedTypes
  <2>2. CASE DMark(t) \/ DVal(t)
    <3>1. /\ ticket' = ticket /\ tries' = tries
          /\ seen' \in {[seen EXCEPT ![t].mark = MarkAt(t)], [seen EXCEPT ![t].value = ValueAt(t)]}
      BY <2>2 DEF DMark, DVal
    <3>2. seen' \in [Threads -> [mark : MarkType, value : ValueType]]
      <4>1. CASE seen' = [seen EXCEPT ![t].mark = MarkAt(t)]
        BY <1>3, <4>1, SeenType
      <4>2. CASE seen' = [seen EXCEPT ![t].value = ValueAt(t)]
        BY <1>3, <4>2, SeenType
      <4> QED
        BY <3>1, <4>1, <4>2
    <3> QED
      BY <1>1, <1>4, <3>1, <3>2 DEF RingTypes
  <2>3. CASE DMark2(t) \/ DToken(t) \/ DSkip(t) \/ DUnsafe(t)
    <3>1. /\ ticket' = ticket /\ tries' = tries
          /\ seen' \in {seen, [seen EXCEPT ![t] = NoneSeen]}
      BY <2>3 DEF DMark2, DToken, DSkip, DUnsafe, DCasMark, Reread
    <3>2. seen' \in [Threads -> [mark : MarkType, value : ValueType]]
      BY <1>3, <1>4, <3>1, SeenType DEF RingTypes
    <3> QED
      BY <1>1, <1>4, <3>1, <3>2 DEF RingTypes
  <2>4. CASE DTake(t)
    BY <1>1, <1>4, <2>4, LeaveIs DEF DTake, Return, RingTypes
  <2>5. CASE DTail(t)
    BY <1>1, <1>3, <1>4, <2>5, SeenType DEF DTail, RingTypes
  <2> QED
    BY <2>1, <2>2, <2>3, <2>4, <2>5
<1>7. CallTypes'
  <2>1. CASE DTicket(t) \/ DMark(t) \/ DVal(t) \/ DTail(t)
    BY <1>1, <1>2, <1>4, <2>1 DEF DTicket, DMark, DVal, DTail, CallTypes, CellPcs, DequeuePcs
  <2>2. CASE DMark2(t)
    <3>1. pc' \in [Threads -> {"idle"} \union EnqueuePcs \union DequeuePcs] /\ pc'[t] # "idle"
          /\ (\A u \in Threads \ {t} : pc'[u] = pc[u]) /\ prq' = prq
      <4>2. Decide(t) \in {"dTake", "dSkip", "dToken", "dUnsafe", "dTail"}
        BY CellIs DEF Decide, Free, ValueType
      <4> QED
        BY <1>4, <2>2, <4>2 DEF DMark2, Reread, CallTypes, DequeuePcs, CellPcs
    <3> QED
      BY <1>1, <1>2, <1>4, <2>2, <3>1 DEF DMark2, Reread, CallTypes
  <2>3. CASE DToken(t) \/ DSkip(t) \/ DUnsafe(t)
    BY <1>1, <1>2, <1>4, <2>3 DEF DToken, DSkip, DUnsafe, DCasMark, Reread, CallTypes, CellPcs, DequeuePcs
  <2>4. CASE DTake(t)
    BY <1>1, <1>2, <1>4, <2>4 DEF DTake, Return, CallTypes
  <2> QED
    BY <2>1, <2>2, <2>3, <2>4
<1> QED
  BY <1>5, <1>6, <1>7, TypesSplit

LEMMA LocalsTake ==
  ASSUME TypeOK, List, NEW t \in Threads, Locals(t),
         DTicket(t) \/ DMark(t) \/ DVal(t) \/ DMark2(t) \/ DTake(t) \/ DToken(t)
         \/ DSkip(t) \/ DUnsafe(t) \/ DTail(t)
  PROVE  Locals(t)'
<1>1. R' = R /\ R \in Nat /\ Cycle(t) \in Nat /\ seen[t].value \in ValueType
      /\ seen[t].mark.epoch \in Nat
  BY OthersSame, CellIs DEF Step, Dequeue
<1>2. /\ prq[t] # 0 /\ prq[t] \in Rings /\ rhead[prq[t]] >= R
      /\ MarkAt(t) \in MarkType /\ ValueAt(t) \in ValueType
  <2>1. prq[t] # 0
    BY DEF TypeOK, DTicket, DMark, DVal, DMark2, DTake, DToken, DSkip, DUnsafe, DCasMark, DTail,
         Goto, Test, Return, Reread
  <2> QED
    BY <2>1, CellIs DEF List
<1>3. ticket \in [Threads -> Nat] /\ item \in [Threads -> Items \union {Null}]
      /\ again \in [Threads -> BOOLEAN] /\ prq \in [Threads -> Rings \union {0}]
  BY DEF TypeOK
<1>4. pc \in [Threads -> {"idle"} \union EnqueuePcs \union DequeuePcs]
  BY DEF TypeOK
<1> USE DEF Goto, Test, Locals, EnqueuePcs, DequeuePcs, CellPcs, PutPcs, TakePcs
<1>5. CASE DTicket(t)
  BY <1>1, <1>2, <1>3, <1>4, <1>5 DEF DTicket
<1>6. CASE DMark(t) \/ DVal(t)
  BY <1>1, <1>4, <1>6 DEF DMark, DVal
<1>7. CASE DMark2(t)
  <2>1. CASE Reread(t, "dMark2")
    BY <1>1, <1>4, <2>1 DEF Reread
  <2>2. CASE Test(t, "dMark2", Decide(t))
    <3>1. UNCHANGED <<item, prq, again, ticket, seen>> /\ Cycle(t)' = Cycle(t)
          /\ pc[t] = "dMark2" /\ pc'[t] = Decide(t)
      BY <1>1, <1>4, <2>2 DEF locals, ringLocals, Cycle
    <3>2. /\ Decide(t) \in {"dTake", "dSkip", "dToken", "dUnsafe", "dTail"}
          /\ Decide(t) = "dTake" => seen[t].value \in Items /\ seen[t].mark.epoch = Cycle(t)
          /\ Decide(t) = "dToken" => seen[t].value \in Threads /\ seen[t].mark.epoch <= Cycle(t)
          /\ Decide(t) = "dSkip" => seen[t].mark.epoch <= Cycle(t)
          /\ Decide(t) = "dUnsafe" => seen[t].value \in Items /\ seen[t].mark.epoch < Cycle(t)
      BY <1>1 DEF Decide, Free, ValueType
    <3>3. /\ item' = item /\ prq' = prq /\ again' = again /\ ticket' = ticket /\ seen' = seen
          /\ pc'[t] \in {"dTake", "dSkip", "dToken", "dUnsafe", "dTail"} /\ item[t] = Null
          /\ ticket[t] >= R
      BY <3>1, <3>2
    <3> QED
      BY <1>1, <3>1, <3>2, <3>3
  <2> QED
    BY <1>7, <2>1, <2>2 DEF DMark2
<1>8. CASE DTake(t)
  BY <1>1, <1>3, <1>4, <1>8 DEF DTake, Return
<1>9. CASE DToken(t) \/ DSkip(t) \/ DUnsafe(t)
  <2>1. CASE Reread(t, pc[t])
    BY <1>1, <1>4, <1>9, <2>1 DEF Reread, DToken, DSkip, DUnsafe, DCasMark
  <2>2. CASE UNCHANGED <<locals, calls>>
    BY <1>1, <1>4, <1>9, <2>2 DEF DToken, DSkip, DUnsafe, DCasMark, Reread, locals, ringLocals, Cycle
  <2> QED
    BY <1>9, <2>1, <2>2 DEF DToken, DSkip, DUnsafe, DCasMark, Reread
<1>10. CASE DTail(t)
  BY <1>1, <1>4, <1>10 DEF DTail
<1> QED
  BY <1>5, <1>6, <1>7, <1>8, <1>9, <1>10

----------------------------------------------------------------------------
(* The list of rings *)

LEMMA RingsAre ==
  /\ Cardinality(Items) \in Nat /\ Rings \subseteq Nat \ {0} /\ 1 \in Rings
  /\ \A n \in Nat : n <= Cardinality(Items) => n + 1 \in Rings
<1>1. Cardinality(Items) \in Nat
  BY FS_CardinalityType
<1> QED
  BY <1>1 DEF Rings

\* The first disjunct of LLink: thread t links a new ring.
LinkNew(t) ==
  LET n == prq[t] + 1
  IN  /\ pc[t] = "lLink" /\ pc'[t] = "lSwing" /\ next[prq[t]] = 0
      /\ next' = [next EXCEPT ![prq[t]] = n]
      /\ rtail' = [rtail EXCEPT ![n].t = R + 1]
      /\ mark' = [mark EXCEPT ![n][0] = Mark(TRUE, 1)]
      /\ value' = [value EXCEPT ![n][0] = item[t]]
      /\ qhead' = qhead /\ qtail' = qtail /\ rhead' = rhead
      /\ UNCHANGED <<locals, calls>>

\* What a step does to the list and to the rings other than its own.
RingKept(t) ==
  /\ next' = next
  /\ qhead' = qhead \/ (pc[t] = "lDSwing" /\ qhead = prq[t] /\ qhead' = next[prq[t]])
  /\ qtail' = qtail \/ (pc[t] \in {"lHelp", "lSwing"} /\ qtail = prq[t] /\ qtail' = next[prq[t]])
  /\ \A r \in Rings :
       /\ rhead'[r] \in {rhead[r], rhead[r] + 1} /\ rtail'[r].t \in {rtail[r].t, rtail[r].t + 1}
       /\ rtail[r].closed => rtail'[r].closed
       /\ r # prq[t] => /\ rhead'[r] = rhead[r] /\ rtail'[r] = rtail[r]
                         /\ mark'[r] = mark[r] /\ value'[r] = value[r]

LEMMA RingStep ==
  ASSUME TypeOK, NEW t \in Threads, Step(t)
  PROVE  RingKept(t) \/ LinkNew(t)
<1>1. /\ DOMAIN rhead = Rings /\ rtail \in [Rings -> [t : Nat, closed : BOOLEAN]]
      /\ DOMAIN mark = Rings /\ DOMAIN value = Rings /\ DOMAIN pc = Threads
  BY DEF TypeOK
<1> USE DEF Goto, Test, queue, ends, tickets, cells, locals, ringLocals, calls, RingKept
<1>2. CASE Call(t)
  BY <1>1, <1>2 DEF Call, CallDequeue, CallEnqueue
<1>3. CASE LTail(t) \/ LNext(t) \/ LHead(t) \/ LDNext(t)
  BY <1>1, <1>3 DEF LTail, LNext, LHead, LDNext
<1>4. CASE LHelp(t) \/ LSwing(t) \/ LDSwing(t)
  BY <1>1, <1>4 DEF LHelp, LSwing, LDSwing, CasTail, Again, EnqueueReturns, Return
<1>5. CASE LLink(t)
  <2>1. CASE Again(t, "lLink", "lTail")
    BY <1>1, <1>5, <2>1 DEF LLink, Again
  <2>2. CASE Goto(t, "lLink", "lSwing")
    BY <1>1, <1>5, <2>2 DEF LLink, Again, LinkNew
  <2> QED
    BY <1>5, <2>1, <2>2 DEF LLink
<1>6. CASE ETicket(t) \/ EClose(t) \/ DTicket(t)
  BY <1>1, <1>6 DEF ETicket, EClose, DTicket
<1>7. CASE EMark(t) \/ EVal(t) \/ EHead(t) \/ EOver(t)
  BY <1>1, <1>7 DEF EMark, EVal, EHead, EOver
<1>8. CASE EToken(t) \/ EEpoch(t) \/ EUndo(t) \/ EPut(t)
  BY <1>1, <1>8 DEF EToken, EEpoch, EUndo, EPut, SetMark, SetValue
<1>9. CASE DMark(t) \/ DVal(t) \/ DMark2(t) \/ DTail(t)
  BY <1>1, <1>9 DEF DMark, DVal, DMark2, DTail
<1>10. CASE DTake(t) \/ DToken(t) \/ DSkip(t) \/ DUnsafe(t)
  BY <1>1, <1>10 DEF DTake, DToken, DSkip, DUnsafe, DCasMark, SetMark, SetValue
<1> QED
  BY <1>2, <1>3, <1>4, <1>5, <1>6, <1>7, <1>8, <1>9, <1>10 DEF Step, Enqueue, Dequeue

\* Where the item of an enqueue comes from and where it goes.
ItemKept(t) ==
  /\ unsent' = unsent /\ entered' = entered /\ item'[t] = item[t]
  /\ pc[t] \in EnqueuePcs <=> pc'[t] \in EnqueuePcs
  /\ pc'[t] = "lSwing" => LinkNew(t)
  /\ pc[t] # "lSwing"

ItemTaken(t) ==
  /\ pc[t] = "idle" /\ pc'[t] = "lTail"
  /\ item'[t] \in unsent /\ unsent' = unsent \ {item'[t]} /\ entered' = entered

ItemEntered(t) ==
  /\ pc[t] \in {"lSwing", "ePut"} /\ pc'[t] = "idle" /\ unsent' = unsent
  /\ entered' = entered \union {item[t]}

LEMMA ItemStep ==
  ASSUME TypeOK, NEW t \in Threads, Locals(t), Step(t)
  PROVE  ItemKept(t) \/ ItemTaken(t) \/ ItemEntered(t)
<1>1. item \in [Threads -> Items \union {Null}] /\ DOMAIN pc = Threads
  BY DEF TypeOK
<1>2. item[t] # Null <=> pc[t] \in EnqueuePcs
  BY DEF Locals
<1> USE DEF Goto, Test, queue, ends, tickets, cells, locals, ringLocals, calls, EnqueuePcs
<1>3. CASE Call(t)
  BY <1>1, <1>2, <1>3 DEF Call, CallDequeue, CallEnqueue, ItemKept, ItemTaken
<1>4. CASE LTail(t) \/ LNext(t) \/ LHelp(t)
  BY <1>1, <1>4 DEF LTail, LNext, LHelp, Again, ItemKept
<1>5. CASE LLink(t)
  BY <1>1, <1>5 DEF LLink, Again, ItemKept, LinkNew
<1>6. CASE LSwing(t)
  BY <1>1, <1>6 DEF LSwing, EnqueueReturns, Return, ItemEntered
<1>7. CASE ETicket(t) \/ EMark(t) \/ EVal(t) \/ EHead(t) \/ EToken(t)
  BY <1>1, <1>7 DEF ETicket, EMark, EVal, EHead, EToken, ItemKept
<1>8. CASE EEpoch(t) \/ EUndo(t) \/ EOver(t) \/ EClose(t)
  BY <1>1, <1>8 DEF EEpoch, EUndo, EOver, EClose, ItemKept
<1>9. CASE EPut(t)
  BY <1>1, <1>9 DEF EPut, EnqueueReturns, Return, ItemEntered, ItemKept
<1>10. CASE LHead(t) \/ LDNext(t) \/ LDSwing(t)
  BY <1>1, <1>2, <1>10 DEF LHead, LDNext, LDSwing, Return, Again, ItemKept
<1>11. CASE DTicket(t) \/ DMark(t) \/ DVal(t) \/ DTail(t)
  BY <1>1, <1>11 DEF DTicket, DMark, DVal, DTail, ItemKept
<1>12. CASE DMark2(t)
  <2>1. Decide(t) \in {"dTake", "dSkip", "dToken", "dUnsafe", "dTail"}
    BY CellIs DEF Decide, Free, ValueType
  <2> QED
    BY <1>1, <1>12, <2>1 DEF DMark2, Reread, ItemKept
<1>13. CASE DTake(t)
  BY <1>1, <1>2, <1>13 DEF DTake, Return, ItemKept
<1>14. CASE DToken(t) \/ DSkip(t) \/ DUnsafe(t)
  BY <1>1, <1>14 DEF DToken, DSkip, DUnsafe, DCasMark, Reread, ItemKept
<1> QED
  BY <1>3, <1>4, <1>5, <1>6, <1>7, <1>8, <1>9, <1>10, <1>11, <1>12, <1>13, <1>14
  DEF Step, Enqueue, Dequeue

LEMMA OwnedStep ==
  ASSUME TypeOK, \A u \in Threads : Locals(u), Owned, NEW t \in Threads, Step(t)
  PROVE  Owned'
<1>1. \A u \in Threads \ {t} : pc'[u] = pc[u] /\ item'[u] = item[u]
  BY OthersSame DEF Same
<1>2. CASE ItemKept(t)
  BY <1>1, <1>2 DEF Owned, ItemKept
<1>3. CASE ItemTaken(t)
  BY <1>1, <1>3 DEF Owned, ItemTaken
<1>4. CASE ItemEntered(t)
  <2>1. pc[t] \in EnqueuePcs /\ pc'[t] \notin EnqueuePcs
    BY <1>4 DEF ItemEntered, EnqueuePcs
  <2> QED
    BY <1>1, <1>4, <2>1 DEF Owned, ItemEntered
<1> QED
  BY <1>2, <1>3, <1>4, ItemStep

\* What has been sent stays sent; linking a ring sends one item more.
LEMMA SentStep ==
  ASSUME TypeOK, \A u \in Threads : Locals(u), Owned, NEW t \in Threads, Step(t)
  PROVE  /\ Cardinality(Sent) <= Cardinality(Sent)'
         /\ Cardinality(Sent) \in Nat /\ Cardinality(Sent)' \in Nat
         /\ Pending(t) => Cardinality(Sent) + 1 <= Cardinality(Items)
         /\ LinkNew(t) => Cardinality(Sent)' = Cardinality(Sent) + 1
<1>1. \A u \in Threads \ {t} : pc'[u] = pc[u] /\ item'[u] = item[u]
  BY OthersSame DEF Same
<1>2. IsFiniteSet(Sent) /\ IsFiniteSet(Sent') /\ Sent \subseteq Items /\ Sent' \subseteq Items
  BY FS_Subset DEF Sent
<1>3. Sent \subseteq Sent'
  <2>1. CASE ItemKept(t)
    BY <1>1, <2>1 DEF Sent, ItemKept, Pending
  <2>2. CASE ItemTaken(t)
    BY <1>1, <2>2 DEF Sent, ItemTaken, Pending
  <2>3. CASE ItemEntered(t)
    BY <1>1, <2>3 DEF Sent, ItemEntered, Pending, EnqueuePcs
  <2> QED
    BY <2>1, <2>2, <2>3, ItemStep
<1>4. Pending(t) => item[t] \in Items /\ item[t] \notin Sent
  BY DEF Sent, Pending, Locals, TypeOK
<1>5. Pending(t) => Cardinality(Sent) + 1 <= Cardinality(Items)
  <2> SUFFICES ASSUME Pending(t) PROVE Cardinality(Sent) + 1 <= Cardinality(Items)
    OBVIOUS
  <2>1. Cardinality(Sent \union {item[t]}) = Cardinality(Sent) + 1 /\ IsFiniteSet(Sent \union {item[t]})
    BY <1>2, <1>4, FS_AddElement
  <2>2. Sent \union {item[t]} \subseteq Items
    BY <1>2, <1>4
  <2> QED
    BY <2>1, <2>2, FS_Subset
<1>6. ASSUME LinkNew(t) PROVE Sent' = Sent \union {item[t]} /\ item[t] \notin Sent
  <2>1. pc[t] = "lLink" /\ pc'[t] = "lSwing" /\ item' = item /\ unsent' = unsent
    BY <1>6 DEF LinkNew, locals, calls
  <2>2. Pending(t) /\ ~Pending(t)' /\ item[t] \notin unsent
    BY <2>1 DEF Pending, EnqueuePcs, Owned
  <2>3. \A u \in Threads \ {t} : Pending(u)' <=> Pending(u)
    BY <1>1 DEF Pending
  <2>4. \A u \in Threads \ {t} : Pending(u) => item[u] # item[t]
    BY <2>2 DEF Owned, Pending
  <2> QED
    BY <1>4, <2>1, <2>2, <2>3, <2>4 DEF Sent
<1>7. Cardinality(Sent) \in Nat /\ Cardinality(Sent') \in Nat /\ Cardinality(Sent) <= Cardinality(Sent')
  BY <1>2, <1>3, FS_Subset, FS_CardinalityType
<1>8. LinkNew(t) => Cardinality(Sent') = Cardinality(Sent) + 1
  BY <1>2, <1>6, FS_AddElement
<1> QED
  BY <1>5, <1>7, <1>8

\* The rings as they are after thread t has linked one.
LEMMA LinkedRing ==
  ASSUME TypeOK, \A u \in Threads : Locals(u), Owned, List, NEW t \in Threads, Step(t), LinkNew(t)
  PROVE  /\ prq[t] \in Rings /\ prq[t] + 1 \in Rings /\ Linked(prq[t]) /\ New(prq[t] + 1)
         /\ ~Linked(prq[t] + 1) /\ prq[t] <= Cardinality(Sent)'
         /\ \A r \in Rings : next'[r] = IF r = prq[t] THEN r + 1 ELSE next[r]
         /\ rtail'[prq[t] + 1] = [t |-> R + 1, closed |-> FALSE]
         /\ \A r \in Rings \ {prq[t] + 1} :
              rtail'[r] = rtail[r] /\ mark'[r] = mark[r] /\ value'[r] = value[r]
         /\ \A i \in Cells :
              /\ mark'[prq[t] + 1][i] = IF i = 0 THEN Mark(TRUE, 1) ELSE Mark(TRUE, 0)
              /\ value'[prq[t] + 1][i] = IF i = 0 THEN item[t] ELSE Null
         /\ mark' \in [Rings -> [Cells -> MarkType]] /\ value' \in [Rings -> [Cells -> ValueType]]
<1> DEFINE n == prq[t] + 1
<1>1. pc[t] = "lLink" /\ prq[t] \in Rings /\ Linked(prq[t]) /\ item[t] \in Items
  <2>1. pc[t] = "lLink"
    BY DEF LinkNew
  <2>2. prq[t] # 0 /\ prq[t] \in Rings
    BY <2>1 DEF TypeOK
  <2>3. item[t] # Null /\ item[t] \in Items \union {Null}
    BY <2>1 DEF TypeOK, Locals, EnqueuePcs
  <2> QED
    BY <2>1, <2>2, <2>3 DEF List
<1>2. prq[t] \in Nat \ {0} /\ Cardinality(Sent) \in Nat /\ Pending(t)
      /\ Cardinality(Sent) + 1 <= Cardinality(Items)
      /\ Cardinality(Sent)' = Cardinality(Sent) + 1
  BY <1>1, SentStep, RingsAre DEF Pending, EnqueuePcs
<1>3. prq[t] <= Cardinality(Sent) + 1
  <2>1. CASE prq[t] = 1
    BY <1>2, <2>1
  <2>2. CASE prq[t] # 1
    <3>1. next[prq[t] - 1] = prq[t] /\ prq[t] - 1 \in Nat \ {0}
      BY <1>1, <1>2, <2>2 DEF Linked
    <3>2. prq[t] - 1 \in Rings
      BY <1>1, <1>2, <3>1, RingsAre DEF Rings
    <3> QED
      BY <1>2, <3>1, <3>2 DEF List
  <2> QED
    BY <2>1, <2>2
<1>4. n \in Rings /\ n # prq[t]
  BY <1>2, <1>3, RingsAre
<1>5. ~Linked(n) /\ New(n)
  BY <1>1, <1>2, <1>4 DEF Linked, List, LinkNew
<1>6. 0 \in Cells /\ Mark(TRUE, 1) \in MarkType /\ item[t] \in ValueType
  BY <1>1 DEF TypeOK, Cells, Mark, MarkType, ValueType
<1>7. /\ mark' \in [Rings -> [Cells -> MarkType]] /\ value' \in [Rings -> [Cells -> ValueType]]
      /\ \A r \in Rings, i \in Cells :
           /\ mark'[r][i] = IF r = n /\ i = 0 THEN Mark(TRUE, 1) ELSE mark[r][i]
           /\ value'[r][i] = IF r = n /\ i = 0 THEN item[t] ELSE value[r][i]
  <2>1. mark' = [mark EXCEPT ![n][0] = Mark(TRUE, 1)] /\ mark \in [Rings -> [Cells -> MarkType]]
    BY DEF LinkNew, TypeOK
  <2>2. value' = [value EXCEPT ![n][0] = item[t]] /\ value \in [Rings -> [Cells -> ValueType]]
    BY DEF LinkNew, TypeOK
  <2> HIDE DEF n
  <2>3. /\ mark' \in [Rings -> [Cells -> MarkType]]
        /\ \A r \in Rings, i \in Cells :
             mark'[r][i] = IF r = n /\ i = 0 THEN Mark(TRUE, 1) ELSE mark[r][i]
    <3> DEFINE m == Mark(TRUE, 1)
    <3>1. /\ m \in MarkType /\ mark' = [mark EXCEPT ![n][0] = m]
          /\ mark \in [Rings -> [Cells -> MarkType]] /\ n \in Rings /\ 0 \in Cells
      BY <1>4, <1>6, <2>1
    <3> HIDE DEF m
    <3>2. /\ mark' \in [Rings -> [Cells -> MarkType]]
          /\ \A r \in Rings, i \in Cells :
               mark'[r][i] = IF r = n /\ i = 0 THEN m ELSE mark[r][i]
      BY <3>1, ExceptIs
    <3> QED
      BY <3>2 DEF m
  <2>4. /\ value' \in [Rings -> [Cells -> ValueType]]
        /\ \A r \in Rings, i \in Cells :
             value'[r][i] = IF r = n /\ i = 0 THEN item[t] ELSE value[r][i]
    BY <1>4, <1>6, <2>2, ExceptIs
  <2> QED
    BY <2>3, <2>4
<1>8. /\ \A r \in Rings : next'[r] = IF r = prq[t] THEN r + 1 ELSE next[r]
      /\ rtail' = [rtail EXCEPT ![n].t = R + 1] /\ rtail \in [Rings -> [t : Nat, closed : BOOLEAN]]
      /\ mark' = [mark EXCEPT ![n][0] = Mark(TRUE, 1)] /\ value' = [value EXCEPT ![n][0] = item[t]]
      /\ DOMAIN mark = Rings /\ DOMAIN value = Rings
  BY DEF LinkNew, TypeOK
<1>9. /\ rtail'[n] = [t |-> R + 1, closed |-> FALSE]
      /\ \A r \in Rings \ {n} : rtail'[r] = rtail[r] /\ mark'[r] = mark[r] /\ value'[r] = value[r]
  <2> HIDE DEF n
  <2>1. rtail[n] = [t |-> R, closed |-> FALSE]
    BY <1>5 DEF New
  <2>2. rtail'[n] = [rtail[n] EXCEPT !.t = R + 1]
    BY <1>4, <1>8
  <2>3. rtail'[n] = [t |-> R + 1, closed |-> FALSE]
    <3>1. \A a, b, c : [[t |-> a, closed |-> b] EXCEPT !.t = c] = [t |-> c, closed |-> b]
      OBVIOUS
    <3>2. [[t |-> R, closed |-> FALSE] EXCEPT !.t = R + 1] = [t |-> R + 1, closed |-> FALSE]
      BY <3>1
    <3>3. [rtail[n] EXCEPT !.t = R + 1] = [[t |-> R, closed |-> FALSE] EXCEPT !.t = R + 1]
      BY <2>1
    <3> QED
      BY <2>2, <3>2, <3>3
  <2>4. \A r \in Rings \ {n} : mark'[r] = mark[r] /\ value'[r] = value[r]
    BY <1>4, <1>8
  <2>5. \A r \in Rings \ {n} : rtail'[r] = rtail[r]
    BY <1>4, <1>8
  <2> QED
    BY <2>3, <2>4, <2>5
<1>10. \A i \in Cells :
         /\ mark'[n][i] = IF i = 0 THEN Mark(TRUE, 1) ELSE Mark(TRUE, 0)
         /\ value'[n][i] = IF i = 0 THEN item[t] ELSE Null
  BY <1>4, <1>5, <1>7 DEF New
<1>11. prq[t] <= Cardinality(Sent)'
  BY <1>2, <1>3
<1> QED
  BY <1>1, <1>4, <1>5, <1>7, <1>8, <1>9, <1>10, <1>11

\* Where thread t goes in the list.
LEMMA ListThread ==
  ASSUME TypeOK, List, NEW t \in Threads, Locals(t), Step(t)
  PROVE  /\ prq'[t] \in {prq[t], 0, qhead, qtail}
         /\ again'[t] \/ pc'[t] \in {"lHelp", "lSwing", "lDSwing"} =>
              prq'[t] = prq[t] /\ prq[t] # 0 /\ (next[prq[t]] # 0 \/ LinkNew(t))
         /\ pc'[t] = "lLink" => /\ prq'[t] = prq[t] /\ prq[t] # 0
                                /\ rtail[prq[t]].closed \/ EClose(t)
<1>1. /\ DOMAIN rtail = Rings /\ DOMAIN pc = Threads /\ DOMAIN prq = Threads
      /\ again \in [Threads -> BOOLEAN]
      /\ prq[t] = 0 => pc[t] \in {"idle", "lTail", "lHead"}
  BY DEF TypeOK
<1>2. /\ again[t] \/ pc[t] \in {"lHelp", "lSwing", "lDSwing"} => next[prq[t]] # 0
      /\ pc[t] \notin DequeuePcs \ {"lHead"} => ~again[t]
  BY DEF List, Locals
<1> USE DEF Goto, Test, queue, ends, tickets, cells, locals, ringLocals, calls, DequeuePcs, CellPcs
<1>3. CASE Call(t)
  BY <1>1, <1>2, <1>3 DEF Call, CallDequeue, CallEnqueue
<1>4. CASE LTail(t) \/ LNext(t) \/ LHelp(t)
  BY <1>1, <1>2, <1>4 DEF LTail, LNext, LHelp, Again
<1>5. CASE LLink(t)
  BY <1>1, <1>2, <1>5 DEF LLink, Again, LinkNew
<1>6. CASE LSwing(t) \/ EPut(t)
  BY <1>1, <1>2, <1>6 DEF LSwing, EPut, EnqueueReturns, Return
<1>7. CASE ETicket(t) \/ EMark(t) \/ EVal(t) \/ EHead(t) \/ EToken(t)
  BY <1>1, <1>2, <1>7 DEF ETicket, EMark, EVal, EHead, EToken
<1>8. CASE EEpoch(t) \/ EUndo(t) \/ EOver(t) \/ EClose(t)
  BY <1>1, <1>2, <1>8 DEF EEpoch, EUndo, EOver, EClose
<1>10. CASE LHead(t) \/ LDNext(t) \/ LDSwing(t)
  BY <1>1, <1>2, <1>10 DEF LHead, LDNext, LDSwing, Return, Again
<1>11. CASE DTicket(t) \/ DMark(t) \/ DVal(t) \/ DTail(t)
  BY <1>1, <1>2, <1>11 DEF DTicket, DMark, DVal, DTail
<1>12. CASE DMark2(t)
  <2>1. Decide(t) \in {"dTake", "dSkip", "dToken", "dUnsafe", "dTail"}
    BY CellIs DEF Decide, Free, ValueType
  <2> QED
    BY <1>1, <1>2, <1>12, <2>1 DEF DMark2, Reread
<1>13. CASE DTake(t)
  BY <1>1, <1>2, <1>13 DEF DTake, Return
<1>14. CASE DToken(t) \/ DSkip(t) \/ DUnsafe(t)
  BY <1>1, <1>2, <1>14 DEF DToken, DSkip, DUnsafe, DCasMark, Reread
<1> QED
  BY <1>3, <1>4, <1>5, <1>6, <1>7, <1>8, <1>10, <1>11, <1>12, <1>13, <1>14
  DEF Step, Enqueue, Dequeue

LEMMA ListStep ==
  ASSUME TypeOK, \A u \in Threads : Locals(u), Owned, List, NEW t \in Threads, Step(t)
  PROVE  List'
<1>1. R' = R /\ Cells' = Cells /\ \A u \in Threads \ {t} : Same(u)
  BY OthersSame DEF Cells
<1>2. /\ Cardinality(Sent) <= Cardinality(Sent)'
      /\ Cardinality(Sent) \in Nat /\ Cardinality(Sent)' \in Nat
  BY SentStep
<1>3. Rings \subseteq Nat \ {0} /\ R \in Nat /\ qhead \in Rings /\ qtail \in Rings
  BY RingsAre DEF TypeOK
<1>4. \A u \in Threads : prq[u] # 0 => prq[u] \in Rings /\ Linked(prq[u])
  BY DEF TypeOK, List
<1>5. \A r \in Rings : rhead[r] \in Nat /\ rtail[r].t \in Nat
  BY DEF TypeOK
<1>6. CASE RingKept(t)
  <2>1. \A r \in Nat : Linked(r)' <=> Linked(r)
    BY <1>6 DEF RingKept, Linked
  <2>2. ASSUME NEW r \in Rings
        PROVE  /\ rhead'[r] >= R /\ rtail'[r].t >= R
               /\ next'[r] \in {0, r + 1}
               /\ next'[r] # 0 => Linked(r)' /\ rtail'[r].closed /\ r <= Cardinality(Sent)'
    <3>1. /\ rhead[r] >= R /\ rtail[r].t >= R /\ next[r] \in {0, r + 1}
          /\ next[r] # 0 => Linked(r) /\ rtail[r].closed /\ r <= Cardinality(Sent)
      BY DEF List
    <3> QED
      BY <1>2, <1>3, <1>5, <1>6, <2>1, <3>1 DEF RingKept
  <2>3. ASSUME NEW r \in Rings, ~Linked(r)' PROVE New(r)'
    <3>1. ~Linked(r) /\ r # prq[t]
      BY <1>3, <1>4, <2>1, <2>3
    <3>2. New(r)
      BY <3>1 DEF List
    <3>3. /\ rhead'[r] = rhead[r] /\ rtail'[r] = rtail[r] /\ mark'[r] = mark[r]
          /\ value'[r] = value[r] /\ next'[r] = next[r]
      BY <1>6, <3>1 DEF RingKept
    <3> QED
      BY <1>1, <3>2, <3>3 DEF New
  <2>4. Linked(qhead)' /\ Linked(qtail)'
    <3>1. next[prq[t]] # 0 /\ prq[t] \in Rings => Linked(next[prq[t]]) /\ next[prq[t]] \in Nat
      <4> SUFFICES ASSUME next[prq[t]] # 0, prq[t] \in Rings
                   PROVE  Linked(next[prq[t]]) /\ next[prq[t]] \in Nat
        OBVIOUS
      <4>0. \A r \in Rings : next[r] \in {0, r + 1}
        BY DEF List
      <4>1. next[prq[t]] = prq[t] + 1
        BY <4>0
      <4>2. prq[t] \in Nat
        BY <1>3
      <4>3. (prq[t] + 1) - 1 = prq[t]
        BY <4>2
      <4> QED
        BY <4>1, <4>2, <4>3 DEF Linked
    <3>2. pc[t] \in {"lDSwing", "lHelp", "lSwing"} => next[prq[t]] # 0 /\ prq[t] \in Rings
      BY DEF List, TypeOK
    <3>3. Linked(qhead) /\ Linked(qtail)
      BY DEF List
    <3>4. \A r \in Rings \union {next[prq[t]]} : r \in Nat /\ Linked(r) => Linked(r)'
      BY <2>1
    <3>5. Linked(qhead)'
      <4>1. qhead' \in Nat /\ Linked(qhead')
        BY <1>3, <1>6, <3>1, <3>2, <3>3 DEF RingKept
      <4> QED
        BY <1>6, <4>1 DEF RingKept, Linked
    <3>6. Linked(qtail)'
      <4>1. qtail' \in Nat /\ Linked(qtail')
        BY <1>3, <1>6, <3>1, <3>2, <3>3 DEF RingKept
      <4> QED
        BY <1>6, <4>1 DEF RingKept, Linked
    <3> QED
      BY <3>5, <3>6
  <2>5. ASSUME NEW u \in Threads
        PROVE  /\ prq'[u] # 0 => Linked(prq[u])'
               /\ again'[u] \/ pc'[u] \in {"lHelp", "lSwing", "lDSwing"} => next'[prq'[u]] # 0
               /\ pc'[u] = "lLink" => rtail'[prq'[u]].closed
    <3>0. next' = next /\ ~LinkNew(t) /\ \A r \in Rings : rtail[r].closed => rtail'[r].closed
      <4>1. LinkNew(t) => next'[prq[t]] = prq[t] + 1 /\ prq[t] \in Nat /\ next[prq[t]] = 0
        BY LinkedRing, <1>3 DEF LinkNew
      <4> QED
        BY <1>6, <4>1 DEF RingKept
    <3>1. CASE u # t
      <4>1. prq'[u] = prq[u] /\ again'[u] = again[u] /\ pc'[u] = pc[u]
        BY <1>1, <3>1 DEF Same
      <4>2. prq[u] # 0 => Linked(prq[u])'
        BY <1>4, <3>0, <4>1 DEF Linked
      <4>3. /\ again[u] \/ pc[u] \in {"lHelp", "lSwing", "lDSwing"} => next[prq[u]] # 0
            /\ pc[u] = "lLink" => rtail[prq[u]].closed
        BY DEF List
      <4>4. pc[u] = "lLink" => prq[u] \in Rings
        BY DEF TypeOK
      <4> QED
        BY <3>0, <4>1, <4>2, <4>3, <4>4
    <3>2. CASE u = t
      <4>1. Linked(qhead) /\ Linked(qtail)
        BY DEF List
      <4>2. prq'[t] # 0 => Linked(prq[t])'
        BY <1>4, <3>0, <4>1, ListThread DEF Linked
      <4>3. again'[t] \/ pc'[t] \in {"lHelp", "lSwing", "lDSwing"} => next'[prq'[t]] # 0
        BY <3>0, ListThread
      <4>4. pc'[t] = "lLink" => rtail'[prq'[t]].closed
        <5>1. EClose(t) /\ prq[t] # 0 => rtail'[prq[t]].closed
          BY <1>4 DEF EClose, TypeOK
        <5> QED
          BY <1>4, <3>0, <5>1, ListThread
      <4> QED
        BY <3>2, <4>2, <4>3, <4>4
    <3> QED
      BY <3>1, <3>2
  <2> QED
    BY <1>1, <2>2, <2>3, <2>4, <2>5 DEF List
<1>7. CASE LinkNew(t)
  <2> DEFINE n == prq[t] + 1
  <2>1. /\ prq[t] \in Rings /\ n \in Rings /\ Linked(prq[t]) /\ New(n) /\ ~Linked(n)
        /\ prq[t] <= Cardinality(Sent)'
        /\ \A r \in Rings : next'[r] = IF r = prq[t] THEN n ELSE next[r]
        /\ rtail'[n] = [t |-> R + 1, closed |-> FALSE]
        /\ \A r \in Rings \ {n} : rtail'[r] = rtail[r] /\ mark'[r] = mark[r] /\ value'[r] = value[r]
    BY <1>7, LinkedRing
  <2>2. /\ rhead' = rhead /\ qhead' = qhead /\ qtail' = qtail /\ prq' = prq /\ again' = again
        /\ pc[t] = "lLink" /\ pc'[t] = "lSwing" /\ next[prq[t]] = 0
    BY <1>7 DEF LinkNew, locals
  <2> HIDE DEF n
  <2>3. n = prq[t] + 1
    BY DEF n
  <2>4. \A r \in Rings : Linked(r)' <=> Linked(r) \/ r = n
    <3> TAKE r \in Rings
    <3>1. CASE r = 1
      BY <3>1 DEF Linked
    <3>2. CASE r # 1
      <4>1. r - 1 \in Rings
        BY <3>2, RingsAre DEF Rings
      <4>2. next'[r - 1] = IF r - 1 = prq[t] THEN n ELSE next[r - 1]
        BY <2>1, <4>1
      <4>3. r \in Nat /\ prq[t] \in Nat
        BY <1>3, <2>1
      <4>4. r - 1 = prq[t] <=> r = n
        BY <2>3, <4>3
      <4>5. r - 1 # prq[t] => (Linked(r)' <=> Linked(r))
        BY <3>2, <4>2 DEF Linked
      <4>6. r = n => Linked(r)'
        BY <4>2, <4>4 DEF Linked
      <4> QED
        BY <4>4, <4>5, <4>6, <2>1
    <3> QED
      BY <3>1, <3>2
  <2>5. ASSUME NEW r \in Rings
        PROVE  /\ rhead'[r] >= R /\ rtail'[r].t >= R
               /\ next'[r] \in {0, r + 1}
               /\ next'[r] # 0 => Linked(r)' /\ rtail'[r].closed /\ r <= Cardinality(Sent)'
               /\ ~Linked(r)' => New(r)'
    <3>1. /\ rhead[r] >= R /\ rtail[r].t >= R /\ next[r] \in {0, r + 1}
          /\ next[r] # 0 => Linked(r) /\ rtail[r].closed /\ r <= Cardinality(Sent)
          /\ ~Linked(r) => New(r)
      BY DEF List
    <3>2. rtail[prq[t]].closed
      BY <2>2 DEF List
    <3>3. n # prq[t]
      BY <1>3, <2>1, <2>3
    <3>4. CASE r = n
      <4>1. next'[r] = 0 /\ rtail'[r].t = R + 1 /\ rhead'[r] = R /\ Linked(r)'
        BY <2>1, <2>2, <2>4, <3>3, <3>4 DEF New
      <4> QED
        BY <1>3, <3>4, <4>1
    <3>5. CASE r = prq[t]
      <4>1. r # n /\ r \in Nat
        BY <1>3, <2>1, <2>3, <3>5
      <4> QED
        BY <1>2, <1>3, <2>1, <2>2, <2>3, <2>4, <3>1, <3>2, <3>5, <4>1
    <3>6. CASE r # n /\ r # prq[t]
      <4>1. /\ next'[r] = next[r] /\ rtail'[r] = rtail[r] /\ mark'[r] = mark[r]
            /\ value'[r] = value[r] /\ rhead'[r] = rhead[r] /\ (Linked(r)' <=> Linked(r))
        BY <2>1, <2>2, <2>4, <3>6
      <4>2. New(r) => New(r)'
        BY <1>1, <4>1 DEF New
      <4> QED
        BY <1>2, <1>3, <3>1, <4>1, <4>2
    <3> QED
      BY <3>4, <3>5, <3>6
  <2>6. Linked(qhead)' /\ Linked(qtail)'
    <3>1. Linked(qhead) /\ Linked(qtail) /\ qhead' = qhead /\ qtail' = qtail
      BY <2>2 DEF List
    <3>2. (\A r \in Rings : Linked(r) => Linked(r)')
      BY <2>4
    <3> QED
      BY <1>3, <3>1, <3>2 DEF Linked
  <2>7. ASSUME NEW u \in Threads
        PROVE  /\ prq'[u] # 0 => Linked(prq[u])'
               /\ again'[u] \/ pc'[u] \in {"lHelp", "lSwing", "lDSwing"} => next'[prq'[u]] # 0
               /\ pc'[u] = "lLink" => rtail'[prq'[u]].closed
    <3>0. /\ prq[u] # 0 => Linked(prq[u])
          /\ again[u] \/ pc[u] \in {"lHelp", "lSwing", "lDSwing"} => next[prq[u]] # 0
          /\ pc[u] = "lLink" => rtail[prq[u]].closed
          /\ prq'[u] = prq[u] /\ again'[u] = again[u]
          /\ u # t => pc'[u] = pc[u]
      BY <1>1, <2>2 DEF List, Same
    <3>1. prq[u] # 0 => Linked(prq[u])'
      <4>1. ASSUME prq[u] # 0 PROVE next[prq[u] - 1] = next'[prq[u] - 1] \/ prq[u] = 1 \/ prq[u] - 1 = prq[t]
        <5>1. prq[u] # 1 => prq[u] - 1 \in Rings
          BY <1>4, <4>1, RingsAre DEF Rings
        <5> QED
          BY <2>1, <5>1
      <4>2. \A r \in Rings : Linked(r) => Linked(r)'
        BY <2>4
      <4>3. prq[u] # 0 => Linked(prq[u])' \/ prq[u] # prq'[u]
        BY <1>4, <3>0, <4>2 DEF Linked
      <4> QED
        BY <3>0, <4>3
    <3>2. prq[u] # 0 => next'[prq[u]] = next[prq[u]] \/ next'[prq[u]] # 0
      BY <1>3, <1>4, <2>1
    <3>3. prq[u] # 0 /\ prq[u] # n => rtail'[prq[u]] = rtail[prq[u]]
      BY <1>4, <2>1
    <3>4. prq[u] # n /\ (pc'[u] \in {"lHelp", "lSwing", "lDSwing", "lLink"} \/ again'[u] => prq[u] # 0)
      <4>1. prq[u] # n
        BY <1>4, <2>1, <2>3, <1>3
      <4>2. again[u] => pc[u] \in DequeuePcs \ {"lHead"}
        BY DEF Locals
      <4>3. prq[u] = 0 => pc[u] \in {"idle", "lTail", "lHead"} /\ u # t
        BY <2>2 DEF TypeOK
      <4>4. prq[u] = 0 => ~again[u]
        BY <4>2, <4>3 DEF DequeuePcs, CellPcs
      <4> QED
        BY <3>0, <4>1, <4>3, <4>4
    <3> QED
      BY <2>1, <2>2, <3>0, <3>1, <3>2, <3>3, <3>4, <1>3
  <2> QED
    BY <1>1, <2>5, <2>6, <2>7 DEF List
<1> QED
  BY <1>6, <1>7, RingStep

LEMMA TypesLink ==
  ASSUME TypeOK, \A u \in Threads : Locals(u), Owned, List, NEW t \in Threads, LLink(t)
  PROVE  TypeOK' /\ Locals(t)'
<1>1. R' = R /\ freed' = freed /\ Cells' = Cells /\ StarvingThreshold' = StarvingThreshold
      /\ Step(t)
  BY OthersSame DEF Step, Enqueue, Cells, StarvingThreshold
<1>2. SharedTypes /\ CallTypes /\ RingTypes
  BY TypesSplit
<1>3. CASE Again(t, "lLink", "lTail")
  <2>1. SharedTypes'
    <3>1. pc'[t] = "lTail" /\ (Goto(t, "lLink", "lSwing") => pc'[t] = "lSwing")
      BY <1>2, <1>3 DEF Again, Goto, CallTypes
    <3>2. /\ next' = next /\ rtail' = rtail /\ mark' = mark /\ value' = value
          /\ qhead' = qhead /\ qtail' = qtail /\ rhead' = rhead
      BY <3>1 DEF LLink, cells
    <3> QED
      BY <1>1, <1>2, <3>2 DEF SharedTypes
  <2>2. RingTypes'
    BY <1>1, <1>3, LeaveIs DEF Again, RingTypes
  <2>3. CallTypes'
    BY <1>1, <1>2, <1>3 DEF Again, Goto, calls, CallTypes, EnqueuePcs
  <2>4. Locals(t)'
    BY <1>1, <1>2, <1>3 DEF Again, Goto, CallTypes, Locals, EnqueuePcs, DequeuePcs, CellPcs, PutPcs, TakePcs
  <2> QED
    BY <2>1, <2>2, <2>3, <2>4, TypesSplit
<1>4. CASE LinkNew(t)
  <2>1. /\ prq[t] \in Rings /\ prq[t] + 1 \in Rings
        /\ rtail'[prq[t] + 1] = [t |-> R + 1, closed |-> FALSE]
        /\ \A r \in Rings \ {prq[t] + 1} : rtail'[r] = rtail[r]
        /\ mark' \in [Rings -> [Cells -> MarkType]] /\ value' \in [Rings -> [Cells -> ValueType]]
    BY <1>1, <1>4, LinkedRing
  <2>2. /\ next' = [next EXCEPT ![prq[t]] = prq[t] + 1]
        /\ rtail' = [rtail EXCEPT ![prq[t] + 1].t = R + 1]
        /\ qhead' = qhead /\ qtail' = qtail /\ rhead' = rhead
        /\ pc[t] = "lLink" /\ pc'[t] = "lSwing"
        /\ UNCHANGED <<locals, calls>>
    BY <1>4 DEF LinkNew
  <2>3. rtail' \in [Rings -> [t : Nat, closed : BOOLEAN]]
    <3>1. R + 1 \in Nat
      BY <1>2 DEF SharedTypes
    <3>2. [t |-> R + 1, closed |-> FALSE] \in [t : Nat, closed : BOOLEAN]
      BY <3>1
    <3>3. \A r \in Rings : rtail'[r] \in [t : Nat, closed : BOOLEAN]
      BY <1>2, <2>1, <3>2 DEF SharedTypes
    <3>4. rtail' = [r \in Rings |-> rtail'[r]]
      BY <1>2, <2>2 DEF SharedTypes
    <3> QED
      BY <3>3, <3>4
  <2>4. SharedTypes'
    BY <1>1, <1>2, <2>1, <2>2, <2>3 DEF SharedTypes
  <2>5. RingTypes'
    BY <1>1, <1>2, <2>2 DEF locals, ringLocals, RingTypes
  <2>6. pc' = [pc EXCEPT ![t] = "lSwing"]
    <3>1. pc' \in {[pc EXCEPT ![t] = "lSwing"], [pc EXCEPT ![t] = "lTail"]} /\ DOMAIN pc = Threads
      BY <1>2 DEF LLink, Goto, Again, CallTypes
    <3> QED
      BY <2>2, <3>1
  <2>7. CallTypes'
    BY <1>1, <1>2, <2>1, <2>2, <2>6 DEF locals, calls, CallTypes, EnqueuePcs
  <2>8. Locals(t)'
    BY <2>2 DEF locals, ringLocals, Locals, EnqueuePcs, DequeuePcs, CellPcs, PutPcs, TakePcs
  <2> QED
    BY <2>4, <2>5, <2>7, <2>8, TypesSplit
<1> QED
  <2>1. Again(t, "lLink", "lTail") \/ (Goto(t, "lLink", "lSwing") /\ next[prq[t]] = 0)
    BY DEF LLink
  <2>2. RingKept(t) \/ LinkNew(t)
    BY <1>1, RingStep
  <2>3. ASSUME Goto(t, "lLink", "lSwing"), next[prq[t]] = 0 PROVE LinkNew(t)
    BY <1>2, <2>3 DEF LLink, Goto, Again, LinkNew, CallTypes
  <2> QED
    BY <1>3, <1>4, <2>1, <2>3

LEMMA BasicsStep ==
  ASSUME Basics, NEW t \in Threads, Step(t)
  PROVE  Basics'
<1>1. TypeOK /\ Locals(t) /\ (\A u \in Threads : Locals(u)) /\ Owned /\ List
  BY DEF Basics
<1>2. TypeOK' /\ Locals(t)'
  <2>1. CASE Call(t)
    BY <1>1, <2>1, TypesCall
  <2>2. CASE LTail(t) \/ LNext(t) \/ LHelp(t) \/ LSwing(t) \/ LHead(t) \/ LDNext(t) \/ LDSwing(t)
    BY <1>1, <2>2, TypesList
  <2>3. CASE LLink(t)
    BY <1>1, <2>3, TypesLink
  <2>4. CASE ETicket(t) \/ EMark(t) \/ EVal(t) \/ EHead(t) \/ EToken(t) \/ EEpoch(t)
             \/ EUndo(t) \/ EPut(t) \/ EOver(t) \/ EClose(t)
    BY <1>1, <2>4, TypesPut, LocalsPut
  <2>5. CASE DTicket(t) \/ DMark(t) \/ DVal(t) \/ DMark2(t) \/ DTake(t) \/ DToken(t)
             \/ DSkip(t) \/ DUnsafe(t) \/ DTail(t)
    BY <1>1, <2>5, TypesTake, LocalsTake
  <2> QED
    BY <2>1, <2>2, <2>3, <2>4, <2>5 DEF Step, Enqueue, Dequeue
<1>3. \A u \in Threads : Locals(u)'
  BY <1>1, <1>2, LocalsKept
<1> QED
  BY <1>1, <1>2, <1>3, OwnedStep, ListStep DEF Basics

\* Steps that only the destructor takes, or nobody.
LEMMA QuietStep ==
  ASSUME TypeOK, Destroy \/ Finished \/ UNCHANGED vars
  PROVE  /\ UNCHANGED <<R, queue, pc, locals, calls>> /\ freed' \subseteq Rings
BY DEF TypeOK, Destroy, Finished, vars

LEMMA BasicsQuiet ==
  ASSUME Basics, Destroy \/ Finished \/ UNCHANGED vars
  PROVE  Basics'
<1>1. TypeOK /\ UNCHANGED <<R, queue, pc, locals, calls>> /\ freed' \subseteq Rings
  BY QuietStep DEF Basics
<1>2. /\ R' = R /\ Cells' = Cells /\ pc' = pc /\ freed' \subseteq Rings
      /\ qhead' = qhead /\ qtail' = qtail /\ next' = next /\ rhead' = rhead /\ rtail' = rtail
      /\ mark' = mark /\ value' = value /\ item' = item /\ prq' = prq /\ again' = again
      /\ ticket' = ticket /\ seen' = seen /\ tries' = tries /\ unsent' = unsent
      /\ dequeues' = dequeues /\ entered' = entered /\ prior' = prior /\ out' = out /\ known' = known
  BY <1>1 DEF queue, ends, tickets, cells, locals, ringLocals, calls, Cells
<1>3. TypeOK'
  BY <1>1, <1>2 DEF TypeOK, StarvingThreshold
<1>4. \A t \in Threads : Locals(t)'
  <2> TAKE t \in Threads
  <2>1. Locals(t)
    BY DEF Basics
  <2> QED
    BY <1>2, <2>1 DEF Locals, Cycle
<1>5. Owned' /\ Sent' = Sent
  BY <1>2 DEF Basics, Owned, Sent, Pending
<1>6. List'
  <2>1. List
    BY DEF Basics
  <2>2. Cardinality(Sent)' = Cardinality(Sent)
    BY <1>5
  <2> QED
    BY <1>2, <2>1, <2>2 DEF List, Linked, New
<1> QED
  BY <1>3, <1>4, <1>5, <1>6 DEF Basics

LEMMA BasicsInit == Init => Basics
<1> SUFFICES ASSUME Init PROVE Basics
  OBVIOUS
<1>1. TypeOK /\ \A t \in Threads : Locals(t)
  BY TypeInit
<1>2. Owned
  BY DEF Init, Owned, EnqueuePcs
<1>3. List
  BY <1>1, RingsAre DEF Init, List, Linked, New, TypeOK
<1> QED
  BY <1>1, <1>2, <1>3 DEF Basics

\* Tickets, rings and locals have the types the code gives them; in particular
\* no call follows a null pointer between rings: outside the loops of
\* LPRQueue its local prq is a ring.
THEOREM TypeCorrect == Spec => []TypeOK
<1>1. Basics /\ [Next]_vars => Basics'
  BY BasicsStep, BasicsQuiet DEF Next, Step
<1>2. Basics => TypeOK
  BY DEF Basics
<1> QED
  BY <1>1, <1>2, BasicsInit, PTL DEF Spec

----------------------------------------------------------------------------
(* What a step does to the cells *)

MarkSet(t, m) ==
  \A r \in Rings, i \in Cells :
    mark'[r][i] = IF r = prq[t] /\ i = Cell(ticket[t]) THEN m ELSE mark[r][i]
ValueSet(t, v) ==
  \A r \in Rings, i \in Cells :
    value'[r][i] = IF r = prq[t] /\ i = Cell(ticket[t]) THEN v ELSE value[r][i]
MarkKept == \A r \in Rings, i \in Cells : mark'[r][i] = mark[r][i]
ValueKept == \A r \in Rings, i \in Cells : value'[r][i] = value[r][i]

\* Thread t goes from one access to another at the cell of its ticket.
Moves(t, from, to) ==
  /\ pc[t] = from /\ pc'[t] = to /\ prq[t] \in Rings
  /\ prq'[t] = prq[t] /\ ticket'[t] = ticket[t] /\ seen'[t] = seen[t]
Leaves(t, from) ==
  pc[t] = from /\ pc'[t] = "idle" /\ prq[t] \in Rings /\ prq'[t] = 0

\* The steps that change a cell, by what they do.
Reserves(t) ==
  /\ Moves(t, "eToken", "eEpoch") /\ ValueAt(t) = seen[t].value
  /\ ValueSet(t, t) /\ MarkKept /\ out' = out
Marks(t) ==
  /\ Moves(t, "eEpoch", "ePut") /\ MarkAt(t) = seen[t].mark
  /\ MarkSet(t, Mark(TRUE, Cycle(t))) /\ ValueKept /\ out' = out
Undoes(t) ==
  /\ Moves(t, "eUndo", "eOver") /\ ValueAt(t) = t
  /\ ValueSet(t, Null) /\ MarkKept /\ out' = out
Puts(t) ==
  /\ Leaves(t, "ePut") /\ ValueAt(t) = t
  /\ ValueSet(t, item[t]) /\ MarkKept /\ out' = out
Takes(t) ==
  /\ Leaves(t, "dTake")
  /\ ValueSet(t, Null) /\ MarkKept /\ out' = [out EXCEPT ![seen[t].value] = @ + 1]
Empties(t) ==
  /\ Moves(t, "dToken", "dSkip") /\ ValueAt(t) = seen[t].value
  /\ ValueSet(t, Null) /\ MarkKept /\ out' = out
Skips(t) ==
  /\ Moves(t, "dSkip", "dTail") /\ MarkAt(t) = seen[t].mark
  /\ MarkSet(t, Mark(seen[t].mark.safe, Cycle(t))) /\ ValueKept /\ out' = out
Spoils(t) ==
  /\ Moves(t, "dUnsafe", "dTail") /\ MarkAt(t) = seen[t].mark
  /\ MarkSet(t, Mark(FALSE, seen[t].mark.epoch)) /\ ValueKept /\ out' = out

\* The steps that change no cell; those of the accesses above that fail.
CellsKept(t) ==
  /\ MarkKept /\ ValueKept /\ out' = out
  /\ pc'[t] # "ePut" /\ pc'[t] # "eEpoch"
  /\ pc[t] \in {"eEpoch", "eUndo", "ePut"} =>
       /\ prq'[t] = prq[t]
       /\ \/ pc[t] = "eEpoch" /\ pc'[t] = "eUndo" /\ ticket'[t] = ticket[t]
          \/ ValueAt(t) # t
  /\ pc[t] # "dTake" /\ (pc[t] = "dToken" => pc'[t] = "dMark")
  /\ pc[t] \in CellPcs /\ pc'[t] \notin CellPcs =>
       pc[t] = "dMark2" /\ MarkAt(t) = seen[t].mark /\ Cycle(t) < seen[t].mark.epoch

LEMMA CellStep ==
  ASSUME TypeOK, \A u \in Threads : Locals(u), Owned, List, NEW t \in Threads, Step(t)
  PROVE  \/ CellsKept(t) \/ LinkNew(t)
         \/ Reserves(t) \/ Marks(t) \/ Undoes(t) \/ Puts(t)
         \/ Takes(t) \/ Empties(t) \/ Skips(t) \/ Spoils(t)
<1>1. /\ pc \in [Threads -> {"idle"} \union EnqueuePcs \union DequeuePcs]
      /\ prq \in [Threads -> Rings \union {0}] /\ DOMAIN ticket = Threads
      /\ DOMAIN seen = Threads
      /\ \A u \in Threads : prq[u] = 0 => pc[u] \in {"idle", "lTail", "lHead"}
  BY DEF TypeOK
<1>2. /\ Mark(TRUE, Cycle(t)) \in MarkType /\ Mark(seen[t].mark.safe, Cycle(t)) \in MarkType
      /\ Mark(FALSE, seen[t].mark.epoch) \in MarkType
      /\ t \in ValueType /\ Null \in ValueType /\ item[t] \in ValueType
  BY CellIs DEF Mark, MarkType, ValueType, TypeOK
<1>3. /\ \A m \in MarkType : SetMark(t, m) /\ prq[t] # 0 => MarkSet(t, m)
      /\ \A v \in ValueType : SetValue(t, v) /\ prq[t] # 0 => ValueSet(t, v)
  BY SetIs DEF MarkSet, ValueSet
<1>4. (mark' = mark => MarkKept) /\ (value' = value => ValueKept)
  BY DEF MarkKept, ValueKept
<1> USE DEF Goto, Test, queue, ends, tickets, cells, locals, ringLocals, calls, Moves, Leaves, CellPcs
<1>5. CASE Call(t)
  BY <1>1, <1>4, <1>5 DEF Call, CallDequeue, CallEnqueue, CellsKept
<1>6. CASE LTail(t) \/ LNext(t) \/ LHelp(t)
  BY <1>1, <1>4, <1>6 DEF LTail, LNext, LHelp, Again, CellsKept
<1>7. CASE LLink(t)
  <2>1. CASE Again(t, "lLink", "lTail")
    BY <1>1, <1>4, <1>7, <2>1 DEF LLink, Again, CellsKept
  <2>2. CASE Goto(t, "lLink", "lSwing")
    BY <1>1, <1>7, <2>2 DEF LLink, Again, LinkNew
  <2> QED
    BY <1>7, <2>1, <2>2 DEF LLink
<1>8. CASE LSwing(t)
  BY <1>1, <1>4, <1>8 DEF LSwing, EnqueueReturns, Return, CellsKept
<1>9. CASE ETicket(t) \/ EMark(t) \/ EVal(t) \/ EHead(t) \/ EOver(t) \/ EClose(t)
  BY <1>1, <1>4, <1>9 DEF ETicket, EMark, EVal, EHead, EOver, EClose, CellsKept
<1>10. CASE EToken(t)
  BY <1>1, <1>2, <1>3, <1>4, <1>10 DEF EToken, Reserves, CellsKept
<1>11. CASE EEpoch(t)
  BY <1>1, <1>2, <1>3, <1>4, <1>11 DEF EEpoch, Marks, CellsKept
<1>12. CASE EUndo(t)
  BY <1>1, <1>2, <1>3, <1>4, <1>12 DEF EUndo, Undoes, CellsKept
<1>13. CASE EPut(t)
  BY <1>1, <1>2, <1>3, <1>4, <1>13 DEF EPut, EnqueueReturns, Return, Puts, CellsKept
<1>14. CASE LHead(t) \/ LDNext(t) \/ LDSwing(t)
  BY <1>1, <1>4, <1>14 DEF LHead, LDNext, LDSwing, Return, Again, CellsKept
<1>15. CASE DTicket(t) \/ DMark(t) \/ DVal(t) \/ DTail(t)
  BY <1>1, <1>4, <1>15 DEF DTicket, DMark, DVal, DTail, CellsKept
<1>16. CASE DMark2(t)
  <2>1. /\ Decide(t) \in {"dTake", "dSkip", "dToken", "dUnsafe", "dTail"}
        /\ Decide(t) = "dTail" => Cycle(t) < seen[t].mark.epoch
    BY CellIs DEF Decide, Free, ValueType
  <2>2. CASE Reread(t, "dMark2") /\ UNCHANGED queue
    BY <1>1, <1>4, <2>2 DEF Reread, CellsKept
  <2>3. CASE Test(t, "dMark2", Decide(t)) /\ MarkAt(t) = seen[t].mark
    BY <1>1, <1>4, <2>1, <2>3 DEF CellsKept
  <2> QED
    BY <1>16, <2>2, <2>3 DEF DMark2
<1>17. CASE DTake(t)
  BY <1>1, <1>2, <1>3, <1>4, <1>17 DEF DTake, Return, Takes
<1>18. CASE DToken(t)
  BY <1>1, <1>2, <1>3, <1>4, <1>18 DEF DToken, Reread, Empties, CellsKept
<1>19. CASE DSkip(t)
  BY <1>1, <1>2, <1>3, <1>4, <1>19 DEF DSkip, DCasMark, Reread, Skips, CellsKept
<1>20. CASE DUnsafe(t)
  BY <1>1, <1>2, <1>3, <1>4, <1>20 DEF DUnsafe, DCasMark, Reread, Spoils, CellsKept
<1> QED
  BY <1>5, <1>6, <1>7, <1>8, <1>9, <1>10, <1>11, <1>12, <1>13, <1>14, <1>15, <1>16, <1>17,
     <1>18, <1>19, <1>20 DEF Step, Enqueue, Dequeue

\* The ticket of a call is the one it had, or the next one of its ring.
TicketPut(t) ==
  /\ pc[t] = "eTicket" /\ prq[t] \in Rings /\ prq'[t] = prq[t] /\ pc'[t] = "eMark"
  /\ ~rtail[prq[t]].closed
  /\ ticket'[t] = rtail[prq[t]].t /\ rtail'[prq[t]].t = rtail[prq[t]].t + 1
TicketTake(t) ==
  /\ pc[t] = "dTicket" /\ prq[t] \in Rings /\ prq'[t] = prq[t] /\ pc'[t] = "dMark"
  /\ ticket'[t] = rhead[prq[t]] /\ rhead'[prq[t]] = rhead[prq[t]] + 1
  /\ \A r \in Rings \ {prq[t]} : rhead'[r] = rhead[r]
TicketKept(t) == prq'[t] = prq[t] /\ ticket'[t] = ticket[t]

LEMMA TicketStep ==
  ASSUME TypeOK, NEW t \in Threads, Step(t)
  PROVE  /\ pc'[t] \in PutPcs => TicketPut(t) \/ (pc[t] \in PutPcs /\ TicketKept(t))
         /\ pc'[t] \in TakePcs => TicketTake(t) \/ (pc[t] \in TakePcs /\ TicketKept(t))
         /\ pc'[t] \in CellPcs => TicketTake(t) \/ (pc[t] \in CellPcs /\ TicketKept(t))
         /\ rhead' = rhead \/ TicketTake(t)
<1>1. /\ pc \in [Threads -> {"idle"} \union EnqueuePcs \union DequeuePcs]
      /\ prq \in [Threads -> Rings \union {0}] /\ DOMAIN ticket = Threads
      /\ DOMAIN rhead = Rings /\ DOMAIN rtail = Rings
      /\ \A r \in Rings : rtail[r] \in [t : Nat, closed : BOOLEAN]
      /\ \A u \in Threads : prq[u] = 0 => pc[u] \in {"idle", "lTail", "lHead"}
  BY DEF TypeOK
<1> USE DEF Goto, Test, queue, ends, tickets, cells, locals, ringLocals, calls, PutPcs, TakePcs,
            CellPcs, TicketKept
<1>5. CASE Call(t)
  BY <1>1, <1>5 DEF Call, CallDequeue, CallEnqueue
<1>6. CASE LTail(t) \/ LNext(t) \/ LHelp(t) \/ LLink(t)
  BY <1>1, <1>6 DEF LTail, LNext, LHelp, LLink, Again
<1>8. CASE LSwing(t)
  BY <1>1, <1>8 DEF LSwing, EnqueueReturns, Return
<1>9. CASE ETicket(t)
  BY <1>1, <1>9 DEF ETicket, TicketPut
<1>10. CASE EMark(t) \/ EVal(t) \/ EHead(t) \/ EOver(t) \/ EClose(t)
  BY <1>1, <1>10 DEF EMark, EVal, EHead, EOver, EClose
<1>11. CASE EToken(t) \/ EEpoch(t) \/ EUndo(t) \/ EPut(t)
  BY <1>1, <1>11 DEF EToken, EEpoch, EUndo, EPut, EnqueueReturns, Return
<1>14. CASE LHead(t) \/ LDNext(t) \/ LDSwing(t)
  BY <1>1, <1>14 DEF LHead, LDNext, LDSwing, Return, Again
<1>15. CASE DTicket(t)
  BY <1>1, <1>15 DEF DTicket, TicketTake
<1>16. CASE DMark(t) \/ DVal(t) \/ DTail(t)
  BY <1>1, <1>16 DEF DMark, DVal, DTail
<1>17. CASE DMark2(t)
  <2>1. Decide(t) \in {"dTake", "dSkip", "dToken", "dUnsafe", "dTail"}
    BY CellIs DEF Decide, Free, ValueType
  <2> QED
    BY <1>1, <1>17, <2>1 DEF DMark2, Reread
<1>18. CASE DTake(t) \/ DToken(t) \/ DSkip(t) \/ DUnsafe(t)
  BY <1>1, <1>18 DEF DTake, DToken, DSkip, DUnsafe, DCasMark, Reread, Return
<1> QED
  BY <1>5, <1>6, <1>8, <1>9, <1>10, <1>11, <1>14, <1>15, <1>16, <1>17, <1>18
  DEF Step, Enqueue, Dequeue

LEMMA TicketsStep ==
  ASSUME Basics, Tickets, NEW t \in Threads, Step(t)
  PROVE  Tickets'
<1>1. TypeOK /\ \A u \in Threads \ {t} : Same(u)
  BY OthersSame DEF Basics
<1>2. ASSUME NEW u \in Threads
      PROVE  /\ pc'[u] \in PutPcs => ticket'[u] < rtail'[prq'[u]].t
             /\ pc'[u] \in TakePcs => ticket'[u] < rhead'[prq'[u]]
  <2>1. \A v \in Threads : pc[v] \in PutPcs \union TakePcs => prq[v] \in Rings
    BY <1>1 DEF TypeOK, PutPcs, TakePcs, CellPcs
  <2>2. \A r \in Rings : /\ rtail[r].t \in Nat /\ rhead[r] \in Nat
                          /\ rhead'[r] \in {rhead[r], rhead[r] + 1}
                          /\ rtail'[r].t \in Nat /\ rtail'[r].t >= rtail[r].t
    <3>1. \A r \in Rings : rtail[r].t \in Nat /\ rhead[r] \in Nat
      BY <1>1 DEF TypeOK
    <3>2. CASE RingKept(t)
      BY <3>1, <3>2 DEF RingKept
    <3>3. CASE LinkNew(t)
      <4>1. /\ rtail'[prq[t] + 1] = [t |-> R + 1, closed |-> FALSE] /\ New(prq[t] + 1)
            /\ \A r \in Rings \ {prq[t] + 1} : rtail'[r] = rtail[r]
        BY <3>3, LinkedRing DEF Basics
      <4>2. rhead' = rhead /\ rtail[prq[t] + 1].t = R /\ rtail'[prq[t] + 1].t = R + 1 /\ R \in Nat
        BY <1>1, <3>3, <4>1 DEF LinkNew, New, TypeOK
      <4> QED
        BY <3>1, <4>1, <4>2
    <3> QED
      BY <1>1, <3>2, <3>3, RingStep
  <2>3. \A v \in Threads : ticket[v] \in Nat
    BY <1>1 DEF TypeOK
  <2>4. /\ pc[u] \in PutPcs => ticket[u] < rtail[prq[u]].t
        /\ pc[u] \in TakePcs => ticket[u] < rhead[prq[u]]
    BY DEF Tickets
  <2>7. /\ pc[u] \in PutPcs => ticket[u] < rtail'[prq[u]].t
        /\ pc[u] \in TakePcs => ticket[u] < rhead'[prq[u]]
    <3>1. \A j, k, l \in Nat : j < k /\ k <= l => j < l
      OBVIOUS
    <3>2. \A r \in Rings : rhead'[r] \in Nat /\ rhead[r] <= rhead'[r]
      BY <2>2
    <3>3. \A r \in Rings : rtail[r].t <= rtail'[r].t
      BY <2>2
    <3> QED
      BY <2>1, <2>2, <2>3, <2>4, <3>1, <3>2, <3>3
  <2>5. CASE u # t
    <3>1. pc'[u] = pc[u] /\ prq'[u] = prq[u] /\ ticket'[u] = ticket[u]
      BY <1>1, <2>5 DEF Same
    <3> QED
      BY <2>7, <3>1
  <2>6. CASE u = t
    <3>1. ASSUME pc'[t] \in PutPcs PROVE ticket'[t] < rtail'[prq'[t]].t
      <4>1. CASE TicketPut(t)
        BY <2>2, <4>1 DEF TicketPut
      <4>2. CASE pc[t] \in PutPcs /\ TicketKept(t)
        BY <2>6, <2>7, <4>2 DEF TicketKept
      <4> QED
        BY <1>1, <3>1, <4>1, <4>2, TicketStep
    <3>2. ASSUME pc'[t] \in TakePcs PROVE ticket'[t] < rhead'[prq'[t]]
      <4>1. CASE TicketTake(t)
        BY <2>2, <4>1 DEF TicketTake
      <4>2. CASE pc[t] \in TakePcs /\ TicketKept(t)
        BY <2>6, <2>7, <4>2 DEF TicketKept
      <4> QED
        BY <1>1, <3>2, <4>1, <4>2, TicketStep
    <3> QED
      BY <2>6, <3>1, <3>2
  <2> QED
    BY <2>5, <2>6
<1>3. ASSUME NEW u \in Threads, NEW v \in Threads, u # v, pc'[u] \in CellPcs, pc'[v] \in CellPcs,
             prq'[u] = prq'[v]
      PROVE  ticket'[u] # ticket'[v]
  <2>1. \A w \in Threads : pc[w] \in CellPcs => ticket[w] < rhead[prq[w]] /\ prq[w] \in Rings
                                               /\ rhead[prq[w]] \in Nat /\ ticket[w] \in Nat
    BY <1>1 DEF Tickets, TakePcs, TypeOK, CellPcs
  <2>2. \A w, x \in Threads : w # x /\ pc[w] \in CellPcs /\ pc[x] \in CellPcs /\ prq[w] = prq[x]
          => ticket[w] # ticket[x]
    BY DEF Tickets
  <2>3. \A w \in Threads : pc'[w] \in CellPcs =>
          (w = t /\ TicketTake(t)) \/ (pc[w] \in CellPcs /\ TicketKept(w))
    BY <1>1, TicketStep DEF Same, TicketKept
  <2>4. CASE TicketKept(u) /\ TicketKept(v) /\ pc[u] \in CellPcs /\ pc[v] \in CellPcs
    BY <1>3, <2>2, <2>4 DEF TicketKept
  <2>5. \A w \in Threads \ {t} : TicketTake(t) /\ pc'[w] \in CellPcs /\ prq'[w] = prq'[t] =>
          ticket'[w] < ticket'[t] /\ ticket'[w] \in Nat /\ ticket'[t] \in Nat
    BY <1>1, <2>1 DEF Same, TicketTake
  <2> QED
    BY <1>3, <2>3, <2>4, <2>5
<1> QED
  BY <1>2, <1>3 DEF Tickets

\* A token comes into a cell by its own thread only.
LEMMA TokenComes ==
  ASSUME Basics, NEW t \in Threads, Step(t), NEW u \in Threads \ {t},
         NEW r \in Rings, NEW i \in Cells
  PROVE  value'[r][i] = u => value[r][i] = u
<1>1. item[t] # u /\ Null # u
  BY DEF Basics, TypeOK
<1>2. CASE LinkNew(t)
  <2>1. /\ \A s \in Rings \ {prq[t] + 1} : value'[s] = value[s]
        /\ value'[prq[t] + 1][i] = IF i = 0 THEN item[t] ELSE Null
    BY <1>2, LinkedRing DEF Basics
  <2> QED
    BY <1>1, <2>1
<1>3. CASE CellsKept(t) \/ Marks(t) \/ Skips(t) \/ Spoils(t)
  BY <1>3 DEF CellsKept, Marks, Skips, Spoils, ValueKept
<1>4. CASE Reserves(t) \/ Undoes(t) \/ Puts(t) \/ Takes(t) \/ Empties(t)
  BY <1>1, <1>4 DEF Reserves, Undoes, Puts, Takes, Empties, ValueSet
<1> QED
  BY <1>2, <1>3, <1>4, CellStep DEF Basics

LEMMA TokensStep ==
  ASSUME Basics, Tokens, NEW t \in Threads, Step(t)
  PROVE  Tokens'
<1>1. /\ TypeOK /\ R' = R /\ Cells' = Cells /\ \A u \in Threads \ {t} : Same(u)
  BY OthersSame DEF Basics, Cells
<1>2. Cell(ticket[t]) \in Cells /\ item[t] \notin Threads /\ Null \notin Threads
      /\ (prq[t] \in Rings => ValueAt(t) = value[prq[t]][Cell(ticket[t])])
  <2>1. item[t] \notin Threads
    BY <1>1 DEF TypeOK
  <2>2. prq[t] \in Rings => prq[t] # 0
    BY RingsAre
  <2> QED
    BY <1>1, <2>1, <2>2, CellIs
<1>3. \A r \in Rings, i \in Cells : value[r][i] = t =>
        pc[t] \in {"eEpoch", "eUndo", "ePut"} /\ prq[t] = r /\ Cell(ticket[t]) = i
  BY DEF Tokens
<1>4. Cell(ticket[t]) = ticket[t] % R
  BY DEF Cell
<1>5. \A r \in Rings, i \in Cells, u \in Threads \ {t} : value'[r][i] = u => value[r][i] = u
  BY TokenComes
<1>6. ASSUME NEW r \in Rings, NEW i \in Cells, value'[r][i] = t
      PROVE  /\ pc'[t] \in {"eEpoch", "eUndo", "ePut"} /\ prq'[t] = r
             /\ ticket'[t] % R = i
  <2>1. CASE LinkNew(t)
    <3>1. /\ \A s \in Rings \ {prq[t] + 1} : value'[s] = value[s]
          /\ value'[prq[t] + 1][i] = IF i = 0 THEN item[t] ELSE Null
          /\ pc[t] = "lLink"
      BY <2>1, LinkedRing DEF Basics, LinkNew
    <3> QED
      BY <1>2, <1>3, <1>6, <3>1
  <2>2. CASE CellsKept(t)
    BY <1>2, <1>3, <1>4, <1>6, <2>2 DEF CellsKept, ValueKept
  <2>3. CASE Marks(t) \/ Skips(t) \/ Spoils(t)
    BY <1>2, <1>3, <1>4, <1>6, <2>3 DEF Marks, Skips, Spoils, ValueKept, Moves
  <2>4. CASE Reserves(t)
    BY <1>2, <1>3, <1>4, <1>6, <2>4 DEF Reserves, ValueSet, Moves
  <2>5. CASE Undoes(t) \/ Puts(t) \/ Takes(t) \/ Empties(t)
    BY <1>2, <1>3, <1>6, <2>5 DEF Undoes, Puts, Takes, Empties, ValueSet, Moves, Leaves
  <2> QED
    BY <2>1, <2>2, <2>3, <2>4, <2>5, CellStep DEF Basics
<1>7. \A u \in Threads \ {t} : pc'[u] = pc[u] /\ prq'[u] = prq[u] /\ ticket'[u] = ticket[u]
  BY <1>1 DEF Same
<1> QED
  BY <1>1, <1>5, <1>6, <1>7 DEF Tokens, Cell

\* The history of a cell: epochs do not fall, a cell becomes full only together
\* with a new epoch, a full cell keeps its epoch, and its item until the dequeue
\* with the ticket of that epoch takes it.
Evolves(t, r, i) ==
  /\ Later(mark[r][i], mark'[r][i])
  /\ mark'[r][i].epoch = mark[r][i].epoch => /\ Full(r, i)' => Full(r, i)
                                             /\ Ripe(r, i)' => Ripe(r, i)
  /\ Full(r, i) => mark'[r][i].epoch = mark[r][i].epoch
  /\ Ripe(r, i) => mark'[r][i] = mark[r][i]
  /\ value[r][i] \in Items => \/ value'[r][i] = value[r][i]
                              \/ /\ Takes(t) /\ r = prq[t] /\ i = Cell(ticket[t])
                                 /\ mark[r][i].epoch = Cycle(t)

LEMMA CellEvolves ==
  ASSUME Basics, Cells2, NEW t \in Threads, Step(t), NEW r \in Rings, NEW i \in Cells
  PROVE  Evolves(t, r, i)
<1> DEFINE own == r = prq[t] /\ i = Cell(ticket[t])
<1>1. TypeOK /\ Locals(t) /\ Knows(t) /\ \A u \in Threads \ {t} : pc'[u] = pc[u]
  BY OthersSame DEF Basics, Cells2, Same
<1>2. /\ mark[r][i] \in MarkType /\ mark[r][i].epoch \in Nat
      /\ value[r][i] = t => own /\ pc[t] \in {"eEpoch", "eUndo", "ePut"}
  <2>1. mark[r][i] \in MarkType
    BY <1>1 DEF TypeOK
  <2>2. mark[r][i].epoch \in Nat
    BY <2>1 DEF MarkType
  <2>3. value[r][i] = t => own /\ pc[t] \in {"eEpoch", "eUndo", "ePut"}
    BY DEF Cells2, Tokens
  <2> QED
    BY <2>1, <2>2, <2>3
<1>3. own => /\ MarkAt(t) = mark[r][i] /\ ValueAt(t) = value[r][i] /\ prq[t] # 0
             /\ (Full(prq[t], Cell(ticket[t])) <=> Full(r, i))
             /\ (Ripe(prq[t], Cell(ticket[t])) <=> Ripe(r, i))
  <2>1. 0 \notin Rings
    BY RingsAre
  <2> QED
    BY <1>1, <2>1, CellIs
<1>4. Later(mark[r][i], mark[r][i])
  BY <1>2 DEF Later
<1>5. value'[r][i] = value[r][i] /\ (value[r][i] = t /\ pc'[t] = "ePut" => pc[t] = "ePut") =>
        (Full(r, i)' => Full(r, i)) /\ (Ripe(r, i)' => Ripe(r, i))
  BY <1>1 DEF Full, Ripe
<1>6. value'[r][i] = Null \/ (value'[r][i] = t /\ pc'[t] # "ePut") =>
        ~Full(r, i)' /\ ~Ripe(r, i)'
  BY DEF Full, Ripe
<1>7. CASE CellsKept(t)
  BY <1>2, <1>4, <1>5, <1>7 DEF CellsKept, MarkKept, ValueKept, Evolves
<1>8. CASE LinkNew(t)
  <2>1. CASE r # prq[t] + 1
    <3>1. mark'[r] = mark[r] /\ value'[r] = value[r] /\ pc'[t] = "lSwing"
      BY <1>8, <2>1, LinkedRing DEF Basics, LinkNew
    <3> QED
      BY <1>2, <1>4, <1>5, <3>1 DEF Evolves
  <2>2. CASE r = prq[t] + 1
    <3>1. /\ New(r)
          /\ mark'[r][i] = IF i = 0 THEN Mark(TRUE, 1) ELSE Mark(TRUE, 0)
          /\ value'[r][i] = IF i = 0 THEN item[t] ELSE Null
      BY <1>8, <2>2, LinkedRing DEF Basics
    <3>2. mark[r][i] = Mark(TRUE, 0) /\ value[r][i] = Null
      BY <3>1 DEF New
    <3>3. ~Full(r, i) /\ ~Ripe(r, i) /\ value[r][i] \notin Items
      BY <3>2 DEF Full, Ripe
    <3>4. CASE i = 0
      <4>1. mark[r][i].epoch = 0 /\ mark'[r][i].epoch = 1
        BY <3>1, <3>2, <3>4 DEF Mark
      <4> QED
        BY <3>3, <4>1 DEF Evolves, Later
    <3>5. CASE i # 0
      BY <1>4, <1>6, <3>1, <3>2, <3>3, <3>5 DEF Evolves
    <3> QED
      BY <3>4, <3>5
  <2> QED
    BY <2>1, <2>2
<1>9. CASE Reserves(t)
  <2>1. own => value[r][i] \notin Items
    BY <1>1, <1>3, <1>9 DEF Reserves, Moves, Locals, Free
  <2> QED
    BY <1>2, <1>4, <1>5, <1>6, <1>9, <2>1 DEF Reserves, Moves, MarkKept, ValueSet, Evolves
<1>10. CASE Marks(t)
  <2>1. ~own => Evolves(t, r, i)
    BY <1>2, <1>4, <1>5, <1>10 DEF Marks, ValueKept, MarkSet, Evolves
  <2>2. ASSUME own PROVE Evolves(t, r, i)
    <3>1. mark'[r][i].epoch = Cycle(t) /\ mark[r][i].epoch < Cycle(t) /\ Cycle(t) \in Nat
      BY <1>1, <1>3, <1>10, <2>2, CellIs DEF Marks, Moves, MarkSet, Mark, Locals
    <3>2. ~Full(r, i) /\ ~Ripe(r, i) /\ value[r][i] \notin Items
      <4>1. ~Full(r, i)
        BY <1>1, <1>2, <1>3, <1>10, <2>2 DEF Marks, Moves, Knows, Moved
      <4> QED
        BY <4>1 DEF Full
    <3> QED
      BY <1>2, <3>1, <3>2 DEF Evolves, Later
  <2> QED
    BY <2>1, <2>2
<1>11. CASE Undoes(t) \/ Empties(t)
  <2>1. own => value[r][i] \notin Items
    BY <1>1, <1>3, <1>11 DEF Undoes, Empties, Moves, Locals
  <2> QED
    BY <1>2, <1>4, <1>5, <1>6, <1>11, <2>1 DEF Undoes, Empties, Moves, MarkKept, ValueSet, Evolves
<1>12. CASE Puts(t)
  <2>1. own => Ripe(r, i) /\ Full(r, i) /\ value[r][i] \notin Items
    BY <1>3, <1>12 DEF Puts, Leaves, Ripe, Full
  <2> QED
    BY <1>2, <1>4, <1>5, <1>12, <2>1 DEF Puts, Leaves, MarkKept, ValueSet, Evolves
<1>13. CASE Takes(t)
  <2>1. own => mark[r][i].epoch = Cycle(t)
    BY <1>1, <1>3, <1>13 DEF Takes, Leaves, Knows
  <2> QED
    BY <1>2, <1>4, <1>5, <1>6, <1>13, <2>1 DEF Takes, Leaves, MarkKept, ValueSet, Evolves
<1>14. CASE Skips(t)
  <2>1. ~own => Evolves(t, r, i)
    BY <1>2, <1>4, <1>5, <1>14 DEF Skips, Moves, ValueKept, MarkSet, Evolves
  <2>2. ASSUME own PROVE Evolves(t, r, i)
    <3>1. /\ mark'[r][i].epoch = Cycle(t) /\ mark[r][i].epoch <= Cycle(t) /\ Cycle(t) \in Nat
          /\ mark'[r][i].safe = mark[r][i].safe
      BY <1>1, <1>3, <1>14, <2>2, CellIs DEF Skips, Moves, MarkSet, Mark, Locals
    <3>2. ~Full(r, i) /\ ~Ripe(r, i) /\ value[r][i] \notin Items
      <4>1. ~Full(r, i)
        BY <1>1, <1>2, <1>3, <1>14, <2>2 DEF Skips, Moves, Knows, Moved
      <4> QED
        BY <4>1 DEF Full
    <3>3. (Full(r, i)' => Full(r, i)) /\ (Ripe(r, i)' => Ripe(r, i))
      BY <1>5, <1>14 DEF Skips, Moves, ValueKept
    <3> QED
      BY <1>2, <3>1, <3>2, <3>3 DEF Evolves, Later
  <2> QED
    BY <2>1, <2>2
<1>15. CASE Spoils(t)
  <2>1. ~own => Evolves(t, r, i)
    BY <1>2, <1>4, <1>5, <1>15 DEF Spoils, Moves, ValueKept, MarkSet, Evolves
  <2>2. ASSUME own PROVE Evolves(t, r, i)
    <3>1. mark'[r][i].epoch = mark[r][i].epoch /\ ~mark'[r][i].safe
      BY <1>1, <1>3, <1>15, <2>2 DEF Spoils, Moves, MarkSet, Mark
    <3>2. ~Ripe(r, i)
      BY <1>1, <1>2, <1>3, <1>15, <2>2 DEF Spoils, Moves, Knows, Moved
    <3>3. (Full(r, i)' => Full(r, i)) /\ (Ripe(r, i)' => Ripe(r, i)) /\ value'[r][i] = value[r][i]
      BY <1>5, <1>15 DEF Spoils, Moves, ValueKept
    <3> QED
      BY <3>1, <3>2, <3>3 DEF Evolves, Later
  <2> QED
    BY <2>1, <2>2
<1> QED
  BY <1>7, <1>8, <1>9, <1>10, <1>11, <1>12, <1>13, <1>14, <1>15, CellStep DEF Basics

\* The cell of a thread before and after a step that leaves its locals.
LEMMA CellKept ==
  ASSUME TypeOK, TypeOK', R' = R, NEW u \in Threads, prq[u] # 0,
         prq'[u] = prq[u], ticket'[u] = ticket[u]
  PROVE  /\ Cell(ticket[u])' = Cell(ticket[u]) /\ Cycle(u)' = Cycle(u)
         /\ MarkAt(u)' = mark'[prq[u]][Cell(ticket[u])]
         /\ ValueAt(u)' = value'[prq[u]][Cell(ticket[u])]
         /\ \A r \in Rings, i \in Cells : r = prq[u] /\ i = Cell(ticket[u]) =>
              /\ Full(prq[u], Cell(ticket[u]))' <=> Full(r, i)'
              /\ Ripe(prq[u], Cell(ticket[u]))' <=> Ripe(r, i)'
<1>1. Cell(ticket[u])' = Cell(ticket[u]) /\ Cycle(u)' = Cycle(u)
  BY DEF Cell, Cycle
<1>2. /\ MarkAt(u)' = mark'[prq[u]][Cell(ticket[u])]
      /\ ValueAt(u)' = value'[prq[u]][Cell(ticket[u])]
  BY DEF MarkAt, ValueAt, Cell
<1>3. ASSUME NEW r \in Rings, NEW i \in Cells, r = prq[u], i = Cell(ticket[u])
      PROVE  /\ Full(prq[u], Cell(ticket[u]))' <=> Full(r, i)'
             /\ Ripe(prq[u], Cell(ticket[u]))' <=> Ripe(r, i)'
  BY <1>1, <1>3 DEF Full, Ripe
<1> QED
  BY <1>1, <1>2, <1>3

LEMMA KnowsKept ==
  ASSUME Basics, Basics', Cells2, NEW t \in Threads, Step(t), NEW u \in Threads \ {t}
  PROVE  Knows(u)'
<1>1. /\ TypeOK /\ TypeOK' /\ R' = R /\ Cells' = Cells /\ Same(u) /\ Knows(u) /\ Locals(u)
      /\ Tickets
  BY OthersSame DEF Basics, Cells2, Cells
<1>2. CASE prq[u] = 0
  <2>1. pc'[u] \in {"idle", "lTail", "lHead"}
    BY <1>1, <1>2 DEF TypeOK, Same
  <2> QED
    BY <2>1 DEF Knows, SawMark, CellPcs
<1>3. CASE prq[u] # 0
  <2>1. PICK r \in Rings, i \in Cells : r = prq[u] /\ i = Cell(ticket[u])
    BY <1>1, <1>3, CellIs
  <2>2. /\ pc'[u] = pc[u] /\ prq'[u] = prq[u] /\ ticket'[u] = ticket[u] /\ seen'[u] = seen[u]
    BY <1>1 DEF Same
  <2>3. Evolves(t, r, i)
    BY CellEvolves
  <2>4. /\ MarkAt(u) = mark[r][i] /\ ValueAt(u) = value[r][i]
        /\ mark[r][i] \in MarkType /\ mark[r][i].epoch \in Nat
        /\ mark[r][i].safe \in BOOLEAN /\ seen[u].mark.safe \in BOOLEAN
        /\ seen[u].mark.epoch \in Nat /\ Cycle(u) \in Nat
    BY <1>1, <1>3, <2>1, CellIs
  <2>5. /\ Cycle(u)' = Cycle(u) /\ MarkAt(u)' = mark'[r][i] /\ ValueAt(u)' = value'[r][i]
        /\ Full(prq[u], Cell(ticket[u]))' <=> Full(r, i)'
        /\ Ripe(prq[u], Cell(ticket[u]))' <=> Ripe(r, i)'
    BY <1>1, <1>3, <2>1, <2>2, CellKept
  <2>6. mark'[r][i].epoch \in Nat /\ mark'[r][i].safe \in BOOLEAN
    <3>1. mark'[r][i] \in MarkType
      BY <1>1 DEF TypeOK
    <3> QED
      BY <3>1 DEF MarkType
  <2>7. /\ Full(prq[u], Cell(ticket[u])) <=> Full(r, i)
        /\ Ripe(prq[u], Cell(ticket[u])) <=> Ripe(r, i)
    BY <2>1
  <2>8. Later(mark[r][i], mark'[r][i])
    BY <2>3 DEF Evolves
  <2>9. /\ mark[r][i].epoch <= mark'[r][i].epoch
        /\ SawMark(u) => /\ Later(seen[u].mark, mark'[r][i])
                         /\ seen[u].mark.epoch <= mark[r][i].epoch
    BY <1>1, <2>4, <2>6, <2>8 DEF Later, Knows
  <2>10. Moved(u)' <=> seen[u].mark.epoch < mark'[r][i].epoch
    BY <2>2, <2>5 DEF Moved
  <2>11. Moved(u) <=> seen[u].mark.epoch < mark[r][i].epoch
    BY <2>4 DEF Moved
  \* The epoch is the same or the thread will see that it has moved.
  <2>12. SawMark(u) => (mark'[r][i].epoch = mark[r][i].epoch) \/ Moved(u)'
    BY <2>4, <2>6, <2>9, <2>10
  <2>13. SawMark(u) /\ Moved(u) => Moved(u)'
    BY <2>4, <2>6, <2>9, <2>10, <2>11
  \* Nobody else takes the item of the ticket of thread u.
  <2>14. ASSUME pc[u] \in CellPcs, mark[r][i].epoch = Cycle(u), value[r][i] \in Items
         PROVE  value'[r][i] = value[r][i]
    <3>1. SUFFICES ASSUME Takes(t), r = prq[t], i = Cell(ticket[t]), mark[r][i].epoch = Cycle(t)
                   PROVE  FALSE
      BY <2>3, <2>14 DEF Evolves
    <3>2. /\ ticket[t] \in Nat /\ ticket[u] \in Nat /\ R \in Nat \ {0}
          /\ ticket[t] % R = ticket[u] % R /\ ticket[t] \div R = ticket[u] \div R
      BY <1>1, <2>1, <2>14, <3>1, CellIs DEF Cell, Cycle
    <3>3. ticket[t] = ticket[u]
      BY <3>2, DivGrows
    <3>4. pc[t] \in CellPcs /\ prq[t] = prq[u]
      BY <2>1, <3>1 DEF Takes, Leaves, CellPcs
    <3> QED
      BY <1>1, <2>14, <3>3, <3>4 DEF Tickets
  <2> DEFINE pcs == {"eHead", "eToken", "eEpoch", "dMark2", "dTake", "dSkip", "dUnsafe"}
  <2>15. pc[u] \in pcs => SawMark(u)
    BY DEF SawMark, CellPcs
  <2>16. SawMark(u)' <=> SawMark(u)
    BY <2>2 DEF SawMark
  <2>17. SawMark(u) => /\ ((Full(r, i) => Moved(u)) => (Full(r, i)' => Moved(u)'))
                      /\ ((Ripe(r, i) => Moved(u)) => (Ripe(r, i)' => Moved(u)'))
    BY <2>3, <2>12, <2>13 DEF Evolves
  <2>18. pc[u] = "ePut" /\ value'[r][i] = u => mark'[r][i] = Mark(TRUE, Cycle(u))
    <3> SUFFICES ASSUME pc[u] = "ePut", value'[r][i] = u PROVE mark'[r][i] = Mark(TRUE, Cycle(u))
      OBVIOUS
    <3>1. value[r][i] = u
      BY TokenComes
    <3>2. Ripe(r, i)
      BY <3>1 DEF Ripe
    <3> QED
      BY <1>1, <2>3, <2>4, <3>1, <3>2 DEF Knows, Evolves
  <2>19. pc[u] = "eEpoch" /\ Full(r, i)' => Moved(u)'
    BY <1>1, <2>7, <2>15, <2>17 DEF Knows
  <2>20. pc[u] \in {"eHead", "eToken"} /\ ~seen[u].mark.safe /\ Full(r, i)' => Moved(u)'
    BY <1>1, <2>7, <2>15, <2>17 DEF Knows
  <2>21. pc[u] = "dSkip" \/ (pc[u] = "dMark2" /\ seen[u].value = Null) => (Full(r, i)' => Moved(u)')
    BY <1>1, <2>7, <2>15, <2>17 DEF Knows
  <2>22. pc[u] = "dUnsafe" \/ (pc[u] = "dMark2" /\ seen[u].value \in Items) => (Ripe(r, i)' => Moved(u)')
    BY <1>1, <2>7, <2>15, <2>17 DEF Knows
  <2>23. pc[u] = "dMark2" /\ seen[u].value \in Items /\ mark'[r][i].epoch = Cycle(u)
           /\ ~Moved(u)' => value'[r][i] = seen[u].value
    <3> SUFFICES ASSUME pc[u] = "dMark2", seen[u].value \in Items, mark'[r][i].epoch = Cycle(u), ~Moved(u)'
                 PROVE  value'[r][i] = seen[u].value
      OBVIOUS
    <3>1. mark[r][i].epoch = Cycle(u) /\ ~Moved(u)
      BY <2>12, <2>13, <2>15
    <3>2. value[r][i] = seen[u].value /\ pc[u] \in CellPcs
      BY <1>1, <2>4, <3>1 DEF Knows, CellPcs
    <3> QED
      BY <2>14, <3>1, <3>2
  <2>24. pc[u] = "dTake" => mark'[r][i].epoch = Cycle(u) /\ value'[r][i] = seen[u].value
    <3> SUFFICES ASSUME pc[u] = "dTake" PROVE mark'[r][i].epoch = Cycle(u) /\ value'[r][i] = seen[u].value
      OBVIOUS
    <3>1. mark[r][i].epoch = Cycle(u) /\ value[r][i] = seen[u].value /\ seen[u].value \in Items
      BY <1>1, <2>4 DEF Knows, Locals
    <3>2. mark'[r][i].epoch = mark[r][i].epoch
      BY <2>3, <3>1 DEF Evolves, Full
    <3> QED
      BY <2>14, <3>1, <3>2 DEF CellPcs
  <2>25. SawMark(u) => Later(seen[u].mark, mark'[r][i])
    BY <2>9
  <2> QED
    BY <2>2, <2>5, <2>16, <2>18, <2>19, <2>20, <2>21, <2>22, <2>23, <2>24, <2>25 DEF Knows
<1> QED
  BY <1>2, <1>3

\* A step of thread t that changes no cell: what it knew is still so.
LEMMA OwnKept ==
  ASSUME Basics, Basics', Cells2, NEW t \in Threads, Step(t), prq[t] # 0,
         prq'[t] = prq[t], ticket'[t] = ticket[t], mark' = mark, value' = value, pc'[t] # "ePut"
  PROVE  /\ MarkAt(t)' = MarkAt(t) /\ ValueAt(t)' = ValueAt(t) /\ Cycle(t)' = Cycle(t)
         /\ Full(prq[t], Cell(ticket[t]))' => Full(prq[t], Cell(ticket[t]))
         /\ Ripe(prq[t], Cell(ticket[t]))' => Ripe(prq[t], Cell(ticket[t]))
         /\ Ripe(prq[t], Cell(ticket[t])) => MarkAt(t).safe
         /\ Later(MarkAt(t), MarkAt(t))
<1>1. TypeOK /\ TypeOK' /\ R' = R /\ \A u \in Threads \ {t} : pc'[u] = pc[u]
  BY OthersSame DEF Basics, Same
<1>2. PICK r \in Rings, i \in Cells : r = prq[t] /\ i = Cell(ticket[t])
  BY <1>1, CellIs
<1>3. MarkAt(t) = mark[r][i] /\ ValueAt(t) = value[r][i] /\ MarkAt(t) \in MarkType
      /\ MarkAt(t).epoch \in Nat
  BY <1>1, <1>2, CellIs
<1>4. /\ MarkAt(t)' = MarkAt(t) /\ ValueAt(t)' = ValueAt(t) /\ Cycle(t)' = Cycle(t)
      /\ Full(prq[t], Cell(ticket[t]))' <=> Full(r, i)'
      /\ Ripe(prq[t], Cell(ticket[t]))' <=> Ripe(r, i)'
  BY <1>1, <1>2, <1>3, CellKept
<1>5. (Ripe(r, i)' => Ripe(r, i)) /\ (Full(r, i)' => Full(r, i))
  BY <1>1 DEF Full, Ripe
<1>6. Ripe(r, i) => mark[r][i].safe
  <2> SUFFICES ASSUME NEW u \in Threads, value[r][i] = u, pc[u] = "ePut" PROVE mark[r][i].safe
    BY DEF Ripe
  <2>1. prq[u] = r /\ Cell(ticket[u]) = i /\ Knows(u)
    BY DEF Cells2, Tokens
  <2>2. MarkAt(u) = mark[r][i] /\ ValueAt(u) = value[r][i]
    <3>1. r # 0
      BY RingsAre
    <3> QED
      BY <1>1, <2>1, <3>1, CellIs
  <2>3. mark[r][i] = Mark(TRUE, Cycle(u))
    BY <2>1, <2>2 DEF Knows
  <2> QED
    BY <2>3 DEF Mark
<1> QED
  BY <1>2, <1>3, <1>4, <1>5, <1>6 DEF Later

LEMMA KnowsNew ==
  ASSUME Basics, Basics', Cells2, NEW t \in Threads, Step(t)
  PROVE  Knows(t)'
<1>1. /\ TypeOK /\ TypeOK' /\ R' = R /\ Knows(t) /\ Locals(t)
      /\ (\A u \in Threads : Locals(u)) /\ Owned /\ List
  BY OthersSame DEF Basics, Cells2
<1>2. pc'[t] \notin {"eVal", "eHead", "eToken", "eEpoch", "ePut"} \union (CellPcs \ {"dMark"}) => Knows(t)'
  BY DEF Knows, SawMark, CellPcs
<1>3. /\ pc \in [Threads -> {"idle"} \union EnqueuePcs \union DequeuePcs]
      /\ seen \in [Threads -> [mark : MarkType, value : ValueType]]
      /\ prq[t] = 0 => pc[t] \in {"idle", "lTail", "lHead"}
  BY <1>1 DEF TypeOK
<1>4. prq[t] # 0 => MarkAt(t) \in MarkType /\ ValueAt(t) \in ValueType
                    /\ MarkAt(t).epoch \in Nat /\ MarkAt(t).safe \in BOOLEAN
                    /\ seen[t].mark.epoch \in Nat /\ seen[t].mark.safe \in BOOLEAN
  BY <1>1, CellIs
<1> USE DEF Goto, Test, queue, ends, tickets, cells, locals, ringLocals, calls
<1>5. CASE Call(t)
  BY <1>2, <1>3, <1>5 DEF Call, CallDequeue, CallEnqueue, CellPcs
<1>6. CASE LTail(t) \/ LNext(t) \/ LHelp(t) \/ LLink(t) \/ LSwing(t) \/ LHead(t) \/ LDNext(t) \/ LDSwing(t)
  BY <1>2, <1>3, <1>6 DEF LTail, LNext, LHelp, LLink, LSwing, LHead, LDNext, LDSwing, Again,
     EnqueueReturns, Return, CellPcs
<1>7. CASE ETicket(t) \/ EUndo(t) \/ EPut(t) \/ EOver(t) \/ EClose(t) \/ DTicket(t) \/ DTake(t) \/ DTail(t)
  BY <1>2, <1>3, <1>7 DEF ETicket, EUndo, EPut, EOver, EClose, DTicket, DTake, DTail,
     EnqueueReturns, Return, CellPcs
<1>8. CASE EMark(t) \/ DMark(t)
  <2>1. /\ prq[t] # 0 /\ prq'[t] = prq[t] /\ ticket'[t] = ticket[t] /\ mark' = mark /\ value' = value
        /\ pc'[t] \in {"eVal", "dVal"} /\ seen' = [seen EXCEPT ![t].mark = MarkAt(t)]
    BY <1>3, <1>8 DEF EMark, DMark
  <2>2. seen'[t].mark = MarkAt(t)
    BY <1>3, <2>1
  <2>3. MarkAt(t)' = MarkAt(t) /\ Later(MarkAt(t), MarkAt(t))
    BY <2>1, OwnKept
  <2> QED
    BY <2>1, <2>2, <2>3 DEF Knows
<1>9. CASE EVal(t) \/ DVal(t)
  <2>1. /\ prq[t] # 0 /\ prq'[t] = prq[t] /\ ticket'[t] = ticket[t] /\ mark' = mark /\ value' = value
        /\ seen' = [seen EXCEPT ![t].value = ValueAt(t)] /\ SawMark(t)
        /\ pc'[t] \in {"eHead", "eToken"} => Free(ValueAt(t))
        /\ pc'[t] \in {"eHead", "eToken", "eOver", "dMark2"}
    BY <1>3, <1>9 DEF EVal, DVal, SawMark, CellPcs
  <2>2. seen'[t].mark = seen[t].mark /\ seen'[t].value = ValueAt(t)
    BY <1>3, <2>1
  <2>3. /\ MarkAt(t)' = MarkAt(t) /\ ValueAt(t)' = ValueAt(t)
        /\ Full(prq[t], Cell(ticket[t]))' => Full(prq[t], Cell(ticket[t]))
        /\ Ripe(prq[t], Cell(ticket[t]))' => Ripe(prq[t], Cell(ticket[t]))
        /\ Ripe(prq[t], Cell(ticket[t])) => MarkAt(t).safe
    BY <2>1, OwnKept
  <2>4. ValueAt(t) = value[prq[t]][Cell(ticket[t])]
    BY <1>1, <2>1, CellIs
  <2>5. Later(seen[t].mark, MarkAt(t))
    BY <1>1, <2>1 DEF Knows
  <2>6. pc'[t] \in {"eHead", "eToken"} /\ ~seen[t].mark.safe /\ Full(prq[t], Cell(ticket[t])) =>
          seen[t].mark.epoch < MarkAt(t).epoch
    <3>1. Free(ValueAt(t)) /\ Full(prq[t], Cell(ticket[t])) => Ripe(prq[t], Cell(ticket[t]))
      BY <2>4 DEF Free, Full
    <3> QED
      BY <2>1, <2>3, <2>5, <3>1 DEF Later
  <2>7. ValueAt(t) = Null => ~Full(prq[t], Cell(ticket[t]))
    BY <2>4 DEF Full, Ripe
  <2>8. ValueAt(t) \in Items => ~Ripe(prq[t], Cell(ticket[t]))
    BY <2>4 DEF Ripe
  <2>9. Moved(t)' <=> seen[t].mark.epoch < MarkAt(t).epoch
    BY <2>2, <2>3 DEF Moved
  <2> QED
    BY <2>1, <2>2, <2>3, <2>5, <2>6, <2>7, <2>8, <2>9 DEF Knows
<1>10. CASE EHead(t)
  <2>1. /\ prq[t] # 0 /\ prq'[t] = prq[t] /\ ticket'[t] = ticket[t] /\ mark' = mark /\ value' = value
        /\ seen'[t] = seen[t] /\ pc[t] = "eHead" /\ pc'[t] \in {"eToken", "eOver"} /\ SawMark(t)
    BY <1>3, <1>10 DEF EHead, SawMark
  <2>2. /\ MarkAt(t)' = MarkAt(t)
        /\ Full(prq[t], Cell(ticket[t]))' => Full(prq[t], Cell(ticket[t]))
    BY <2>1, OwnKept
  <2>3. Moved(t)' <=> Moved(t)
    BY <2>1, <2>2 DEF Moved
  <2> QED
    BY <1>1, <2>1, <2>2, <2>3 DEF Knows
<1>11. CASE EToken(t) \/ EEpoch(t) \/ DToken(t) \/ DSkip(t) \/ DUnsafe(t)
  <2>1. CASE CellsKept(t)
    <3>1. pc'[t] \in {"eOver", "eUndo", "dMark", "dTail"}
      BY <1>3, <1>11, <2>1 DEF EToken, EEpoch, DToken, DSkip, DUnsafe, DCasMark, Reread, CellsKept
    <3> QED
      BY <1>2, <3>1 DEF CellPcs
  <2>2. CASE Undoes(t) \/ Puts(t) \/ Takes(t) \/ Skips(t) \/ Spoils(t) \/ LinkNew(t)
    BY <1>2, <2>2 DEF Undoes, Puts, Takes, Skips, Spoils, LinkNew, Moves, Leaves, CellPcs
  <2>3. CASE Reserves(t) \/ Empties(t)
    <3>1. PICK r \in Rings, i \in Cells : r = prq[t] /\ i = Cell(ticket[t])
      BY <1>1, <2>3, CellIs, RingsAre DEF Reserves, Empties, Moves
    <3>2. /\ prq'[t] = prq[t] /\ ticket'[t] = ticket[t] /\ seen'[t] = seen[t] /\ prq[t] # 0
          /\ pc[t] \in {"eToken", "dToken"} /\ pc'[t] \in {"eEpoch", "dSkip"}
          /\ mark'[r][i] = mark[r][i] /\ SawMark(t)
          /\ value'[r][i] = Null \/ (value'[r][i] = t /\ pc'[t] = "eEpoch")
      BY <2>3, <3>1, RingsAre DEF Reserves, Empties, Moves, MarkKept, ValueSet, SawMark, CellPcs
    <3>3. ~Full(r, i)'
      BY <3>2 DEF Full, Ripe
    <3>4. /\ MarkAt(t)' = MarkAt(t)
          /\ ~Full(prq[t], Cell(ticket[t]))'
      BY <1>1, <3>1, <3>2, <3>3, CellKept, CellIs
    <3>5. Later(seen[t].mark, MarkAt(t))
      BY <1>1, <3>2 DEF Knows
    <3> QED
      BY <3>2, <3>4, <3>5 DEF Knows
  <2>4. CASE Marks(t)
    <3>1. PICK r \in Rings, i \in Cells : r = prq[t] /\ i = Cell(ticket[t])
      BY <1>1, <2>4, CellIs, RingsAre DEF Marks, Moves
    <3>2. /\ prq'[t] = prq[t] /\ ticket'[t] = ticket[t] /\ prq[t] # 0
          /\ pc'[t] = "ePut" /\ mark'[r][i] = Mark(TRUE, Cycle(t))
      BY <2>4, <3>1, RingsAre DEF Marks, Moves, MarkSet
    <3>3. MarkAt(t)' = Mark(TRUE, Cycle(t)) /\ Cycle(t)' = Cycle(t)
      BY <1>1, <3>1, <3>2, CellKept
    <3> QED
      BY <3>2, <3>3 DEF Knows, SawMark, CellPcs
  <2> QED
    BY <1>1, <2>1, <2>2, <2>3, <2>4, CellStep
<1>12. CASE DMark2(t)
  <2>1. CASE Reread(t, "dMark2")
    BY <1>2, <1>3, <2>1 DEF Reread, CellPcs
  <2>2. CASE Test(t, "dMark2", Decide(t)) /\ MarkAt(t) = seen[t].mark
    <3>1. /\ prq[t] # 0 /\ prq'[t] = prq[t] /\ ticket'[t] = ticket[t] /\ mark' = mark /\ value' = value
          /\ seen'[t] = seen[t] /\ pc[t] = "dMark2" /\ SawMark(t) /\ pc'[t] = Decide(t)
      BY <1>3, <2>2 DEF SawMark, CellPcs
    <3>2. /\ Decide(t) \in {"dTake", "dSkip", "dToken", "dUnsafe", "dTail"}
          /\ Decide(t) = "dTake" => seen[t].value \in Items /\ seen[t].mark.epoch = Cycle(t)
          /\ Decide(t) = "dSkip" => seen[t].value = Null
          /\ Decide(t) = "dUnsafe" => seen[t].value \in Items
      BY <1>1, CellIs DEF Decide, Free, ValueType
    <3>3. /\ MarkAt(t)' = MarkAt(t) /\ ValueAt(t)' = ValueAt(t) /\ Cycle(t)' = Cycle(t)
          /\ Full(prq[t], Cell(ticket[t]))' => Full(prq[t], Cell(ticket[t]))
          /\ Ripe(prq[t], Cell(ticket[t]))' => Ripe(prq[t], Cell(ticket[t]))
      BY <3>1, <3>2, OwnKept
    <3>4. Moved(t)' <=> Moved(t)
      BY <3>1, <3>3 DEF Moved
    <3>5. ~Moved(t)
      BY <1>4, <2>2, <3>1 DEF Moved
    <3>6. Decide(t) = "dTake" => MarkAt(t).epoch = Cycle(t) /\ ValueAt(t) = seen[t].value
      BY <1>1, <2>2, <3>1, <3>2, <3>5 DEF Knows
    <3> QED
      BY <1>1, <3>1, <3>2, <3>3, <3>4, <3>6 DEF Knows
  <2> QED
    BY <1>12, <2>1, <2>2 DEF DMark2
<1> QED
  BY <1>5, <1>6, <1>7, <1>8, <1>9, <1>10, <1>11, <1>12 DEF Step, Enqueue, Dequeue

LEMMA Cells2Step ==
  ASSUME Basics, Cells2, NEW t \in Threads, Step(t)
  PROVE  Cells2'
<1>1. Basics'
  BY BasicsStep
<1>2. \A u \in Threads : Knows(u)'
  BY <1>1, KnowsKept, KnowsNew
<1>3. Tickets' /\ Tokens'
  BY TicketsStep, TokensStep DEF Cells2
<1> QED
  BY <1>2, <1>3 DEF Cells2

LEMMA Cells2Quiet ==
  ASSUME Basics, Cells2, Destroy \/ Finished \/ UNCHANGED vars
  PROVE  Cells2'
<1>1. UNCHANGED <<R, queue, pc, locals, calls>>
  BY QuietStep DEF Basics
<1> USE <1>1 DEF queue, ends, tickets, cells, locals, ringLocals, calls
<1>2. Tickets' /\ Tokens'
  BY DEF Cells2, Tickets, Tokens, Cell, Cells
<1>3. ASSUME NEW t \in Threads PROVE Knows(t)'
  BY DEF Cells2, Knows, Full, Ripe, Cell, SawMark, Moved, MarkAt, ValueAt, Cycle
<1> QED
  BY <1>2, <1>3 DEF Cells2

LEMMA Cells2Init == Init => Cells2
<1> SUFFICES ASSUME Init PROVE Cells2
  OBVIOUS
<1>1. \A t \in Threads : pc[t] = "idle"
  BY DEF Init
<1>2. \A r \in Rings, i \in Cells : value[r][i] \notin Threads
  BY DEF Init
<1> QED
  BY <1>1, <1>2 DEF Cells2, Tickets, Tokens, Knows, SawMark, PutPcs, TakePcs, CellPcs

----------------------------------------------------------------------------
(* Dequeues that are to come and dequeues that have been *)

LEMMA TicketOf ==
  ASSUME TypeOK
  PROVE  /\ \A k \in Nat : /\ Cell(k) \in Cells /\ Round(k) \in Nat
                            /\ Ticket(Round(k), Cell(k)) = k
         /\ \A e \in Nat, i \in Cells : /\ Ticket(e, i) \in Nat
                                        /\ Cell(Ticket(e, i)) = i /\ Round(Ticket(e, i)) = e
         /\ \A j, k \in Nat : Cell(j) = Cell(k) => /\ j <= k => Round(j) <= Round(k)
                                                   /\ Round(j) = Round(k) => j = k
<1>1. R \in Nat \ {0}
  BY DEF TypeOK
<1>2. ASSUME NEW k \in Nat PROVE Cell(k) \in Cells /\ Round(k) \in Nat /\ Ticket(Round(k), Cell(k)) = k
  BY <1>1, DivMod DEF Cell, Round, Ticket, Cells
<1>3. ASSUME NEW e \in Nat, NEW i \in Cells
      PROVE  Ticket(e, i) \in Nat /\ Cell(Ticket(e, i)) = i /\ Round(Ticket(e, i)) = e
  BY <1>1, TicketIs DEF Cell, Round, Ticket, Cells
<1>4. ASSUME NEW j \in Nat, NEW k \in Nat, Cell(j) = Cell(k)
      PROVE  /\ j <= k => Round(j) <= Round(k)
             /\ Round(j) = Round(k) => j = k
  <2>1. /\ j \div R = k \div R => j = k
        /\ j < k => j \div R < k \div R
    BY <1>1, <1>4, DivGrows DEF Cell
  <2>2. j \div R \in Nat /\ k \div R \in Nat
    BY <1>1, DivMod
  <2> QED
    BY <2>1, <2>2 DEF Round
<1> QED
  BY <1>2, <1>3, <1>4

LEMMA TicketSame ==
  ASSUME R' = R
  PROVE  /\ Cells' = Cells
         /\ \A k : Cell(k)' = Cell(k) /\ Round(k)' = Round(k)
         /\ \A e, i : Ticket(e, i)' = Ticket(e, i)
BY DEF Cells, Cell, Round, Ticket

\* How a cell comes to be full.
Fills(t, r, i) ==
  \/ /\ Marks(t) /\ r = prq[t] /\ i = Cell(ticket[t])
     /\ mark[r][i] = seen[t].mark /\ mark'[r][i] = Mark(TRUE, Cycle(t))
  \/ LinkNew(t) /\ r = prq[t] + 1 /\ i = 0 /\ New(r) /\ ~Linked(r) /\ mark'[r][i] = Mark(TRUE, 1)

LEMMA FillStep ==
  ASSUME Basics, Cells2, NEW t \in Threads, Step(t), NEW r \in Rings, NEW i \in Cells
  PROVE  Full(r, i)' => \/ Full(r, i) /\ mark'[r][i].epoch = mark[r][i].epoch
                        \/ Fills(t, r, i)
<1>1. Evolves(t, r, i)
  BY CellEvolves
<1>2. Full(r, i) => mark'[r][i].epoch = mark[r][i].epoch
  BY <1>1 DEF Evolves
<1>3. ASSUME Full(r, i)', ~Full(r, i) PROVE Fills(t, r, i)
  <2>1. mark'[r][i].epoch # mark[r][i].epoch
    BY <1>1, <1>3 DEF Evolves
  <2>2. CASE LinkNew(t)
    <3>1. /\ \A s \in Rings \ {prq[t] + 1} : mark'[s] = mark[s]
          /\ mark'[prq[t] + 1][i] = IF i = 0 THEN Mark(TRUE, 1) ELSE Mark(TRUE, 0)
          /\ New(prq[t] + 1) /\ ~Linked(prq[t] + 1)
      BY <2>2, LinkedRing DEF Basics
    <3>2. r = prq[t] + 1
      BY <2>1, <3>1
    <3>3. mark[r][i] = Mark(TRUE, 0)
      BY <3>1, <3>2 DEF New
    <3>4. i = 0
      BY <2>1, <3>1, <3>2, <3>3
    <3> QED
      BY <2>2, <3>1, <3>2, <3>4 DEF Fills
  <2>3. CASE CellsKept(t) \/ Reserves(t) \/ Undoes(t) \/ Puts(t) \/ Takes(t) \/ Empties(t)
    BY <2>1, <2>3 DEF CellsKept, Reserves, Undoes, Puts, Takes, Empties, MarkKept
  <2>4. CASE Marks(t)
    <3>1. r = prq[t] /\ i = Cell(ticket[t]) /\ mark'[r][i] = Mark(TRUE, Cycle(t))
      BY <2>1, <2>4 DEF Marks, MarkSet
    <3>2. mark[r][i] = MarkAt(t)
      BY <3>1, CellIs, RingsAre DEF Basics
    <3> QED
      BY <2>4, <3>1, <3>2 DEF Marks, Fills
  <2>5. CASE Skips(t) \/ Spoils(t)
    <3>1. value'[r][i] = value[r][i] /\ pc'[t] = "dTail"
      BY <2>5 DEF Skips, Spoils, Moves, ValueKept
    <3>2. \A u \in Threads : pc'[u] = "ePut" => pc[u] = "ePut"
      BY <3>1, OthersSame DEF Basics, Same
    <3> QED
      BY <1>3, <3>1, <3>2 DEF Full, Ripe
  <2> QED
    BY <2>2, <2>3, <2>4, <2>5, CellStep DEF Basics
<1> QED
  BY <1>2, <1>3

\* The dequeue with ticket k of ring r leaves its cell in this step.
GoneNow(t, r, k) ==
  /\ pc[t] \in CellPcs /\ prq[t] = r /\ ticket[t] = k
  /\ \/ Takes(t)
     \/ Skips(t) /\ mark'[r][Cell(k)] = Mark(seen[t].mark.safe, Round(k))
     \/ Spoils(t) /\ mark'[r][Cell(k)] = Mark(FALSE, seen[t].mark.epoch)
     \/ mark'[r][Cell(k)] = mark[r][Cell(k)] /\ Round(k) < mark[r][Cell(k)].epoch
  /\ Skips(t) \/ Spoils(t) => mark[r][Cell(k)] = seen[t].mark

LEMMA HeldStep ==
  ASSUME Basics, NEW t \in Threads, Step(t), NEW r \in Rings, NEW k \in Nat, Held(r, k)
  PROVE  Held(r, k)' \/ GoneNow(t, r, k)
<1>1. TypeOK /\ \A u \in Threads \ {t} : Same(u)
  BY OthersSame DEF Basics
<1>2. PICK u \in Threads : prq[u] = r /\ ticket[u] = k /\ pc[u] \in CellPcs
  BY DEF Held
<1>3. CASE u # t
  BY <1>1, <1>2, <1>3 DEF Held, Same
<1>4. CASE u = t /\ pc'[t] \in CellPcs
  <2>1. TicketKept(t)
    BY <1>1, <1>2, <1>4, TicketStep DEF TicketTake, CellPcs
  <2> QED
    BY <1>2, <1>4, <2>1 DEF Held, TicketKept
<1>5. CASE u = t /\ pc'[t] \notin CellPcs
  <2>1. /\ Cell(k) \in Cells /\ Cell(k) = Cell(ticket[t]) /\ Cycle(t) = Round(k)
        /\ MarkAt(t) = mark[r][Cell(k)]
    BY <1>1, <1>2, <1>5, CellIs, RingsAre
  <2>2. CASE CellsKept(t)
    BY <1>2, <1>5, <2>1, <2>2 DEF CellsKept, MarkKept, GoneNow, Skips, Spoils, Moves, CellPcs
  <2>3. CASE Takes(t)
    BY <1>2, <1>5, <2>3 DEF Takes, Leaves, GoneNow, Skips, Spoils, Moves
  <2>4. CASE Skips(t)
    BY <1>2, <1>5, <2>1, <2>4 DEF Skips, MarkSet, GoneNow
  <2>5. CASE Spoils(t)
    BY <1>2, <1>5, <2>1, <2>5 DEF Spoils, MarkSet, GoneNow
  <2>6. CASE LinkNew(t) \/ Reserves(t) \/ Marks(t) \/ Undoes(t) \/ Puts(t) \/ Empties(t)
    BY <1>2, <1>5, <2>6 DEF LinkNew, Reserves, Marks, Undoes, Puts, Empties, Moves, Leaves, CellPcs
  <2> QED
    BY <2>2, <2>3, <2>4, <2>5, <2>6, CellStep DEF Basics
<1> QED
  BY <1>2, <1>3, <1>4, <1>5

\* Tickets of dequeues run on, and their dequeue is at its cell.
LEMMA HeadStep ==
  ASSUME Basics, NEW t \in Threads, Step(t), NEW r \in Rings
  PROVE  /\ rhead[r] \in Nat /\ rhead'[r] \in Nat
         /\ \/ rhead'[r] = rhead[r]
            \/ /\ rhead'[r] = rhead[r] + 1 /\ TicketTake(t)
               /\ \A k \in Nat : k = rhead[r] => Held(r, k)'
<1>1. TypeOK /\ rhead[r] \in Nat
  BY DEF Basics, TypeOK
<1>2. CASE rhead' = rhead
  BY <1>1, <1>2
<1>3. CASE TicketTake(t) /\ r = prq[t]
  BY <1>1, <1>3 DEF TicketTake, Held, CellPcs
<1>4. CASE TicketTake(t) /\ r # prq[t]
  BY <1>1, <1>4 DEF TicketTake
<1> QED
  BY <1>1, <1>2, <1>3, <1>4, TicketStep

LEMMA GoneStep ==
  ASSUME Basics, Cells2, Gone, \A u \in Threads : Awaits(u), NEW t \in Threads, Step(t)
  PROVE  Gone'
<1>1. TypeOK /\ TypeOK' /\ R' = R /\ R \in Nat
  BY OthersSame, BasicsStep DEF Basics, TypeOK
<1> SUFFICES ASSUME NEW r \in Rings, NEW k \in R..(rhead'[r] - 1)
             PROVE  \/ Held(r, k)'
                    \/ mark'[r][Cell(k)].epoch >= Round(k)
                    \/ ~mark'[r][Cell(k)].safe
  BY <1>1, TicketSame DEF Gone
<1>2. k \in Nat /\ Cell(k) \in Cells /\ Round(k) \in Nat
  BY <1>1, TicketOf
<1> DEFINE m == mark[r][Cell(k)]
           n == mark'[r][Cell(k)]
<1>3. /\ m.epoch \in Nat /\ n.epoch \in Nat /\ m.safe \in BOOLEAN /\ n.safe \in BOOLEAN
  <2>1. m \in MarkType /\ n \in MarkType
    BY <1>1, <1>2, TicketSame DEF TypeOK
  <2> QED
    BY <2>1 DEF MarkType
<1>4. Evolves(t, r, Cell(k)) /\ Later(m, n)
  <2>1. Evolves(t, r, Cell(k))
    BY <1>2, CellEvolves
  <2> QED
    BY <2>1 DEF Evolves
<1>5. CASE k = rhead[r]
  BY <1>1, <1>2, <1>5, HeadStep
<1>6. CASE k # rhead[r]
  <2>1. k \in R..(rhead[r] - 1)
    BY <1>1, <1>2, <1>6, HeadStep
  <2>2. CASE Held(r, k)
    <3>1. CASE GoneNow(t, r, k)
      <4>1. CASE Takes(t)
        <5>1. MarkAt(t).epoch = Cycle(t) /\ prq[t] # 0
          BY <3>1, <4>1, RingsAre DEF Cells2, Knows, GoneNow, Takes, Leaves
        <5>2. m.epoch = Round(k) /\ n = m
          BY <1>1, <1>2, <3>1, <4>1, <5>1, CellIs DEF GoneNow, Takes, MarkKept
        <5> QED
          BY <1>2, <1>3, <5>2
      <4>2. CASE n = Mark(seen[t].mark.safe, Round(k))
        BY <1>2, <4>2 DEF Mark
      <4>3. CASE n = Mark(FALSE, seen[t].mark.epoch)
        BY <4>3 DEF Mark
      <4>4. CASE n = m /\ Round(k) < m.epoch
        BY <1>2, <1>3, <4>4
      <4> QED
        BY <3>1, <4>1, <4>2, <4>3, <4>4 DEF GoneNow
    <3> QED
      BY <1>2, <2>2, <3>1, HeldStep
  <2>3. CASE m.epoch >= Round(k)
    BY <1>2, <1>3, <1>4, <2>3 DEF Later
  <2>4. CASE ~m.safe /\ m.epoch < Round(k) /\ n.safe /\ n.epoch < Round(k)
    \* The cell has become safe again: an enqueue has set its epoch.
    <3>1. m.epoch < n.epoch /\ n # m
      BY <1>3, <1>4, <2>4 DEF Later
    <3>2. CASE CellsKept(t) \/ Reserves(t) \/ Undoes(t) \/ Puts(t) \/ Takes(t) \/ Empties(t)
      BY <1>2, <3>1, <3>2 DEF CellsKept, Reserves, Undoes, Puts, Takes, Empties, MarkKept
    <3>3. CASE LinkNew(t)
      <4>1. /\ \A s \in Rings \ {prq[t] + 1} : mark'[s] = mark[s]
            /\ New(prq[t] + 1)
        BY <3>3, LinkedRing DEF Basics
      <4>2. r = prq[t] + 1 /\ rhead[r] = R
        BY <3>1, <4>1 DEF New
      <4> QED
        BY <1>1, <2>1, <4>2
    <3>4. CASE Skips(t)
      <4>1. r = prq[t] /\ Cell(k) = Cell(ticket[t]) /\ n = Mark(seen[t].mark.safe, Cycle(t))
        BY <1>2, <3>1, <3>4 DEF Skips, MarkSet
      <4>2. m = seen[t].mark
        BY <1>1, <3>4, <4>1, CellIs, RingsAre DEF Skips
      <4> QED
        BY <2>4, <4>1, <4>2 DEF Mark
    <3>5. CASE Spoils(t)
      <4>1. n = Mark(FALSE, seen[t].mark.epoch)
        BY <1>2, <3>1, <3>5 DEF Spoils, MarkSet
      <4> QED
        BY <2>4, <4>1 DEF Mark
    <3>6. CASE Marks(t)
      <4>1. r = prq[t] /\ Cell(k) = Cell(ticket[t]) /\ n = Mark(TRUE, Cycle(t))
        BY <1>2, <3>1, <3>6 DEF Marks, MarkSet
      <4>2. m = seen[t].mark /\ m = MarkAt(t) /\ pc[t] = "eEpoch"
        BY <1>1, <3>6, <4>1, CellIs, RingsAre DEF Marks, Moves
      <4>3. ~seen[t].mark.safe /\ ~Moved(t)
        BY <1>3, <2>4, <4>2 DEF Moved
      <4>4. ticket[t] \in Nat /\ Cycle(t) = Round(ticket[t]) /\ Cycle(t) < Round(k)
        BY <1>1, <2>4, <4>1, CellIs DEF Mark
      <4>5. ticket[t] < k
        <5>1. k <= ticket[t] => Round(k) <= Round(ticket[t])
          BY <1>1, <1>2, <4>1, <4>4, TicketOf
        <5>2. Round(ticket[t]) \in Nat
          BY <1>1, <4>4, TicketOf
        <5> QED
          BY <1>2, <4>4, <5>1, <5>2
      <4>6. Held(r, k)
        <5>1. k \in ticket[t]..(rhead[prq[t]] - 1)
          BY <1>2, <2>1, <4>1, <4>4, <4>5
        <5> QED
          BY <4>1, <4>2, <4>3, <5>1 DEF Awaits
      <4>7. ~GoneNow(t, r, k)
        BY <4>2 DEF GoneNow, CellPcs
      <4> QED
        BY <1>2, <4>6, <4>7, HeldStep
    <3> QED
      BY <3>2, <3>3, <3>4, <3>5, <3>6, CellStep DEF Basics
  <2> QED
    BY <1>2, <1>3, <2>1, <2>2, <2>3, <2>4 DEF Gone
<1> QED
  BY <1>5, <1>6

LEMMA InRing ==
  ASSUME TypeOK, NEW t \in Threads
  PROVE  prq[t] \in Nat /\ (pc[t] \notin {"idle", "lTail", "lHead"} => prq[t] \in Rings)
<1>1. prq[t] \in Rings \union {0} /\ (prq[t] = 0 => pc[t] \in {"idle", "lTail", "lHead"})
  BY DEF TypeOK
<1>2. CASE prq[t] = 0
  BY <1>1, <1>2
<1>3. CASE prq[t] \in Rings
  BY <1>3, RingsAre
<1> QED
  BY <1>1, <1>2, <1>3

\* A thread that has read its cell sees the epoch move and never move back.
LEMMA MovedStep ==
  ASSUME Basics, Basics', Cells2, NEW t \in Threads, Step(t), NEW u \in Threads,
         SawMark(u), TicketKept(u), seen'[u] = seen[u]
  PROVE  /\ prq[u] \in Rings /\ Cell(ticket[u]) \in Cells
         /\ MarkAt(u) = mark[prq[u]][Cell(ticket[u])]
         /\ MarkAt(u)' = mark'[prq[u]][Cell(ticket[u])]
         /\ MarkAt(u).epoch \in Nat /\ MarkAt(u)'.epoch \in Nat /\ seen[u].mark.epoch \in Nat
         /\ MarkAt(u).epoch <= MarkAt(u)'.epoch
         /\ seen[u].mark.epoch <= MarkAt(u).epoch
         /\ Moved(u) => Moved(u)'
         /\ ~Moved(u)' => MarkAt(u)'.epoch = MarkAt(u).epoch
         /\ Moved(u)' <=> seen[u].mark.epoch < MarkAt(u)'.epoch
<1>1. TypeOK /\ TypeOK' /\ R' = R
  BY OthersSame DEF Basics
<1>2. prq[u] # 0 /\ prq[u] \in Rings
  <2>1. prq[u] \in Rings \union {0} /\ (prq[u] = 0 => pc[u] \in {"idle", "lTail", "lHead"})
    BY <1>1 DEF TypeOK
  <2> QED
    BY <2>1 DEF SawMark, CellPcs
<1>3. /\ Cell(ticket[u]) \in Cells /\ seen[u].mark.epoch \in Nat
      /\ MarkAt(u) = mark[prq[u]][Cell(ticket[u])] /\ MarkAt(u).epoch \in Nat
  BY <1>1, <1>2, CellIs
<1>4. MarkAt(u)' = mark'[prq[u]][Cell(ticket[u])]
  BY <1>1, <1>2, CellKept DEF TicketKept
<1>5. MarkAt(u)'.epoch \in Nat
  <2>1. mark'[prq[u]][Cell(ticket[u])] \in MarkType
    BY <1>1, <1>2, <1>3, TicketSame DEF TypeOK
  <2> QED
    BY <1>4, <2>1 DEF MarkType
<1>6. Later(MarkAt(u), MarkAt(u)')
  <2>1. Evolves(t, prq[u], Cell(ticket[u]))
    BY <1>2, <1>3, CellEvolves
  <2> QED
    BY <1>3, <1>4, <2>1 DEF Evolves
<1>7. Later(seen[u].mark, MarkAt(u))
  BY DEF Cells2, Knows
<1>8. Moved(u)' <=> seen[u].mark.epoch < MarkAt(u)'.epoch
  BY DEF Moved
<1>9. MarkAt(u).epoch <= MarkAt(u)'.epoch /\ seen[u].mark.epoch <= MarkAt(u).epoch
  BY <1>3, <1>5, <1>6, <1>7 DEF Later
<1>10. (Moved(u) => Moved(u)') /\ (~Moved(u)' => MarkAt(u)'.epoch = MarkAt(u).epoch)
  BY <1>3, <1>5, <1>8, <1>9 DEF Moved
<1> QED
  BY <1>2, <1>3, <1>4, <1>5, <1>8, <1>9, <1>10

\* A dequeue that has found an item and the epoch that goes with it.
FoundItem(t) == pc[t] = "dUnsafe" \/ (pc[t] = "dMark2" /\ seen[t].value \in Items)

LEMMA FoundStep ==
  ASSUME Basics, NEW t \in Threads, Step(t), FoundItem(t)'
  PROVE  /\ TicketKept(t) /\ prq[t] \in Rings
         /\ seen'[t].mark = seen[t].mark
         /\ \/ pc[t] = "dMark2" /\ seen[t].value \in Items /\ MarkAt(t) = seen[t].mark
            \/ pc[t] = "dVal" /\ ValueAt(t) \in Items
<1>1. /\ TypeOK /\ pc \in [Threads -> {"idle"} \union EnqueuePcs \union DequeuePcs]
      /\ seen \in [Threads -> [mark : MarkType, value : ValueType]]
      /\ prq \in [Threads -> Rings \union {0}]
      /\ prq[t] = 0 => pc[t] \in {"idle", "lTail", "lHead"}
  BY DEF Basics, TypeOK
<1>2. pc'[t] \in {"dUnsafe", "dMark2"}
  BY DEF FoundItem
<1> USE DEF Goto, Test, locals, ringLocals, TicketKept
<1>3. ~(Call(t) \/ LTail(t) \/ LNext(t) \/ LHelp(t) \/ LLink(t) \/ LSwing(t) \/ LHead(t) \/ LDNext(t)
       \/ LDSwing(t))
  BY <1>1, <1>2 DEF Call, CallDequeue, CallEnqueue, LTail, LNext, LHelp, LLink, LSwing, LHead, LDNext,
     LDSwing, Again, EnqueueReturns, Return
<1>4. ~(ETicket(t) \/ EMark(t) \/ EVal(t) \/ EHead(t) \/ EToken(t) \/ EEpoch(t) \/ EUndo(t) \/ EPut(t)
       \/ EOver(t) \/ EClose(t))
  BY <1>1, <1>2 DEF ETicket, EMark, EVal, EHead, EToken, EEpoch, EUndo, EPut, EOver, EClose,
     EnqueueReturns, Return
<1>5. ~(DTicket(t) \/ DMark(t) \/ DTake(t) \/ DToken(t) \/ DSkip(t) \/ DUnsafe(t) \/ DTail(t))
  BY <1>1, <1>2 DEF DTicket, DMark, DTake, DToken, DSkip, DUnsafe, DCasMark, DTail, Reread, Return
<1>6. CASE DVal(t)
  <2>1. /\ seen' = [seen EXCEPT ![t].value = ValueAt(t)] /\ pc[t] = "dVal" /\ pc'[t] = "dMark2"
        /\ prq' = prq /\ ticket' = ticket /\ prq[t] \in Rings
    BY <1>1, <1>6 DEF DVal
  <2>2. seen'[t].value = ValueAt(t) /\ seen'[t].mark = seen[t].mark
    BY <1>1, <2>1
  <2> QED
    BY <2>1, <2>2 DEF FoundItem
<1>7. CASE DMark2(t)
  <2>1. ~Reread(t, "dMark2")
    BY <1>1, <1>2 DEF Reread
  <2>2. /\ Decide(t) \in {"dTake", "dSkip", "dToken", "dUnsafe", "dTail"}
        /\ Decide(t) = "dUnsafe" => seen[t].value \in Items
    <3>1. Cycle(t) \in Nat /\ seen[t].value \in ValueType /\ seen[t].mark.epoch \in Nat
      BY <1>1, CellIs
    <3> QED
      BY <3>1 DEF Decide, Free, ValueType
  <2> QED
    BY <1>1, <1>2, <1>7, <2>1, <2>2 DEF DMark2
<1> QED
  BY <1>3, <1>4, <1>5, <1>6, <1>7 DEF Step, Enqueue, Dequeue

LEMMA AwaitsKept ==
  ASSUME Basics, Basics', Cells2, Cells2', \A v \in Threads : Awaits(v), NEW t \in Threads, Step(t),
         NEW u \in Threads, pc[u] \in {"eToken", "eEpoch"}, pc'[u] \in {"eToken", "eEpoch"},
         TicketKept(u), seen'[u] = seen[u]
  PROVE  Awaits(u)'
<1>1. /\ TypeOK /\ R' = R /\ (\A v \in Threads \ {t} : Same(v))
      /\ Tickets
  BY OthersSame DEF Basics, Cells2
<1> SUFFICES ASSUME ~seen[u].mark.safe, ~Moved(u)'
             PROVE  /\ \A k \in ticket[u]..(rhead'[prq[u]] - 1) :
                         Cell(k) = Cell(ticket[u]) => Held(prq[u], k)'
                    /\ \A v \in Threads :
                         /\ prq'[v] = prq[u] /\ Cell(ticket[v])' = Cell(ticket[u])
                         /\ ticket'[v] >= ticket[u] /\ FoundItem(v)'
                         => Moved(v)'
  <2>1. /\ prq'[u] = prq[u] /\ ticket'[u] = ticket[u] /\ seen'[u] = seen[u]
        /\ \A k : Cell(k)' = Cell(k)
    BY <1>1, TicketSame DEF TicketKept
  <2>2. Cell(ticket[u])' = Cell(ticket[u])
    BY <1>1, <2>1 DEF Cell
  <2>3. \A k : Held(prq[u], k)' <=> \A r : r = prq[u] => Held(r, k)'
    BY <2>1 DEF Held
  <2> QED
    BY <2>1, <2>2, <2>3 DEF Awaits, FoundItem, Held
<1> DEFINE r == prq[u]
           i == Cell(ticket[u])
<1>2. SawMark(u)
  BY DEF SawMark
<1>3. /\ r \in Rings /\ i \in Cells
      /\ MarkAt(u) = mark[r][i] /\ MarkAt(u)' = mark'[r][i]
      /\ mark[r][i].epoch \in Nat /\ mark'[r][i].epoch \in Nat /\ seen[u].mark.epoch \in Nat
      /\ ~Moved(u) /\ mark'[r][i].epoch = mark[r][i].epoch
      /\ mark[r][i].epoch = seen[u].mark.epoch
  BY <1>2, MovedStep DEF Moved
<1>4. ticket[u] \in Nat /\ Cycle(u) = Round(ticket[u]) /\ Cycle(u) \in Nat
      /\ mark[r][i].epoch < Cycle(u)
  BY <1>1, <1>3, CellIs DEF Basics, Locals
<1>5. /\ \A k \in ticket[u]..(rhead[r] - 1) : Cell(k) = i => Held(r, k)
      /\ \A v \in Threads :
           /\ prq[v] = r /\ Cell(ticket[v]) = i /\ ticket[v] >= ticket[u] /\ FoundItem(v)
           => Moved(v)
  BY <1>3 DEF Awaits, FoundItem
<1>6. ASSUME NEW k \in ticket[u]..(rhead'[r] - 1), Cell(k) = i PROVE Held(prq[u], k)'
  <2>1. k \in Nat /\ Round(k) \in Nat /\ Cycle(u) <= Round(k)
    BY <1>1, <1>4, <1>6, TicketOf
  <2>2. \A s : s = prq[u] => (Held(s, k)' <=> Held(prq[u], k)')
    <3>1. prq'[u] = prq[u]
      BY DEF TicketKept
    <3> QED
      BY <3>1 DEF Held
  <2>3. CASE k = rhead[r]
    BY <1>3, <1>4, <2>1, <2>2, <2>3, HeadStep
  <2>4. CASE k # rhead[r]
    <3>1. Held(r, k)
      <4>1. k \in ticket[u]..(rhead[r] - 1)
        BY <1>3, <1>4, <1>6, <2>1, <2>4, HeadStep
      <4> QED
        BY <1>5, <1>6, <4>1
    <3>2. ASSUME GoneNow(t, r, k) PROVE FALSE
      <4>1. pc[t] \in CellPcs /\ prq[t] = r /\ ticket[t] = k /\ Cycle(t) = Round(k)
            /\ MarkAt(t) = mark[r][i]
        BY <1>1, <1>3, <1>6, <3>2, CellIs, RingsAre DEF GoneNow
      <4>2. CASE Takes(t)
        <5>1. mark[r][i].epoch = Round(k)
          BY <4>1, <4>2 DEF Cells2, Knows, Takes, Leaves
        <5> QED
          BY <1>3, <1>4, <2>1, <5>1
      <4>3. CASE mark'[r][i] = Mark(seen[t].mark.safe, Round(k))
        <5>1. mark'[r][i].epoch = Round(k)
          BY <4>3 DEF Mark
        <5> QED
          BY <1>3, <1>4, <2>1, <5>1
      <4>4. CASE Spoils(t)
        <5>1. FoundItem(t) /\ ~Moved(t)
          BY <1>1, <1>3, <4>1, <4>4, CellIs DEF Spoils, Moves, FoundItem, Moved
        <5>2. ticket[t] >= ticket[u] /\ Cell(ticket[t]) = i
          BY <1>4, <1>6, <2>1, <4>1
        <5> QED
          BY <1>5, <4>1, <5>1, <5>2
      <4>5. CASE Round(k) < mark[r][i].epoch
        BY <1>3, <1>4, <2>1, <4>5
      <4> QED
        BY <1>6, <3>2, <4>2, <4>3, <4>4, <4>5 DEF GoneNow
    <3> QED
      BY <1>3, <2>1, <2>2, <3>1, <3>2, HeldStep
  <2> QED
    BY <2>3, <2>4
<1>7. ASSUME NEW v \in Threads, prq'[v] = prq[u], Cell(ticket[v])' = Cell(ticket[u]),
             ticket'[v] >= ticket[u], FoundItem(v)'
      PROVE  Moved(v)'
  <2>1. CASE v # t
    <3>1. TicketKept(v) /\ seen'[v] = seen[v] /\ FoundItem(v) /\ SawMark(v)
      BY <1>1, <1>7, <2>1 DEF Same, TicketKept, FoundItem, SawMark, CellPcs
    <3>2. Cell(ticket[v]) = i
      BY <1>1, <1>7, <3>1 DEF Cell, TicketKept
    <3>3. Moved(v)
      BY <1>5, <1>7, <3>1, <3>2 DEF TicketKept
    <3> QED
      BY <3>1, <3>3, MovedStep
  <2>2. CASE v = t
    <3>1. /\ TicketKept(t) /\ prq[t] \in Rings /\ seen'[t].mark = seen[t].mark
          /\ \/ pc[t] = "dMark2" /\ seen[t].value \in Items /\ MarkAt(t) = seen[t].mark
             \/ pc[t] = "dVal" /\ ValueAt(t) \in Items
      BY <1>7, <2>2, FoundStep
    <3>2. prq[t] = r /\ Cell(ticket[t]) = i /\ ticket[t] >= ticket[u]
          /\ MarkAt(t) = mark[r][i] /\ ValueAt(t) = value[r][i]
      <4>1. prq[t] = r /\ Cell(ticket[t]) = i /\ ticket[t] >= ticket[u]
        BY <1>1, <1>7, <2>2, <3>1 DEF Cell, TicketKept
      <4> QED
        BY <1>1, <1>3, <4>1, CellIs, RingsAre
    <3>3. CASE pc[t] = "dMark2"
      <4>1. Moved(t)
        BY <1>5, <3>1, <3>2, <3>3 DEF FoundItem
      <4> QED
        BY <1>3, <3>1, <3>2, <3>3, <4>1 DEF Moved
    <3>4. CASE pc[t] = "dVal"
      <4>1. Full(r, i) /\ Knows(u)
        BY <3>1, <3>2, <3>4 DEF Full, Cells2
      <4> QED
        BY <1>3, <4>1 DEF Knows
    <3> QED
      BY <3>1, <3>3, <3>4
  <2> QED
    BY <2>1, <2>2
<1> QED
  BY <1>6, <1>7

LEMMA AwaitsStep ==
  ASSUME Basics, Basics', Cells2, Cells2', \A v \in Threads : Awaits(v), NEW t \in Threads, Step(t),
         NEW u \in Threads
  PROVE  Awaits(u)'
<1>1. TypeOK /\ TypeOK' /\ R' = R /\ (\A v \in Threads \ {t} : Same(v))
  BY OthersSame DEF Basics
<1>2. CASE pc'[u] \notin {"eToken", "eEpoch"}
  BY <1>2 DEF Awaits
<1>3. CASE u # t
  <2>1. pc'[u] = pc[u] /\ TicketKept(u) /\ seen'[u] = seen[u]
    BY <1>1, <1>3 DEF Same, TicketKept
  <2> QED
    BY <1>2, <2>1, AwaitsKept
<1>4. CASE u = t /\ pc'[t] \in {"eToken", "eEpoch"}
  <2>1. \/ pc[t] = "eVal" /\ seen'[t].mark.safe
        \/ pc[t] = "eHead" /\ rhead[prq[t]] <= ticket[t] /\ TicketKept(t) /\ rhead' = rhead
           /\ pc'[t] = "eToken"
        \/ pc[t] \in {"eToken", "eEpoch"} /\ TicketKept(t) /\ seen'[t] = seen[t]
    <3>1. /\ pc \in [Threads -> {"idle"} \union EnqueuePcs \union DequeuePcs]
          /\ seen \in [Threads -> [mark : MarkType, value : ValueType]]
      BY <1>1 DEF TypeOK
    <3> USE DEF Goto, Test, locals, ringLocals, TicketKept
    <3>2. ~(Call(t) \/ LTail(t) \/ LNext(t) \/ LHelp(t) \/ LLink(t) \/ LSwing(t) \/ LHead(t) \/ LDNext(t)
           \/ LDSwing(t))
      BY <1>4, <3>1 DEF Call, CallDequeue, CallEnqueue, LTail, LNext, LHelp, LLink, LSwing, LHead, LDNext,
         LDSwing, Again, EnqueueReturns, Return
    <3>3. ~(ETicket(t) \/ EMark(t) \/ EEpoch(t) \/ EUndo(t) \/ EPut(t) \/ EOver(t) \/ EClose(t))
      BY <1>4, <3>1 DEF ETicket, EMark, EEpoch, EUndo, EPut, EOver, EClose, EnqueueReturns, Return
    <3>4. ~(DTicket(t) \/ DMark(t) \/ DVal(t) \/ DTake(t) \/ DToken(t) \/ DSkip(t) \/ DUnsafe(t) \/ DTail(t))
      BY <1>4, <3>1 DEF DTicket, DMark, DVal, DTake, DToken, DSkip, DUnsafe, DCasMark, DTail, Reread, Return
    <3>5. ~DMark2(t)
      <4>1. Decide(t) \in {"dTake", "dSkip", "dToken", "dUnsafe", "dTail"}
        BY <1>1, CellIs DEF Decide, Free, ValueType
      <4> QED
        BY <1>4, <3>1, <4>1 DEF DMark2, Reread
    <3>6. CASE EVal(t)
      <4>1. pc[t] = "eVal" /\ seen[t].mark.safe /\ seen' = [seen EXCEPT ![t].value = ValueAt(t)]
        BY <1>4, <3>1, <3>6 DEF EVal
      <4> QED
        BY <3>1, <4>1
    <3>7. CASE EHead(t) \/ EToken(t)
      BY <1>4, <3>1, <3>7 DEF EHead, EToken, queue, tickets
    <3> QED
      BY <3>2, <3>3, <3>4, <3>5, <3>6, <3>7 DEF Step, Enqueue, Dequeue
  <2>2. CASE pc[t] = "eVal" /\ seen'[t].mark.safe
    BY <1>4, <2>2 DEF Awaits
  <2>3. CASE pc[t] = "eHead" /\ rhead[prq[t]] <= ticket[t] /\ TicketKept(t) /\ rhead' = rhead
             /\ pc'[t] = "eToken"
    <3>1. prq[t] \in Rings /\ rhead'[prq'[t]] <= ticket'[t] /\ rhead'[prq'[t]] \in Nat /\ ticket'[t] \in Nat
      <4>1. prq[t] \in Rings
        BY <1>1, <2>3, InRing
      <4>2. rhead[prq[t]] \in Nat /\ ticket[t] \in Nat
        BY <1>1, <4>1 DEF TypeOK
      <4> QED
        BY <2>3, <4>1, <4>2 DEF TicketKept
    <3>2. \A k \in ticket'[t]..(rhead'[prq'[t]] - 1) : FALSE
      BY <3>1
    <3>3. \A v \in Threads : FoundItem(v)' /\ prq'[v] = prq'[t] => ~(ticket'[v] >= ticket'[t])
      <4> SUFFICES ASSUME NEW v \in Threads, FoundItem(v)', prq'[v] = prq'[t] PROVE ~(ticket'[v] >= ticket'[t])
        OBVIOUS
      <4>1. ticket'[v] < rhead'[prq'[v]] /\ ticket'[v] \in Nat
        BY <1>1 DEF FoundItem, Cells2, Tickets, TakePcs, CellPcs, TypeOK
      <4> QED
        BY <3>1, <4>1
    <3> QED
      BY <1>4, <3>2, <3>3 DEF Awaits, FoundItem
  <2>4. CASE pc[t] \in {"eToken", "eEpoch"} /\ TicketKept(t) /\ seen'[t] = seen[t]
    BY <1>4, <2>4, AwaitsKept
  <2> QED
    BY <1>4, <2>1, <2>2, <2>3, <2>4
<1> QED
  BY <1>2, <1>3, <1>4

\* A ring with a successor that is drained stays so.
LEMMA DrainedStep ==
  ASSUME Basics, Basics', Cells2, NEW t \in Threads, Step(t),
         NEW r \in Rings, Drained(r), next[r] # 0
  PROVE  Drained(r)'
<1>1. /\ TypeOK /\ TypeOK' /\ R' = R /\ (\A v \in Threads \ {t} : Same(v))
  BY OthersSame DEF Basics
<1>2. rhead[r] \in Nat /\ rhead'[r] \in Nat /\ rhead[r] <= rhead'[r] /\ rtail[r].closed /\ Linked(r)
  BY HeadStep DEF Basics, List
<1>3. ASSUME NEW u \in Threads, prq'[u] = r, pc'[u] \in PutPcs PROVE ticket'[u] < rhead'[r]
  <2>1. pc[u] \in PutPcs /\ TicketKept(u)
    BY <1>1, <1>2, <1>3, TicketStep DEF Same, TicketKept, TicketPut
  <2>2. ticket[u] < rhead[r] /\ ticket[u] \in Nat
    BY <1>1, <1>3, <2>1 DEF Drained, TicketKept, TypeOK
  <2> QED
    BY <1>2, <2>1, <2>2 DEF TicketKept
<1>4. ASSUME NEW i \in Cells, Full(r, i)' PROVE Ticket(mark'[r][i].epoch, i) < rhead'[r]
  <2>1. CASE Full(r, i) /\ mark'[r][i].epoch = mark[r][i].epoch
    <3>1. Ticket(mark[r][i].epoch, i) < rhead[r] /\ Ticket(mark[r][i].epoch, i) \in Nat
      <4>1. mark[r][i] \in MarkType
        BY <1>1 DEF TypeOK
      <4>2. mark[r][i].epoch \in Nat
        BY <4>1 DEF MarkType
      <4> QED
        BY <1>1, <2>1, <4>2, TicketOf DEF Drained
    <3> QED
      BY <1>2, <2>1, <3>1
  <2>2. CASE Fills(t, r, i)
    <3>1. /\ Marks(t) /\ r = prq[t] /\ i = Cell(ticket[t]) /\ mark'[r][i] = Mark(TRUE, Cycle(t))
      BY <1>2, <2>2 DEF Fills
    <3>2. mark'[r][i].epoch = Round(ticket[t]) /\ ticket[t] \in Nat
      BY <1>1, <3>1, CellIs DEF Mark
    <3>3. Ticket(mark'[r][i].epoch, i) = ticket[t]
      BY <1>1, <3>1, <3>2, TicketOf
    <3>4. ticket[t] < rhead[r]
      BY <3>1 DEF Drained, Marks, Moves, PutPcs
    <3> QED
      BY <1>2, <3>2, <3>3, <3>4
  <2> QED
    BY <1>4, <2>1, <2>2, FillStep
<1>5. \A i \in Cells : Ticket(mark[r][i].epoch, i)' = Ticket(mark'[r][i].epoch, i)
  BY <1>1 DEF Ticket
<1> QED
  BY <1>1, <1>3, <1>4, <1>5, TicketSame DEF Drained

LEMMA PassedStep ==
  ASSUME Basics, Basics', Cells2, Passed, Waiting, NEW t \in Threads, Step(t)
  PROVE  Passed'
<1>1. /\ TypeOK /\ TypeOK' /\ R' = R /\ (\A v \in Threads \ {t} : Same(v)) /\ List
  BY OthersSame DEF Basics
<1>2. /\ qhead \in Nat /\ qhead' \in Nat
      /\ qhead' = qhead \/ (qhead' = qhead + 1 /\ qhead = prq[t] /\ Drained(prq[t]) /\ next[prq[t]] # 0)
  <2>1. qhead \in Nat /\ qhead' \in Nat
    BY <1>1, RingsAre DEF TypeOK
  <2>2. CASE qhead' = qhead
    BY <2>1, <2>2
  <2>3. CASE pc[t] = "lDSwing" /\ qhead = prq[t] /\ qhead' = next[prq[t]]
    <3>1. Drained(prq[t]) /\ next[prq[t]] # 0 /\ prq[t] \in Rings
      BY <1>1, <2>3 DEF Passed, List, TypeOK
    <3>2. \A r \in Rings : next[r] \in {0, r + 1}
      BY <1>1 DEF List
    <3> QED
      BY <2>1, <2>3, <3>1, <3>2
  <2> QED
    BY <1>1, <2>1, <2>2, <2>3, RingStep DEF RingKept, LinkNew
<1>3. \A r \in Rings : next[r] # 0 => next'[r] # 0
  <2>1. CASE RingKept(t)
    BY <2>1 DEF RingKept
  <2>2. CASE LinkNew(t)
    <3>1. (\A r \in Rings : next'[r] = IF r = prq[t] THEN r + 1 ELSE next[r]) /\ next[prq[t]] = 0
      BY <2>2, LinkedRing DEF Basics, LinkNew
    <3> QED
      BY <3>1
  <2> QED
    BY <1>1, <2>1, <2>2, RingStep
<1>4. ASSUME NEW r \in Rings, r < qhead' PROVE Drained(r)' /\ next'[r] # 0
  <2>1. Drained(r) /\ next[r] # 0
    <3>1. r < qhead \/ (r = qhead /\ r = prq[t] /\ Drained(prq[t]) /\ next[prq[t]] # 0)
      BY <1>2, <1>4, RingsAre
    <3> QED
      BY <3>1 DEF Passed
  <2> QED
    BY <1>3, <2>1, DrainedStep
<1>5. ASSUME NEW u \in Threads, pc'[u] \in DequeuePcs PROVE prq'[u] <= qhead'
  <2>1. (pc[u] \in DequeuePcs /\ prq'[u] = prq[u]) \/ prq'[u] = 0 \/ (u = t /\ prq'[t] = qhead)
    <3>1. CASE u # t
      BY <1>1, <1>5, <3>1 DEF Same
    <3>2. CASE u = t
      <4>1. prq'[t] \in {prq[t], 0, qhead, qtail}
        BY <1>1, ListThread DEF Basics
      <4>2. pc \in [Threads -> {"idle"} \union EnqueuePcs \union DequeuePcs] /\ DOMAIN prq = Threads
            /\ (pc[t] = "idle" => prq[t] = 0)
        BY <1>1 DEF TypeOK, Basics, Locals
      <4> USE DEF Goto, Test, locals, ringLocals, DequeuePcs, CellPcs
      <4>3. CASE Call(t)
        BY <3>2, <4>2, <4>3 DEF Call, CallDequeue, CallEnqueue
      <4>4. ~(LTail(t) \/ LNext(t) \/ LHelp(t) \/ LLink(t) \/ LSwing(t))
        BY <1>5, <3>2, <4>2 DEF LTail, LNext, LHelp, LLink, LSwing, Again, EnqueueReturns, Return
      <4>5. ~(ETicket(t) \/ EMark(t) \/ EVal(t) \/ EHead(t) \/ EToken(t) \/ EEpoch(t) \/ EUndo(t) \/ EPut(t)
             \/ EOver(t) \/ EClose(t))
        BY <1>5, <3>2, <4>2 DEF ETicket, EMark, EVal, EHead, EToken, EEpoch, EUndo, EPut, EOver, EClose,
           EnqueueReturns, Return
      <4>6. CASE LHead(t)
        BY <3>2, <4>2, <4>6 DEF LHead
      <4>7. CASE LDNext(t) \/ LDSwing(t) \/ DTicket(t) \/ DMark(t) \/ DVal(t) \/ DMark2(t)
        BY <3>2, <4>2, <4>7 DEF LDNext, LDSwing, DTicket, DMark, DVal, DMark2, Reread, Again, Return
      <4>8. CASE DTake(t) \/ DToken(t) \/ DSkip(t) \/ DUnsafe(t) \/ DTail(t)
        BY <3>2, <4>2, <4>8 DEF DTake, DToken, DSkip, DUnsafe, DCasMark, DTail, Reread, Return
      <4> QED
        BY <4>3, <4>4, <4>5, <4>6, <4>7, <4>8 DEF Step, Enqueue, Dequeue
    <3> QED
      BY <3>1, <3>2
  <2>2. prq[u] \in Nat
    BY <1>1, InRing
  <2>3. pc[u] \in DequeuePcs => prq[u] <= qhead
    BY DEF Passed
  <2> QED
    BY <1>2, <2>1, <2>2, <2>3
<1>6. ASSUME NEW u \in Threads, pc'[u] = "lDSwing" PROVE Drained(prq[u])'
  <2>1. CASE u # t
    <3>1. pc[u] = "lDSwing" /\ prq'[u] = prq[u]
      BY <1>1, <1>6, <2>1 DEF Same
    <3>2. Drained(prq[u]) /\ next[prq[u]] # 0 /\ prq[u] \in Rings
      <4>1. prq[u] \in Rings
        BY <1>1, <3>1, InRing
      <4>2. Drained(prq[u]) /\ next[prq[u]] # 0
        BY <1>1, <3>1 DEF Passed, List
      <4> QED
        BY <4>1, <4>2
    <3>3. \A r \in Rings : r = prq[u] => (Drained(prq[u])' <=> Drained(r)')
      BY <3>1 DEF Drained, Full, Ripe
    <3> QED
      BY <3>2, <3>3, DrainedStep
  <2>2. CASE u = t
    <3>1. DTail(t) /\ again[t]
      <4>2. pc \in [Threads -> {"idle"} \union EnqueuePcs \union DequeuePcs]
        BY <1>1 DEF TypeOK
      <4> USE DEF Goto, Test
      <4>3. ~(Call(t) \/ LTail(t) \/ LNext(t) \/ LHelp(t) \/ LLink(t) \/ LSwing(t))
        BY <1>6, <2>2, <4>2 DEF Call, CallDequeue, CallEnqueue, LTail, LNext, LHelp, LLink, LSwing, Again,
           EnqueueReturns, Return
      <4>5. ~(ETicket(t) \/ EMark(t) \/ EVal(t) \/ EHead(t) \/ EToken(t) \/ EEpoch(t) \/ EUndo(t) \/ EPut(t)
             \/ EOver(t) \/ EClose(t))
        BY <1>6, <2>2, <4>2 DEF ETicket, EMark, EVal, EHead, EToken, EEpoch, EUndo, EPut, EOver, EClose,
           EnqueueReturns, Return
      <4>6. ~(LHead(t) \/ LDNext(t) \/ LDSwing(t) \/ DTicket(t) \/ DMark(t) \/ DVal(t))
        BY <1>6, <2>2, <4>2 DEF LHead, LDNext, LDSwing, DTicket, DMark, DVal, Again, Return
      <4>7. ~DMark2(t)
        <5>1. Decide(t) \in {"dTake", "dSkip", "dToken", "dUnsafe", "dTail"}
          BY <1>1, CellIs DEF Decide, Free, ValueType
        <5> QED
          BY <1>6, <2>2, <4>2, <5>1 DEF DMark2, Reread
      <4>8. ~(DTake(t) \/ DToken(t) \/ DSkip(t) \/ DUnsafe(t))
        BY <1>6, <2>2, <4>2 DEF DTake, DToken, DSkip, DUnsafe, DCasMark, Reread, Return
      <4>9. DTail(t)
        BY <4>3, <4>5, <4>6, <4>7, <4>8 DEF Step, Enqueue, Dequeue
      <4>10. DTail(t) => again[t]
        BY <1>6, <2>2, <4>2 DEF DTail
      <4> QED
        BY <4>9, <4>10
    <3>2. PICK r \in Rings : r = prq[t]
      BY <1>1, <3>1 DEF DTail, Goto, TypeOK
    <3>3. /\ pc[t] = "dTail" /\ rtail[r].t <= ticket[t] + 1 /\ prq'[t] = r
      <4>1. DOMAIN pc = Threads /\ rtail[r].t \in Nat /\ ticket[t] \in Nat
        BY <1>1 DEF TypeOK
      <4>2. pc[t] = "dTail" /\ prq' = prq
        BY <3>1 DEF DTail, Goto
      <4>3. ~(rtail[r].t > ticket[t] + 1)
        BY <1>6, <2>2, <3>1, <3>2, <4>1 DEF DTail, Goto
      <4> QED
        BY <3>2, <4>1, <4>2, <4>3
    <3>4. next[r] # 0
      BY <1>1, <3>1, <3>2 DEF List
    <3>5. rtail[r].t <= rhead[r] /\ rtail[r].t \in Nat /\ rhead[r] \in Nat
      <4>1. rtail[r].t \in Nat /\ rhead[r] \in Nat /\ ticket[t] \in Nat
        BY <1>1 DEF TypeOK
      <4>2. ticket[t] < rhead[r]
        BY <3>2, <3>3 DEF Cells2, Tickets, TakePcs
      <4> QED
        BY <3>3, <4>1, <4>2
    <3>6. Drained(r)
      <4>1. ASSUME NEW v \in Threads, prq[v] = r, pc[v] \in PutPcs PROVE ticket[v] < rhead[r]
        <5>1. ticket[v] < rtail[r].t /\ ticket[v] \in Nat
          BY <1>1, <4>1 DEF Cells2, Tickets, TypeOK
        <5> QED
          BY <3>5, <5>1
      <4>2. ASSUME NEW i \in Cells, Full(r, i) PROVE Ticket(mark[r][i].epoch, i) < rhead[r]
        <5>1. Ticket(mark[r][i].epoch, i) < rtail[r].t
          BY <4>2 DEF Waiting
        <5>2. mark[r][i] \in MarkType
          BY <1>1 DEF TypeOK
        <5>3. Ticket(mark[r][i].epoch, i) \in Nat
          BY <1>1, <5>2, TicketOf DEF MarkType
        <5> QED
          BY <3>5, <5>1, <5>3
      <4> QED
        BY <4>1, <4>2 DEF Drained
    <3>7. Drained(r)'
      BY <3>4, <3>6, DrainedStep
    <3> QED
      BY <2>2, <3>3, <3>7 DEF Drained, Full, Ripe
  <2> QED
    BY <2>1, <2>2
<1> QED
  BY <1>4, <1>5, <1>6 DEF Passed

LEMMA WaitingStep ==
  ASSUME Basics, Basics', Cells2, Cells2', Takers, NEW t \in Threads, Step(t)
  PROVE  Waiting'
<1>1. /\ TypeOK /\ TypeOK' /\ R' = R /\ (\A v \in Threads \ {t} : Same(v)) /\ List
      /\ R \in Nat \ {0}
  BY OthersSame DEF Basics, TypeOK
<1>2. Gone /\ Awaits(t) /\ Passed /\ Waiting
  BY DEF Takers
<1> SUFFICES ASSUME NEW r \in Rings, NEW i \in Cells, Full(r, i)', NEW h, h = Ticket(mark'[r][i].epoch, i)
             PROVE  /\ h < rtail'[r].t /\ h >= R
                    /\ (r >= qhead' /\ rhead'[r] <= h) \/ Held(r, h)'
  <2>1. Cells' = Cells
    BY <1>1, TicketSame
  <2>2. \A r \in Rings, i \in Cells : Ticket(mark[r][i].epoch, i)' = Ticket(mark'[r][i].epoch, i)
    BY <1>1 DEF Ticket
  <2>3. \A h : \A r \in Rings, i \in Cells :
          h = Ticket(mark'[r][i].epoch, i) => (Held(r, Ticket(mark[r][i].epoch, i))' <=> Held(r, h)')
    BY <2>2 DEF Held
  <2> QED
    BY <1>1, <2>1, <2>2, <2>3 DEF Waiting
<1>3. /\ rhead[r] \in Nat /\ rhead'[r] \in Nat /\ r \in Nat /\ qhead \in Nat /\ qhead' \in Nat
      /\ rtail[r].t \in Nat /\ rtail'[r].t \in Nat
  <2>1. rhead[r] \in Nat /\ rhead'[r] \in Nat
    BY HeadStep
  <2>2. r \in Nat /\ qhead \in Nat /\ qhead' \in Nat
    BY <1>1, RingsAre DEF TypeOK
  <2>3. rtail[r].t \in Nat /\ rtail'[r].t \in Nat
    BY <1>1 DEF TypeOK
  <2> QED
    BY <2>1, <2>2, <2>3
<1>4. CASE Full(r, i) /\ mark'[r][i].epoch = mark[r][i].epoch
  <2>1. /\ h \in Nat /\ Cell(h) = i /\ Round(h) = mark[r][i].epoch
        /\ mark[r][i].epoch \in Nat
    <3>1. mark[r][i] \in MarkType
      BY <1>1 DEF TypeOK
    <3>2. mark[r][i].epoch \in Nat
      BY <3>1 DEF MarkType
    <3> QED
      BY <1>1, <1>4, <3>2, TicketOf
  <2>2. h < rtail[r].t /\ h >= R /\ ((r >= qhead /\ rhead[r] <= h) \/ Held(r, h))
    BY <1>2, <1>4 DEF Waiting
  <2>3. h < rtail'[r].t
    <3>1. rtail[r].t <= rtail'[r].t
      <4>1. CASE RingKept(t)
        BY <1>3, <4>1 DEF RingKept
      <4>2. CASE LinkNew(t)
        <5>1. /\ rtail'[prq[t] + 1] = [t |-> R + 1, closed |-> FALSE] /\ New(prq[t] + 1)
              /\ \A s \in Rings \ {prq[t] + 1} : rtail'[s] = rtail[s]
          BY <4>2, LinkedRing DEF Basics
        <5>2. CASE r = prq[t] + 1
          <6>1. rtail[r] = [t |-> R, closed |-> FALSE] /\ rtail'[r] = [t |-> R + 1, closed |-> FALSE]
            BY <5>1, <5>2 DEF New
          <6>2. rtail[r].t = R /\ rtail'[r].t = R + 1
            BY <6>1
          <6> QED
            BY <1>1, <6>2
        <5> QED
          BY <1>3, <5>1, <5>2
      <4> QED
        BY <1>1, <4>1, <4>2, RingStep
    <3> QED
      BY <1>3, <2>1, <2>2, <3>1
  <2>4. CASE r >= qhead /\ rhead[r] <= h
    <3>1. CASE ~(r >= qhead')
      <4>1. qhead' # qhead
        BY <2>4, <3>1
      <4>2. pc[t] = "lDSwing" /\ qhead = prq[t] /\ qhead' = next[prq[t]]
        BY <1>1, <4>1, RingStep DEF RingKept, LinkNew
      <4>3. qhead' = qhead + 1
        <5>1. (\A s \in Rings : next[s] \in {0, s + 1}) /\ next[prq[t]] # 0 /\ prq[t] \in Rings
          BY <1>1, <4>2, InRing DEF List
        <5> QED
          BY <4>2, <5>1
      <4>4. r = prq[t]
        BY <1>3, <2>4, <3>1, <4>2, <4>3
      <4>5. h < rhead[r]
        BY <1>2, <1>4, <4>2, <4>4 DEF Passed, Drained
      <4> QED
        BY <1>3, <2>1, <2>4, <4>5
    <3>2. CASE r >= qhead' /\ ~(rhead'[r] <= h)
      <4>1. h = rhead[r] /\ rhead'[r] # rhead[r]
        BY <1>3, <2>1, <2>4, <3>2, HeadStep
      <4> QED
        BY <1>1, <2>1, <2>2, <2>3, <4>1, HeadStep
    <3> QED
      BY <2>2, <2>3, <3>1, <3>2
  <2>5. CASE Held(r, h)
    <3>1. ASSUME GoneNow(t, r, h) PROVE FALSE
      <4>1. /\ pc[t] \in CellPcs /\ prq[t] = r /\ ticket[t] = h /\ Cycle(t) = mark[r][i].epoch
            /\ Cell(ticket[t]) = i /\ MarkAt(t) = mark[r][i]
        BY <1>1, <2>1, <3>1, CellIs, RingsAre DEF GoneNow
      <4>2. CASE Takes(t)
        <5>1. value'[r][i] = Null
          BY <4>1, <4>2 DEF Takes, ValueSet
        <5> QED
          BY <5>1 DEF Full, Ripe
      <4>3. CASE Skips(t)
        <5>1. Knows(t) /\ Full(prq[t], Cell(ticket[t])) /\ pc[t] = "dSkip" /\ MarkAt(t) = seen[t].mark
          BY <1>4, <4>1, <4>3 DEF Cells2, Skips, Moves
        <5>2. Moved(t)
          BY <5>1 DEF Knows
        <5> QED
          BY <2>1, <4>1, <5>1, <5>2 DEF Moved
      <4>4. CASE Spoils(t)
        <5>1. pc[t] = "dUnsafe" /\ MarkAt(t) = seen[t].mark /\ Locals(t)
          BY <4>4 DEF Spoils, Moves, Basics
        <5>2. seen[t].mark.epoch < Cycle(t)
          BY <5>1 DEF Locals
        <5> QED
          BY <2>1, <4>1, <5>1, <5>2
      <4>5. CASE Round(h) < mark[r][Cell(h)].epoch
        BY <2>1, <4>5
      <4> QED
        BY <3>1, <4>2, <4>3, <4>4, <4>5 DEF GoneNow
    <3> QED
      BY <2>1, <2>2, <2>3, <2>5, <3>1, HeldStep
  <2> QED
    BY <2>2, <2>4, <2>5
<1>5. CASE Marks(t) /\ r = prq[t] /\ i = Cell(ticket[t]) /\ mark[r][i] = seen[t].mark
           /\ mark'[r][i] = Mark(TRUE, Cycle(t))
  <2>1. /\ pc[t] = "eEpoch" /\ pc'[t] = "ePut" /\ prq'[t] = prq[t] /\ ticket'[t] = ticket[t]
    BY <1>5 DEF Marks, Moves
  <2>2. /\ ticket[t] \in Nat /\ mark'[r][i].epoch = Round(ticket[t]) /\ Cycle(t) = Round(ticket[t])
        /\ Round(ticket[t]) \in Nat
    BY <1>1, <1>5, CellIs, TicketOf DEF Mark
  <2>3. h = ticket[t]
    BY <1>1, <1>5, <2>2, TicketOf
  <2>4. h < rtail'[r].t
    BY <1>5, <2>1, <2>3 DEF Cells2, Tickets, PutPcs
  <2>5. h >= R
    BY <2>1, <2>3 DEF Basics, Locals, PutPcs
  <2>6. rhead' = rhead /\ qhead' = qhead
    <3>1. ~TicketTake(t) /\ ~LinkNew(t)
      BY <2>1 DEF TicketTake, LinkNew
    <3> QED
      BY <1>1, <2>1, <3>1, TicketStep, RingStep DEF RingKept
  <2>7. CASE rhead[r] <= h
    <3>1. ~(r < qhead)
      <4>1. r < qhead => ticket[t] < rhead[r]
        BY <1>2, <1>5, <2>1 DEF Passed, Drained, PutPcs
      <4> QED
        BY <1>3, <2>2, <2>3, <2>7, <4>1
    <3> QED
      BY <1>3, <2>4, <2>5, <2>6, <2>7, <3>1
  <2>8. CASE ~(rhead[r] <= h)
    <3>1. h \in R..(rhead[r] - 1)
      BY <1>1, <1>3, <2>2, <2>3, <2>5, <2>8
    <3>2. ~(mark[r][Cell(h)].epoch >= Round(h))
      <4>1. seen[t].mark.epoch < Cycle(t) /\ seen[t].mark.epoch \in Nat
        BY <1>1, <2>1, CellIs DEF Basics, Locals
      <4>2. Cell(h) = i /\ mark[r][Cell(h)].epoch = seen[t].mark.epoch /\ Round(h) = Cycle(t)
        BY <1>5, <2>2, <2>3
      <4> QED
        BY <2>2, <4>1, <4>2
    <3>3. Held(r, h)
      <4>1. CASE ~mark[r][Cell(h)].safe
        <5>1. ~seen[t].mark.safe
          BY <1>5, <2>3, <4>1
        <5>2. ~Moved(t)
          <6>1. MarkAt(t) = seen[t].mark /\ seen[t].mark.epoch \in Nat
            BY <1>1, <1>5, CellIs DEF Marks
          <6> QED
            BY <6>1 DEF Moved
        <5>3. h \in ticket[t]..(rhead[prq[t]] - 1)
          <6>1. h \in Nat
            BY <2>2, <2>3
          <6>2. h < rhead[r]
            BY <1>3, <2>8, <6>1
          <6>3. h \in h..(rhead[r] - 1)
            BY <1>3, <6>1, <6>2
          <6> QED
            BY <1>5, <2>3, <6>3
        <5> QED
          BY <1>2, <1>5, <2>1, <2>3, <5>1, <5>2, <5>3 DEF Awaits
      <4> QED
        BY <1>2, <3>1, <3>2, <4>1 DEF Gone
    <3>4. ~GoneNow(t, r, h)
      BY <2>1 DEF GoneNow, CellPcs
    <3> QED
      BY <2>2, <2>3, <2>4, <2>5, <3>3, <3>4, HeldStep
  <2> QED
    BY <2>7, <2>8
<1>6. CASE LinkNew(t) /\ r = prq[t] + 1 /\ i = 0 /\ New(r) /\ ~Linked(r) /\ mark'[r][i] = Mark(TRUE, 1)
  <2>1. h = R
    <3>1. mark'[r][i].epoch = 1
      BY <1>6 DEF Mark
    <3>2. h = 1 * R + 0
      BY <1>6, <3>1 DEF Ticket
    <3>3. 1 * R + 0 = R
      BY <1>1
    <3> QED
      BY <3>2, <3>3
  <2>2. rtail'[r].t = R + 1 /\ rhead'[r] = R /\ qhead' = qhead
    <3>1. rtail'[prq[t] + 1] = [t |-> R + 1, closed |-> FALSE]
      BY <1>6, LinkedRing DEF Basics
    <3>2. rhead'[r] = R /\ qhead' = qhead
      BY <1>6 DEF New, LinkNew
    <3>3. rtail'[r] = [t |-> R + 1, closed |-> FALSE]
      BY <1>6, <3>1
    <3>4. rtail'[r].t = R + 1
      BY <3>3
    <3> QED
      BY <3>2, <3>4
  <2>3. ~(r < qhead)
    BY <1>1, <1>2, <1>6 DEF Passed, List
  <2> QED
    BY <1>1, <1>3, <2>1, <2>2, <2>3
<1> QED
  BY <1>4, <1>5, <1>6, FillStep DEF Fills

LEMMA TakersStep ==
  ASSUME Basics, Cells2, Takers, NEW t \in Threads, Step(t)
  PROVE  Takers'
<1>1. Basics' /\ Cells2'
  BY BasicsStep, Cells2Step
<1>2. Gone'
  BY GoneStep DEF Takers
<1>3. \A u \in Threads : Awaits(u)'
  BY <1>1, AwaitsStep DEF Takers
<1>4. Passed' /\ Waiting'
  BY <1>1, PassedStep, WaitingStep DEF Takers
<1> QED
  BY <1>2, <1>3, <1>4 DEF Takers

LEMMA TakersQuiet ==
  ASSUME Basics, Takers, Destroy \/ Finished \/ UNCHANGED vars
  PROVE  Takers'
<1>1. UNCHANGED <<R, queue, pc, locals, calls>>
  BY QuietStep DEF Basics
<1> USE <1>1 DEF queue, ends, tickets, cells, locals, ringLocals, calls
<1>2. Gone'
  BY DEF Takers, Gone, Held, Cell, Round
<1>3. \A t \in Threads : Awaits(t)'
  BY DEF Takers, Awaits, Held, Cell, Moved, MarkAt
<1>4. \A r : Drained(r) => Drained(r)'
  BY DEF Drained, Full, Ripe, Ticket, Cells
<1>5. Passed'
  BY <1>4 DEF Takers, Passed
<1>6. Waiting'
  BY DEF Takers, Waiting, Full, Ripe, Ticket, Held, Cells
<1> QED
  BY <1>2, <1>3, <1>5, <1>6 DEF Takers

LEMMA TakersInit == Init => Takers
<1> SUFFICES ASSUME Init PROVE Takers
  OBVIOUS
<1>1. TypeOK /\ R \in Nat
  BY BasicsInit DEF Basics, TypeOK
<1>2. \A r \in Rings, i \in Cells : ~Full(r, i)
  BY DEF Init, Full, Ripe
<1>3. Gone
  BY <1>1 DEF Init, Gone
<1>4. \A t \in Threads : Awaits(t)
  BY DEF Init, Awaits
<1>5. Passed
  <2>1. \A r \in Rings : ~(r < qhead)
    BY RingsAre DEF Init
  <2> QED
    BY <2>1 DEF Init, Passed, DequeuePcs, CellPcs
<1> QED
  BY <1>2, <1>3, <1>4, <1>5 DEF Takers, Waiting

----------------------------------------------------------------------------
(* Every item is in one place *)

\* An item has been sent once its enqueue has put it into a ring, linked or not.
LEMMA SentIs ==
  ASSUME TypeOK, \A u \in Threads : Locals(u), Owned, NEW t \in Threads, Step(t)
  PROVE  LET puts == LinkNew(t) \/ (pc[t] = "ePut" /\ pc'[t] = "idle")
         IN  /\ puts => item[t] \in Items /\ item[t] \notin Sent /\ Sent' = Sent \union {item[t]}
             /\ ~puts => Sent' = Sent
<1> DEFINE puts == LinkNew(t) \/ (pc[t] = "ePut" /\ pc'[t] = "idle")
<1>1. \A u \in Threads \ {t} : pc'[u] = pc[u] /\ item'[u] = item[u]
  BY OthersSame DEF Same
<1>2. \A u \in Threads \ {t} : Pending(u)' <=> Pending(u)
  BY <1>1 DEF Pending
<1>3. ASSUME puts PROVE item[t] \in Items /\ item[t] \notin Sent /\ Sent' = Sent \union {item[t]}
  <2>1. pc[t] \in {"lLink", "ePut"} /\ pc'[t] \in {"lSwing", "idle"} /\ unsent' = unsent
    <3>1. CASE LinkNew(t)
      BY <3>1 DEF LinkNew, calls
    <3>2. CASE pc[t] = "ePut" /\ pc'[t] = "idle"
      BY <3>2, ItemStep DEF ItemKept, ItemTaken, ItemEntered, EnqueuePcs
    <3> QED
      BY <1>3, <3>1, <3>2
  <2>2. Pending(t) /\ ~Pending(t)' /\ pc[t] \in EnqueuePcs
    BY <2>1 DEF Pending, EnqueuePcs
  <2>3. item[t] \in Items /\ item[t] \notin unsent
    BY <2>2 DEF Owned, Locals, TypeOK
  <2>4. \A u \in Threads \ {t} : Pending(u) => item[u] # item[t]
    BY <2>2 DEF Owned, Pending
  <2>5. item[t] \notin Sent
    BY <2>2 DEF Sent
  <2>6. Sent' = {x \in Items : x \notin unsent /\ \A u \in Threads \ {t} : Pending(u) => item[u] # x}
    BY <1>1, <1>2, <2>1, <2>2 DEF Sent
  <2> QED
    BY <2>2, <2>3, <2>4, <2>5, <2>6 DEF Sent
<1>4. ASSUME ~puts PROVE Sent' = Sent
  <2>1. CASE ItemKept(t)
    <3>1. Pending(t)' <=> Pending(t)
      BY <1>4, <2>1 DEF ItemKept, Pending
    <3> QED
      BY <1>1, <1>2, <2>1, <3>1 DEF Sent, ItemKept
  <2>2. CASE ItemTaken(t)
    <3>1. ~Pending(t) /\ Pending(t)'
      BY <2>2 DEF ItemTaken, Pending, EnqueuePcs
    <3>2. \A x \in Items : x \in Sent' <=> x \in Sent
      BY <1>1, <1>2, <2>2, <3>1 DEF Sent, ItemTaken
    <3> QED
      BY <3>2 DEF Sent
  <2>3. CASE ItemEntered(t)
    <3>1. ~Pending(t) /\ ~Pending(t)'
      BY <1>4, <2>3 DEF ItemEntered, Pending, EnqueuePcs
    <3> QED
      BY <1>1, <1>2, <2>3, <3>1 DEF Sent, ItemEntered
  <2> QED
    BY <2>1, <2>2, <2>3, ItemStep
<1> QED
  BY <1>3, <1>4

\* Cell j of ring s gets the value v; all others keep theirs.
Gets(s, j, v) ==
  \A r \in Rings, i \in Cells : value'[r][i] = IF r = s /\ i = j THEN v ELSE value[r][i]

\* What a step does with the items: nothing, put one in, or take one out.
ItemsKept ==
  /\ \A r \in Rings, i \in Cells : \/ value'[r][i] = value[r][i]
                                   \/ value[r][i] \notin Items /\ value'[r][i] \notin Items
  /\ out' = out /\ Sent' = Sent
ItemPut(x, s, j) ==
  /\ value[s][j] \notin Items /\ Gets(s, j, x)
  /\ out' = out /\ x \notin Sent /\ Sent' = Sent \union {x}
ItemOut(x, s, j) ==
  /\ value[s][j] = x /\ Gets(s, j, Null)
  /\ out' = [out EXCEPT ![x] = @ + 1] /\ Sent' = Sent

LEMMA ItemsStep ==
  ASSUME Basics, Cells2, NEW t \in Threads, Step(t)
  PROVE  ItemsKept \/ \E x \in Items, s \in Rings, j \in Cells : ItemPut(x, s, j) \/ ItemOut(x, s, j)
<1> DEFINE r == prq[t]
           i == Cell(ticket[t])
<1>1. TypeOK /\ TypeOK' /\ (\A u \in Threads : Locals(u)) /\ Owned /\ List /\ Locals(t) /\ Locals(t)'
  BY BasicsStep DEF Basics
<1>2. /\ i \in Cells /\ r \in Nat
      /\ r \in Rings => ValueAt(t) = value[r][i]
      /\ t \notin Items /\ Null \notin Items
  <2>1. i \in Cells /\ r \in Nat
    BY <1>1, CellIs, InRing
  <2>2. r \in Rings => r # 0
    BY RingsAre
  <2>3. r \in Rings => ValueAt(t) = value[r][i]
    BY <1>1, <2>2, CellIs
  <2>4. t \notin Items /\ Null \notin Items
    OBVIOUS
  <2> QED
    BY <2>1, <2>3, <2>4
<1>3. CASE LinkNew(t)
  <2>1. /\ r + 1 \in Rings /\ New(r + 1)
        /\ \A s \in Rings \ {r + 1} : value'[s] = value[s]
        /\ \A j \in Cells : value'[r + 1][j] = IF j = 0 THEN item[t] ELSE Null
    BY <1>1, <1>3, LinkedRing
  <2>2. 0 \in Cells
    BY <1>1 DEF TypeOK, Cells
  <2>3. value[r + 1][0] \notin Items /\ Gets(r + 1, 0, item[t])
    BY <1>2, <2>1, <2>2 DEF New, Gets
  <2>4. out' = out
    BY <1>3 DEF LinkNew, calls
  <2>5. item[t] \in Items /\ item[t] \notin Sent /\ Sent' = Sent \union {item[t]}
    BY <1>1, <1>3, SentIs
  <2>6. ItemPut(item[t], r + 1, 0)
    BY <2>3, <2>4, <2>5 DEF ItemPut
  <2> QED
    BY <2>1, <2>2, <2>5, <2>6
<1>4. CASE Puts(t)
  <2>1. r \in Rings /\ value[r][i] \notin Items /\ Gets(r, i, item[t]) /\ out' = out
    BY <1>2, <1>4 DEF Puts, Leaves, ValueSet, Gets
  <2>2. item[t] \in Items /\ item[t] \notin Sent /\ Sent' = Sent \union {item[t]}
    BY <1>1, <1>4, SentIs DEF Puts, Leaves
  <2>3. ItemPut(item[t], r, i)
    BY <2>1, <2>2 DEF ItemPut
  <2> QED
    BY <1>2, <2>1, <2>2, <2>3
<1>5. CASE Takes(t)
  <2>1. r \in Rings /\ pc[t] = "dTake" /\ Gets(r, i, Null)
        /\ out' = [out EXCEPT ![seen[t].value] = @ + 1]
    BY <1>5 DEF Takes, Leaves, ValueSet, Gets
  <2>2. value[r][i] = seen[t].value /\ seen[t].value \in Items
    BY <1>1, <1>2, <2>1 DEF Cells2, Knows, Locals
  <2>3. Sent' = Sent
    BY <1>1, <2>1, SentIs DEF LinkNew
  <2>4. ItemOut(seen[t].value, r, i)
    BY <2>1, <2>2, <2>3 DEF ItemOut
  <2> QED
    BY <1>2, <2>1, <2>2, <2>4
<1>6. CASE CellsKept(t)
  <2>1. ~(pc[t] = "ePut" /\ pc'[t] = "idle")
    <3>1. pc[t] = "ePut" => prq'[t] = prq[t] /\ prq[t] # 0
      BY <1>1, <1>6 DEF CellsKept, TypeOK
    <3>2. pc'[t] = "idle" => prq'[t] = 0
      BY <1>1 DEF Locals
    <3> QED
      BY <3>1, <3>2
  <2> QED
    BY <1>1, <1>3, <1>6, <2>1, SentIs DEF CellsKept, ValueKept, ItemsKept
<1>7. CASE Marks(t) \/ Skips(t) \/ Spoils(t)
  <2>1. pc[t] \in {"eEpoch", "dSkip", "dUnsafe"} /\ ValueKept /\ out' = out
    BY <1>7 DEF Marks, Skips, Spoils, Moves
  <2>2. Sent' = Sent
    BY <1>1, <2>1, SentIs DEF LinkNew
  <2> QED
    BY <2>1, <2>2 DEF ValueKept, ItemsKept
<1>8. CASE Reserves(t) \/ Undoes(t) \/ Empties(t)
  <2>1. /\ pc[t] \in {"eToken", "eUndo", "dToken"} /\ r \in Rings /\ out' = out
        /\ Gets(r, i, t) \/ Gets(r, i, Null)
        /\ pc[t] \in {"eToken", "dToken"} => ValueAt(t) = seen[t].value
        /\ pc[t] = "eUndo" => ValueAt(t) = t
    BY <1>8 DEF Reserves, Undoes, Empties, Moves, ValueSet, Gets
  <2>2. value[r][i] \notin Items
    BY <1>1, <1>2, <2>1 DEF Locals, Free
  <2>3. Sent' = Sent
    BY <1>1, <2>1, SentIs DEF LinkNew
  <2> QED
    BY <1>2, <2>1, <2>2, <2>3 DEF Gets, ItemsKept
<1> QED
  BY <1>1, <1>3, <1>4, <1>5, <1>6, <1>7, <1>8, CellStep

LEMMA OnceStep ==
  ASSUME Basics, Cells2, Once, NEW t \in Threads, Step(t)
  PROVE  Once'
<1>1. Cells' = Cells /\ out \in [Items -> Nat]
  BY OthersSame DEF Basics, TypeOK, Cells
<1>2. CASE ItemsKept
  <2>1. \A x \in Items : In(x)' <=> In(x)
    BY <1>1, <1>2 DEF In, ItemsKept
  <2>2. \A r \in Rings, i \in Cells :
          value'[r][i] \in Items => value'[r][i] = value[r][i]
    BY <1>2 DEF ItemsKept
  <2>3. \A x \in Items : /\ out'[x] \in {0, 1}
                         /\ In(x)' => out'[x] = 0
                         /\ In(x)' \/ out'[x] = 1 <=> x \in Sent'
    BY <1>2, <2>1 DEF Once, ItemsKept
  <2>4. \A r, s \in Rings, i, j \in Cells :
          value'[r][i] \in Items /\ value'[r][i] = value'[s][j] => r = s /\ i = j
    BY <2>2 DEF Once
  <2> QED
    BY <1>1, <2>3, <2>4 DEF Once
<1>3. ASSUME NEW y \in Items, NEW s \in Rings, NEW j \in Cells, ItemPut(y, s, j) PROVE Once'
  <2>1. ~In(y) /\ out[y] = 0
    BY <1>3 DEF Once, ItemPut
  <2>2. In(y)' /\ \A x \in Items \ {y} : In(x)' <=> In(x)
    <3>1. value'[s][j] = y
      BY <1>3 DEF ItemPut, Gets
    <3>2. ASSUME NEW x \in Items \ {y} PROVE In(x)' <=> In(x)
      BY <1>1, <1>3 DEF In, ItemPut, Gets
    <3> QED
      BY <1>1, <3>1, <3>2 DEF In
  <2>3. \A x \in Items : /\ out'[x] \in {0, 1}
                         /\ In(x)' => out'[x] = 0
                         /\ In(x)' \/ out'[x] = 1 <=> x \in Sent'
    BY <1>3, <2>1, <2>2 DEF Once, ItemPut
  <2>4. \A r \in Rings, i \in Cells : value[r][i] # y
    BY <2>1 DEF In
  <2>5. \A r, q \in Rings, i, k \in Cells :
          value'[r][i] \in Items /\ value'[r][i] = value'[q][k] => r = q /\ i = k
    BY <1>3, <2>4 DEF Once, ItemPut, Gets
  <2> QED
    BY <1>1, <2>3, <2>5 DEF Once
<1>4. ASSUME NEW y \in Items, NEW s \in Rings, NEW j \in Cells, ItemOut(y, s, j) PROVE Once'
  <2>1. value[s][j] = y /\ In(y) /\ out[y] = 0 /\ y \in Sent
    BY <1>4 DEF Once, ItemOut, In
  <2>2. \A r \in Rings, i \in Cells : value[r][i] = y => r = s /\ i = j
    BY <2>1 DEF Once
  <2>3. \A r \in Rings, i \in Cells :
          value'[r][i] = IF r = s /\ i = j THEN Null ELSE value[r][i]
    BY <1>4 DEF ItemOut, Gets
  <2>4. ~In(y)'
    BY <1>1, <2>2, <2>3 DEF In
  <2>5. ASSUME NEW x \in Items \ {y} PROVE In(x)' <=> In(x)
    BY <1>1, <2>1, <2>3 DEF In
  <2>6. out'[y] = 1 /\ \A x \in Items \ {y} : out'[x] = out[x]
    BY <1>1, <1>4, <2>1 DEF ItemOut
  <2>7. \A x \in Items : /\ out'[x] \in {0, 1}
                         /\ In(x)' => out'[x] = 0
                         /\ In(x)' \/ out'[x] = 1 <=> x \in Sent'
    BY <1>4, <2>1, <2>4, <2>5, <2>6 DEF Once, ItemOut
  <2>8. \A r, q \in Rings, i, k \in Cells :
          value'[r][i] \in Items /\ value'[r][i] = value'[q][k] => r = q /\ i = k
    BY <2>3 DEF Once
  <2> QED
    BY <1>1, <2>7, <2>8 DEF Once
<1> QED
  BY <1>2, <1>3, <1>4, ItemsStep

LEMMA OnceQuiet ==
  ASSUME Basics, Once, Destroy \/ Finished \/ UNCHANGED vars
  PROVE  Once'
<1>1. UNCHANGED <<R, queue, pc, locals, calls>>
  BY QuietStep DEF Basics
<1>2. Sent' = Sent
  BY <1>1 DEF Sent, Pending, locals, calls
<1> QED
  BY <1>1, <1>2 DEF Once, In, Cells, queue, cells, calls

LEMMA OnceInit == Init => Once
<1> SUFFICES ASSUME Init PROVE Once
  OBVIOUS
<1>1. \A r \in Rings, i \in Cells : value[r][i] = Null
  BY DEF Init
<1>2. \A x \in Items : ~In(x) /\ out[x] = 0 /\ x \notin Sent
  BY <1>1 DEF Init, In, Sent
<1> QED
  BY <1>1, <1>2 DEF Once

\* An item that has been sent is in one cell or has come out once.
LEMMA Counted ==
  ASSUME Basics, Once
  PROVE  ExactlyOnce
<1> SUFFICES ASSUME NEW x \in Items
             PROVE  LET n == out[x] + Cardinality({p \in Rings \X Cells : value[p[1]][p[2]] = x})
                    IN  n <= 1 /\ (x \in entered => n = 1)
  BY DEF ExactlyOnce
<1> DEFINE places == {p \in Rings \X Cells : value[p[1]][p[2]] = x}
<1>1. x \in entered => x \in Sent
  <2> SUFFICES ASSUME x \in entered PROVE x \in Sent
    OBVIOUS
  <2>1. x \notin unsent
    BY DEF Basics, Owned
  <2>2. \A t \in Threads : Pending(t) => item[t] # x
    BY DEF Basics, Owned, Pending
  <2> QED
    BY <2>1, <2>2 DEF Sent
<1>2. /\ out[x] \in {0, 1} /\ (In(x) => out[x] = 0)
      /\ (In(x) \/ out[x] = 1 <=> x \in Sent)
  BY DEF Once
<1>3. CASE In(x)
  <2>1. PICK r \in Rings, i \in Cells : value[r][i] = x
    BY <1>3 DEF In
  <2>2. \A s \in Rings, j \in Cells : value[s][j] = x => s = r /\ j = i
    BY <2>1 DEF Once
  <2>3. places = {<<r, i>>}
    BY <2>1, <2>2
  <2>4. Cardinality(places) = 1
    BY <2>3, FS_Singleton
  <2> QED
    BY <1>2, <1>3, <2>4
<1>4. CASE ~In(x)
  <2>1. places = {}
    BY <1>4 DEF In
  <2>2. Cardinality(places) = 0
    BY <2>1, FS_EmptySet
  <2> QED
    BY <1>1, <1>2, <1>4, <2>2
<1> QED
  BY <1>3, <1>4

----------------------------------------------------------------------------
(* Items come out in the order of their cells *)

\* Heads, tails and tickets only go forward.
LEMMA Forward ==
  ASSUME Basics, NEW t \in Threads, Step(t)
  PROVE  /\ qhead \in Nat /\ qhead' \in Nat /\ qhead <= qhead'
         /\ qtail \in Nat /\ qtail' \in Nat /\ qtail <= qtail'
         /\ \A r \in Rings : /\ rhead[r] \in Nat /\ rhead'[r] \in Nat /\ rhead[r] <= rhead'[r]
                             /\ rtail[r].t \in Nat /\ rtail'[r].t \in Nat
                             /\ rtail[r].t <= rtail'[r].t
<1>1. TypeOK /\ TypeOK' /\ Locals(t) /\ (\A u \in Threads : Locals(u)) /\ Owned /\ List
  BY BasicsStep DEF Basics
<1>2. /\ qhead \in Rings /\ qhead' \in Rings /\ qtail \in Rings /\ qtail' \in Rings
      /\ rhead \in [Rings -> Nat] /\ rhead' \in [Rings -> Nat] /\ R \in Nat
      /\ rtail \in [Rings -> [t : Nat, closed : BOOLEAN]]
      /\ rtail' \in [Rings -> [t : Nat, closed : BOOLEAN]]
  BY <1>1 DEF TypeOK
<1>3. qhead \in Nat /\ qhead' \in Nat /\ qtail \in Nat /\ qtail' \in Nat
  BY <1>2, RingsAre
<1>4. \A r \in Rings : /\ rhead[r] \in Nat /\ rhead'[r] \in Nat
                       /\ rtail[r].t \in Nat /\ rtail'[r].t \in Nat
  BY <1>2
<1>5. CASE RingKept(t)
  <2>1. \A r \in Rings : next[r] # 0 => next[r] = r + 1
    BY <1>1 DEF List
  <2>2. pc[t] \in {"lHelp", "lSwing", "lDSwing"} => next[prq[t]] # 0
    BY <1>1 DEF List
  <2>3. qhead <= qhead'
    <3>1. CASE qhead' = qhead
      BY <1>3, <3>1
    <3>2. CASE pc[t] = "lDSwing" /\ qhead = prq[t] /\ qhead' = next[prq[t]]
      <4>1. qhead' = qhead + 1
        BY <1>2, <2>1, <2>2, <3>2
      <4> QED
        BY <1>3, <4>1
    <3> QED
      BY <1>5, <3>1, <3>2 DEF RingKept
  <2>4. qtail <= qtail'
    <3>1. CASE qtail' = qtail
      BY <1>3, <3>1
    <3>2. CASE pc[t] \in {"lHelp", "lSwing"} /\ qtail = prq[t] /\ qtail' = next[prq[t]]
      <4>1. qtail' = qtail + 1
        BY <1>2, <2>1, <2>2, <3>2
      <4> QED
        BY <1>3, <4>1
    <3> QED
      BY <1>5, <3>1, <3>2 DEF RingKept
  <2>5. \A r \in Rings : rhead[r] <= rhead'[r] /\ rtail[r].t <= rtail'[r].t
    BY <1>4, <1>5 DEF RingKept
  <2> QED
    BY <1>3, <1>4, <2>3, <2>4, <2>5
<1>6. CASE LinkNew(t)
  <2>1. qhead' = qhead /\ qtail' = qtail /\ rhead' = rhead
    BY <1>6 DEF LinkNew
  <2>2. /\ New(prq[t] + 1) /\ prq[t] + 1 \in Rings
        /\ rtail'[prq[t] + 1] = [t |-> R + 1, closed |-> FALSE]
        /\ \A r \in Rings \ {prq[t] + 1} : rtail'[r] = rtail[r]
    BY <1>1, <1>6, LinkedRing
  <2>3. rtail[prq[t] + 1].t = R
    BY <2>2 DEF New
  <2>4. \A r \in Rings : rtail[r].t <= rtail'[r].t
    <3> SUFFICES ASSUME NEW r \in Rings PROVE rtail[r].t <= rtail'[r].t
      OBVIOUS
    <3>1. CASE r = prq[t] + 1
      BY <1>2, <2>2, <2>3, <3>1
    <3>2. CASE r # prq[t] + 1
      <4>1. rtail'[r] = rtail[r]
        BY <2>2, <3>2
      <4> QED
        BY <1>4, <4>1
    <3> QED
      BY <3>1, <3>2
  <2> QED
    BY <1>3, <1>4, <2>1, <2>4
<1> QED
  BY <1>1, <1>5, <1>6, RingStep

\* A call stays in its ring, leaves it, or goes to the last or the first ring.
LEMMA OwnRing ==
  ASSUME TypeOK, NEW t \in Threads, Locals(t), Step(t), prq'[t] # 0
  PROVE  \/ /\ prq'[t] = prq[t]
            /\ pc[t] \in EnqueuePcs <=> pc'[t] \in EnqueuePcs
            /\ pc[t] \in DequeuePcs <=> pc'[t] \in DequeuePcs
         \/ /\ pc[t] = "lTail" /\ pc'[t] = "lNext" /\ prq'[t] = qtail
            /\ UNCHANGED <<rhead, rtail, qhead, qtail>>
         \/ /\ pc[t] = "lHead" /\ pc'[t] = "dTicket" /\ prq'[t] = qhead
            /\ UNCHANGED <<rhead, rtail, qhead, qtail>>
<1>1. /\ DOMAIN pc = Threads /\ DOMAIN prq = Threads
      /\ prq[t] = 0 => pc[t] \in {"idle", "lTail", "lHead"}
      /\ pc[t] \in {"idle", "lTail", "lHead"} => prq[t] = 0
  BY DEF TypeOK, Locals
<1> USE DEF Goto, Test, queue, ends, tickets, cells, locals, ringLocals, calls, EnqueuePcs,
            DequeuePcs, CellPcs
<1>2. CASE Call(t)
  BY <1>1, <1>2 DEF Call, CallDequeue, CallEnqueue
<1>3. CASE LTail(t) \/ LNext(t) \/ LHelp(t) \/ LSwing(t)
  BY <1>1, <1>3 DEF LTail, LNext, LHelp, LSwing, Again, EnqueueReturns, Return
<1>4. CASE LLink(t)
  BY <1>1, <1>4 DEF LLink, Again
<1>5. CASE ETicket(t) \/ EMark(t) \/ EVal(t) \/ EHead(t)
  BY <1>1, <1>5 DEF ETicket, EMark, EVal, EHead
<1>6. CASE EToken(t) \/ EEpoch(t) \/ EUndo(t) \/ EPut(t) \/ EOver(t) \/ EClose(t)
  BY <1>1, <1>6 DEF EToken, EEpoch, EUndo, EPut, EOver, EClose, EnqueueReturns, Return
<1>7. CASE LHead(t) \/ LDNext(t) \/ LDSwing(t)
  BY <1>1, <1>7 DEF LHead, LDNext, LDSwing, Return, Again
<1>8. CASE DTicket(t) \/ DMark(t) \/ DVal(t) \/ DTail(t)
  BY <1>1, <1>8 DEF DTicket, DMark, DVal, DTail
<1>9. CASE DMark2(t)
  <2>1. Decide(t) \in {"dTake", "dSkip", "dToken", "dUnsafe", "dTail"}
    BY CellIs DEF Decide, Free, ValueType
  <2> QED
    BY <1>1, <1>9, <2>1 DEF DMark2, Reread
<1>10. CASE DTake(t) \/ DToken(t) \/ DSkip(t) \/ DUnsafe(t)
  BY <1>1, <1>10 DEF DTake, DToken, DSkip, DUnsafe, DCasMark, Return, Reread
<1> QED
  BY <1>2, <1>3, <1>4, <1>5, <1>6, <1>7, <1>8, <1>9, <1>10 DEF Step, Enqueue, Dequeue

\* What a step does to the histories, apart from entered and out.
HistoryKept(t) ==
  /\ prior' = prior /\ known' = known
  /\ pc[t] \in DequeuePcs <=> pc'[t] \in DequeuePcs
CalledWith(t, x) ==
  /\ x \in unsent /\ prior' = [prior EXCEPT ![x] = entered] /\ known' = known
  /\ pc[t] = "idle" /\ pc'[t] = "lTail" /\ item'[t] = x /\ out' = out /\ entered' = entered
DequeueCalled(t) ==
  /\ prior' = prior /\ known' = [known EXCEPT ![t] = {x \in Items : out[x] > 0}]
  /\ pc[t] = "idle" /\ pc'[t] = "lHead"
CallDone(t) ==
  /\ prior' = prior /\ known' = [known EXCEPT ![t] = {}] /\ pc'[t] = "idle"

LEMMA HistoryStep ==
  ASSUME TypeOK, NEW t \in Threads, Step(t)
  PROVE  \/ HistoryKept(t) \/ DequeueCalled(t) \/ CallDone(t)
         \/ \E x \in Items : CalledWith(t, x)
<1>1. DOMAIN pc = Threads /\ DOMAIN item = Threads
  BY DEF TypeOK
<1> USE DEF Goto, Test, queue, ends, tickets, cells, locals, ringLocals, calls, EnqueuePcs,
            DequeuePcs, CellPcs
<1>2. CASE Call(t)
  BY <1>1, <1>2 DEF Call, CallDequeue, CallEnqueue, CalledWith, DequeueCalled
<1>3. CASE LTail(t) \/ LNext(t) \/ LHelp(t) \/ LSwing(t)
  BY <1>1, <1>3 DEF LTail, LNext, LHelp, LSwing, Again, EnqueueReturns, Return, HistoryKept, CallDone
<1>4. CASE LLink(t)
  BY <1>1, <1>4 DEF LLink, Again, HistoryKept
<1>5. CASE ETicket(t) \/ EMark(t) \/ EVal(t) \/ EHead(t)
  BY <1>1, <1>5 DEF ETicket, EMark, EVal, EHead, HistoryKept
<1>6. CASE EToken(t) \/ EEpoch(t) \/ EUndo(t) \/ EPut(t) \/ EOver(t) \/ EClose(t)
  BY <1>1, <1>6 DEF EToken, EEpoch, EUndo, EPut, EOver, EClose, EnqueueReturns, Return,
                    HistoryKept, CallDone
<1>7. CASE LHead(t) \/ LDNext(t) \/ LDSwing(t)
  BY <1>1, <1>7 DEF LHead, LDNext, LDSwing, Return, Again, HistoryKept, CallDone
<1>8. CASE DTicket(t) \/ DMark(t) \/ DVal(t) \/ DTail(t)
  BY <1>1, <1>8 DEF DTicket, DMark, DVal, DTail, HistoryKept
<1>9. CASE DMark2(t)
  <2>1. Decide(t) \in {"dTake", "dSkip", "dToken", "dUnsafe", "dTail"}
    BY CellIs DEF Decide, Free, ValueType
  <2> QED
    BY <1>1, <1>9, <2>1 DEF DMark2, Reread, HistoryKept
<1>10. CASE DTake(t) \/ DToken(t) \/ DSkip(t) \/ DUnsafe(t)
  BY <1>1, <1>10 DEF DTake, DToken, DSkip, DUnsafe, DCasMark, Return, Reread, HistoryKept, CallDone
<1> QED
  BY <1>2, <1>3, <1>4, <1>5, <1>6, <1>7, <1>8, <1>9, <1>10 DEF Step, Enqueue, Dequeue

\* Within a ring the turn of a call only goes forward.
LEMMA TurnForward ==
  ASSUME Basics, Tickets, NEW t \in Threads, Step(t),
         NEW u \in Threads, prq[u] # 0, prq'[u] = prq[u]
  PROVE  Turn(u) \in Nat /\ Turn(u)' \in Nat /\ Turn(u) <= Turn(u)'
<1>1. TypeOK /\ TypeOK' /\ \A v \in Threads \ {t} : Same(v)
  BY BasicsStep, OthersSame DEF Basics
<1>2. prq[u] \in Rings /\ ticket[u] \in Nat /\ ticket'[u] \in Nat /\ Locals(u)
  BY <1>1 DEF Basics, TypeOK
<1> DEFINE r == prq[u]
<1>3. /\ rhead[r] \in Nat /\ rhead'[r] \in Nat /\ rhead[r] <= rhead'[r]
      /\ rtail[r].t \in Nat /\ rtail'[r].t \in Nat /\ rtail[r].t <= rtail'[r].t
  BY <1>2, Forward
<1>4. /\ pc[u] \in EnqueuePcs \union DequeuePcs /\ pc'[u] \in EnqueuePcs \union DequeuePcs
      /\ pc[u] \in EnqueuePcs <=> pc'[u] \in EnqueuePcs
  <2>1. pc[u] # "idle" /\ pc[u] \in {"idle"} \union EnqueuePcs \union DequeuePcs
    BY <1>1, <1>2 DEF Locals, TypeOK
  <2>2. CASE u # t
    BY <1>1, <2>1, <2>2 DEF Same
  <2>3. CASE u = t
    <3>1. pc[t] \notin {"lTail", "lHead"}
      BY <1>2, <2>3 DEF Locals
    <3> QED
      BY <1>1, <1>2, <2>1, <2>3, <3>1, OwnRing
  <2> QED
    BY <2>2, <2>3
<1>5. /\ pc[u] \in PutPcs => ticket[u] < rtail[r].t
      /\ pc[u] \in TakePcs => ticket[u] < rhead[r]
  BY DEF Tickets
<1>6. /\ EnqueuePcs \intersect DequeuePcs = {} /\ PutPcs \subseteq EnqueuePcs
      /\ TakePcs \subseteq DequeuePcs
  BY DEF EnqueuePcs, DequeuePcs, PutPcs, TakePcs, CellPcs
<1>7. /\ pc'[u] \in PutPcs => ticket'[u] = rtail[r].t \/ (pc[u] \in PutPcs /\ ticket'[u] = ticket[u])
      /\ pc'[u] \in TakePcs => ticket'[u] = rhead[r] \/ (pc[u] \in TakePcs /\ ticket'[u] = ticket[u])
  <2>1. CASE u # t
    BY <1>1, <2>1 DEF Same
  <2>2. CASE u = t
    BY <1>1, <2>2, TicketStep DEF TicketPut, TicketTake, TicketKept
  <2> QED
    BY <2>1, <2>2
<1>8. /\ pc[u] \in PutPcs \union TakePcs => Turn(u) = ticket[u]
      /\ pc[u] \in EnqueuePcs \ PutPcs => Turn(u) = rtail[r].t
      /\ pc[u] \in DequeuePcs \ TakePcs => Turn(u) = rhead[r]
  BY <1>6 DEF Turn
<1>9. /\ pc'[u] \in PutPcs \union TakePcs => Turn(u)' = ticket'[u]
      /\ pc'[u] \in EnqueuePcs \ PutPcs => Turn(u)' = rtail'[r].t
      /\ pc'[u] \in DequeuePcs \ TakePcs => Turn(u)' = rhead'[r]
  BY <1>6 DEF Turn
<1>10. CASE pc[u] \in EnqueuePcs
  <2>1. pc'[u] \in EnqueuePcs /\ Turn(u) \in Nat /\ Turn(u) <= rtail[r].t
    BY <1>2, <1>3, <1>4, <1>5, <1>8, <1>10
  <2>2. CASE pc'[u] \notin PutPcs
    BY <1>3, <1>9, <2>1, <2>2
  <2>3. CASE pc'[u] \in PutPcs
    <3>1. Turn(u)' = ticket'[u]
      BY <1>9, <2>3
    <3>2. CASE ticket'[u] = rtail[r].t
      BY <1>3, <2>1, <3>1, <3>2
    <3>3. CASE pc[u] \in PutPcs /\ ticket'[u] = ticket[u]
      BY <1>2, <1>8, <3>1, <3>3
    <3> QED
      BY <1>7, <2>3, <3>2, <3>3
  <2> QED
    BY <2>2, <2>3
<1>11. CASE pc[u] \in DequeuePcs
  <2>1. pc'[u] \in DequeuePcs /\ Turn(u) \in Nat /\ Turn(u) <= rhead[r]
    BY <1>2, <1>3, <1>4, <1>5, <1>6, <1>8, <1>11
  <2>2. CASE pc'[u] \notin TakePcs
    BY <1>3, <1>9, <2>1, <2>2
  <2>3. CASE pc'[u] \in TakePcs
    <3>1. Turn(u)' = ticket'[u]
      BY <1>9, <2>3
    <3>2. CASE ticket'[u] = rhead[r]
      BY <1>3, <2>1, <3>1, <3>2
    <3>3. CASE pc[u] \in TakePcs /\ ticket'[u] = ticket[u]
      BY <1>2, <1>8, <3>1, <3>3
    <3> QED
      BY <1>7, <2>3, <3>2, <3>3
  <2> QED
    BY <2>2, <2>3
<1> QED
  BY <1>4, <1>10, <1>11

\* An item in a cell after the step was there before, or is that of the enqueue that
\* makes the step and was nowhere.
Stays(r, i) == value[r][i] = value'[r][i] /\ Place(r, i) = Place(r, i)'
PutNow(t, r, i) ==
  /\ Pending(t) /\ value'[r][i] = item[t] /\ item[t] \notin Sent /\ prq[t] \in Rings
  /\ \/ Puts(t) /\ r = prq[t] /\ Place(r, i)' = ticket[t]
     \/ LinkNew(t) /\ r = prq[t] + 1 /\ Place(r, i)' = R

LEMMA ItemFrom ==
  ASSUME Basics, Cells2, NEW t \in Threads, Step(t), NEW r \in Rings, NEW i \in Cells,
         value'[r][i] \in Items
  PROVE  Stays(r, i) \/ PutNow(t, r, i)
<1>1. TypeOK /\ (\A u \in Threads : Locals(u)) /\ Owned /\ List /\ Knows(t)
      /\ R' = R /\ R \in Nat /\ ticket[t] \in Nat
  BY OthersSame DEF Basics, Cells2, TypeOK
<1>2. \A e : Ticket(e, i)' = Ticket(e, i)
  BY <1>1, TicketSame
<1>3. CASE value'[r][i] = value[r][i]
  <2>1. mark'[r][i].epoch = mark[r][i].epoch
    BY <1>3, CellEvolves DEF Evolves, Full
  <2> QED
    BY <1>1, <1>3, <2>1 DEF Stays, Place, Ticket
<1>4. CASE Puts(t) /\ r = prq[t] /\ i = Cell(ticket[t])
  <2>1. pc[t] = "ePut" /\ pc'[t] = "idle" /\ ValueAt(t) = t /\ prq[t] \in Rings /\ prq[t] # 0
    BY <1>4, RingsAre DEF Puts, Leaves
  <2>2. value'[r][i] = item[t] /\ mark'[r][i] = mark[r][i] /\ mark[r][i] = Mark(TRUE, Cycle(t))
    <3>1. MarkAt(t) = mark[r][i]
      BY <1>1, <1>4, <2>1, CellIs
    <3> QED
      BY <1>1, <1>4, <2>1, <3>1 DEF Puts, ValueSet, MarkKept, Knows
  <2>3. mark'[r][i].epoch = Round(ticket[t])
    BY <2>2 DEF Mark, Cycle, Round
  <2>4. Place(r, i)' = ticket[t]
    <3>1. Ticket(Round(ticket[t]), Cell(ticket[t])) = ticket[t]
      BY <1>1, TicketOf
    <3> QED
      BY <1>1, <1>4, <2>3, <3>1 DEF Place, Ticket
  <2>5. Pending(t) /\ item[t] \notin Sent
    BY <1>1, <2>1, SentIs DEF Pending, EnqueuePcs
  <2> QED
    BY <1>4, <2>1, <2>2, <2>4, <2>5 DEF PutNow
<1>5. CASE LinkNew(t) /\ r = prq[t] + 1
  <2>1. /\ prq[t] \in Rings
        /\ mark'[r][i] = IF i = 0 THEN Mark(TRUE, 1) ELSE Mark(TRUE, 0)
        /\ value'[r][i] = IF i = 0 THEN item[t] ELSE Null
    BY <1>1, <1>5, LinkedRing
  <2>2. i = 0 /\ value'[r][i] = item[t] /\ mark'[r][i].epoch = 1
    BY <2>1 DEF Mark
  <2>3. Place(r, i)' = R
    BY <1>1, <2>2 DEF Place, Ticket
  <2>4. Pending(t) /\ item[t] \notin Sent
    BY <1>1, <1>5, SentIs DEF Pending, EnqueuePcs, LinkNew
  <2> QED
    BY <1>5, <2>1, <2>2, <2>3, <2>4 DEF PutNow
<1>6. \/ value'[r][i] = value[r][i] \/ (Puts(t) /\ r = prq[t] /\ i = Cell(ticket[t]))
      \/ (LinkNew(t) /\ r = prq[t] + 1)
  <2>1. CASE LinkNew(t)
    <3>1. \A s \in Rings \ {prq[t] + 1} : value'[s] = value[s]
      BY <1>1, <2>1, LinkedRing
    <3> QED
      BY <2>1, <3>1
  <2>2. CASE Puts(t)
    BY <2>2 DEF Puts, ValueSet
  <2>3. CASE CellsKept(t) \/ Marks(t) \/ Skips(t) \/ Spoils(t)
    BY <2>3 DEF CellsKept, Marks, Skips, Spoils, ValueKept
  <2>4. CASE Reserves(t) \/ Undoes(t) \/ Takes(t) \/ Empties(t)
    BY <2>4 DEF Reserves, Undoes, Takes, Empties, ValueSet
  <2> QED
    BY <1>1, <2>1, <2>2, <2>3, <2>4, CellStep
<1> QED
  BY <1>3, <1>4, <1>5, <1>6

\* What has entered has been sent, and so has what is in a cell.
LEMMA SentFacts ==
  ASSUME Basics, Once
  PROVE  /\ entered \subseteq Sent
         /\ \A r \in Rings, i \in Cells : value[r][i] \in Items => value[r][i] \in Sent
         /\ \A x \in Items : out[x] # 0 => x \in Sent
<1>1. entered \subseteq Items /\ entered \intersect unsent = {}
      /\ \A u \in Threads : Pending(u) => item[u] \notin entered
  BY DEF Basics, Owned, TypeOK, Pending
<1>2. entered \subseteq Sent
  BY <1>1 DEF Sent
<1> QED
  BY <1>2 DEF Once, In

\* The compare-and-swap of _tail at the end of an enqueue leaves it behind prq.
LEMMA SwingStep ==
  ASSUME Basics, Reached, NEW t \in Threads, Step(t), pc[t] = "lSwing"
  PROVE  prq[t] + 1 <= qtail'
<1>1. TypeOK /\ List /\ qtail \in Nat
  BY RingsAre DEF Basics, TypeOK
<1>2. prq[t] \in Rings /\ prq[t] \in Nat
  BY <1>1, InRing
<1>3. next[prq[t]] = prq[t] + 1
  BY <1>1, <1>2 DEF List
<1>4. prq[t] <= qtail
  BY DEF Reached, EnqueuePcs
<1>5. qtail' = IF qtail = prq[t] THEN next[prq[t]] ELSE qtail
  <2> USE DEF Goto, Test
  <2>1. ~Call(t)
    BY DEF Call, CallDequeue, CallEnqueue
  <2>2. ~Dequeue(t)
    BY DEF Dequeue, LHead, LDNext, LDSwing, DTicket, DMark, DVal, DMark2, DTake, DToken,
           DSkip, DUnsafe, DTail, DCasMark, Return, Again, Reread
  <2>3. LSwing(t)
    BY <2>1, <2>2 DEF Step, Enqueue, LTail, LNext, LHelp, LLink, ETicket, EMark, EVal, EHead,
                      EToken, EEpoch, EUndo, EPut, EOver, EClose, Again, EnqueueReturns, Return
  <2> QED
    BY <2>3 DEF LSwing, CasTail
<1> QED
  BY <1>1, <1>2, <1>3, <1>4, <1>5

LEMMA ReachedStep ==
  ASSUME Basics, Cells2, Once, Reached, NEW t \in Threads, Step(t)
  PROVE  Reached'
<1>1. TypeOK /\ TypeOK' /\ (\A u \in Threads : Locals(u)) /\ Locals(t) /\ Locals(t)' /\ Owned
      /\ List /\ \A v \in Threads \ {t} : Same(v)
  BY BasicsStep, OthersSame DEF Basics
<1>2. /\ qtail \in Nat /\ qtail' \in Nat /\ qtail <= qtail'
      /\ \A u \in Threads : prq[u] \in Nat /\ prq'[u] \in Nat
  <2>1. \A u \in Threads : prq[u] \in Rings \union {0} /\ prq'[u] \in Rings \union {0}
    BY <1>1 DEF TypeOK
  <2>2. \A r \in Rings \union {0} : r \in Nat
    BY RingsAre
  <2> QED
    BY <2>1, <2>2, Forward
<1>3. ASSUME NEW u \in Threads, pc'[u] \in EnqueuePcs
      PROVE  prq'[u] <= qtail'
  <2>1. CASE prq'[u] = 0
    BY <1>2, <2>1
  <2>2. CASE prq'[u] # 0 /\ u # t
    <3>1. prq'[u] = prq[u] /\ prq[u] <= qtail
      BY <1>1, <1>3, <2>2 DEF Same, Reached
    <3> QED
      BY <1>2, <3>1
  <2>3. CASE prq'[u] # 0 /\ u = t
    <3>1. \/ prq'[t] = prq[t] /\ pc[t] \in EnqueuePcs
          \/ prq'[t] = qtail
      BY <1>1, <1>3, <2>3, OwnRing DEF EnqueuePcs
    <3>2. prq'[t] <= qtail
      BY <1>2, <3>1 DEF Reached
    <3> QED
      BY <1>2, <2>3, <3>2
  <2> QED
    BY <2>1, <2>2, <2>3
<1>4. pc'[t] = "lSwing" => LinkNew(t) /\ item'[t] = item[t]
  BY <1>1, ItemStep DEF ItemKept, ItemTaken, ItemEntered
<1>5. ASSUME NEW r \in Rings, NEW i \in Cells, value'[r][i] \in Items
      PROVE  /\ value'[r][i] \in entered' => r <= qtail'
             /\ \A u \in Threads : pc'[u] = "lSwing" /\ item'[u] = value'[r][i] => r <= prq'[u] + 1
  <2>1. r \in Nat
    BY RingsAre
  <2>2. CASE Stays(r, i)
    <3>1. value'[r][i] = value[r][i] /\ value[r][i] \in Sent
      BY <1>5, <2>2, SentFacts DEF Stays
    <3>2. /\ value[r][i] \in entered => r <= qtail
          /\ \A u \in Threads : pc[u] = "lSwing" /\ item[u] = value[r][i] => r <= prq[u] + 1
      BY <1>5, <3>1 DEF Reached
    <3>3. value'[r][i] \in entered' => r <= qtail'
      <4>1. CASE value[r][i] \in entered
        BY <1>2, <2>1, <3>2, <4>1
      <4>2. CASE ItemEntered(t) /\ value[r][i] = item[t]
        <5>1. CASE pc[t] = "lSwing"
          <6>1. r <= prq[t] + 1 /\ prq[t] + 1 <= qtail'
            BY <3>2, <4>2, <5>1, SwingStep
          <6> QED
            BY <1>2, <2>1, <6>1
        <5>2. CASE pc[t] = "ePut"
          BY <1>1, <3>1, <4>2, <5>2, SentIs DEF ItemEntered
        <5> QED
          BY <4>2, <5>1, <5>2 DEF ItemEntered
      <4> QED
        BY <1>1, <3>1, <4>1, <4>2, ItemStep DEF ItemKept, ItemTaken, ItemEntered
    <3>4. ASSUME NEW u \in Threads, pc'[u] = "lSwing", item'[u] = value'[r][i]
          PROVE  r <= prq'[u] + 1
      <4>1. CASE u # t
        BY <1>1, <3>1, <3>2, <3>4, <4>1 DEF Same
      <4>2. CASE u = t
        BY <1>1, <1>4, <3>1, <3>4, <4>2, SentIs
      <4> QED
        BY <4>1, <4>2
    <3> QED
      BY <3>3, <3>4
  <2>3. CASE PutNow(t, r, i)
    <3>1. /\ Pending(t) /\ value'[r][i] = item[t] /\ prq[t] \in Rings /\ pc[t] \in EnqueuePcs
      BY <2>3 DEF PutNow, Pending
    <3>2. \A u \in Threads \ {t} : pc'[u] = "lSwing" => item'[u] # item[t]
      <4>1. \A u \in Threads \ {t} : pc[u] = "lSwing" => item[u] # item[t]
        BY <1>1, <3>1 DEF Owned, EnqueuePcs
      <4> QED
        BY <1>1, <4>1 DEF Same
    <3>3. CASE Puts(t) /\ r = prq[t]
      <4>1. pc'[t] = "idle" /\ r <= qtail
        BY <3>1, <3>3 DEF Puts, Leaves, Reached
      <4>2. r <= qtail'
        BY <1>2, <2>1, <4>1
      <4> QED
        BY <3>1, <3>2, <4>1, <4>2
    <3>4. CASE LinkNew(t) /\ r = prq[t] + 1
      <4>1. entered' = entered /\ prq' = prq
        BY <3>4 DEF LinkNew, calls, locals
      <4>2. item[t] \notin entered
        BY <1>1, <3>1 DEF Owned
      <4>3. r <= r
        BY <2>1
      <4> QED
        BY <3>1, <3>2, <3>4, <4>1, <4>2, <4>3
    <3> QED
      BY <2>3, <3>3, <3>4 DEF PutNow
  <2> QED
    BY <1>5, <2>2, <2>3, ItemFrom
<1>6. Cells' = Cells
  BY OthersSame DEF Basics, Cells
<1> QED
  BY <1>3, <1>5, <1>6 DEF Reached

\* The cell from which a dequeue takes its item is that of its ticket.
LEMMA TakenFrom ==
  ASSUME Basics, Cells2, NEW t \in Threads, pc[t] = "dTake"
  PROVE  /\ prq[t] \in Rings /\ prq[t] # 0 /\ ticket[t] \in Nat /\ Cell(ticket[t]) \in Cells
         /\ value[prq[t]][Cell(ticket[t])] = seen[t].value /\ seen[t].value \in Items
         /\ Place(prq[t], Cell(ticket[t])) = ticket[t]
<1>1. TypeOK /\ Locals(t) /\ Knows(t)
  BY DEF Basics, Cells2
<1>2. prq[t] \in Rings /\ prq[t] # 0
  BY <1>1, RingsAre, InRing
<1>3. /\ MarkAt(t) = mark[prq[t]][Cell(ticket[t])] /\ ValueAt(t) = value[prq[t]][Cell(ticket[t])]
      /\ Cell(ticket[t]) \in Cells /\ ticket[t] \in Nat /\ Cycle(t) = Round(ticket[t])
  BY <1>1, <1>2, CellIs
<1>4. MarkAt(t).epoch = Cycle(t) /\ ValueAt(t) = seen[t].value /\ seen[t].value \in Items
  BY <1>1 DEF Knows, Locals
<1>5. Ticket(Round(ticket[t]), Cell(ticket[t])) = ticket[t]
  BY <1>1, <1>3, TicketOf
<1> QED
  BY <1>2, <1>3, <1>4, <1>5 DEF Place

\* An item that has come out stays out, and one comes out only by being taken.
LEMMA OutStep ==
  ASSUME Basics, Cells2, Once, NEW t \in Threads, Step(t), NEW x \in Items
  PROVE  /\ out[x] # 0 => out'[x] # 0
         /\ out'[x] # 0 => out[x] # 0 \/ (Takes(t) /\ seen[t].value = x)
<1>1. TypeOK /\ (\A u \in Threads : Locals(u)) /\ Owned /\ List
  BY DEF Basics
<1>2. out \in [Items -> Nat] /\ out[x] \in Nat
  BY <1>1 DEF TypeOK
<1>3. out' = out \/ (Takes(t) /\ out' = [out EXCEPT ![seen[t].value] = @ + 1])
  BY <1>1, CellStep DEF CellsKept, Reserves, Marks, Undoes, Puts, Takes, Empties, Skips, Spoils, LinkNew, calls
<1>4. CASE out' = out
  BY <1>4
<1>5. CASE Takes(t) /\ out' = [out EXCEPT ![seen[t].value] = @ + 1]
  <2>1. out'[x] = IF seen[t].value = x THEN out[x] + 1 ELSE out[x]
    BY <1>2, <1>5
  <2> QED
    BY <1>2, <1>5, <2>1
<1> QED
  BY <1>3, <1>4, <1>5

LEMMA RememberedStep ==
  ASSUME Basics, Cells2, Once, Remembered, NEW t \in Threads, Step(t)
  PROVE  Remembered'
<1>1. TypeOK /\ Locals(t) /\ \A v \in Threads \ {t} : Same(v)
  BY OthersSame DEF Basics
<1>2. /\ prior \in [Items -> SUBSET Items] /\ known \in [Threads -> SUBSET Items]
      /\ out \in [Items -> Nat]
  BY <1>1 DEF TypeOK
<1>3. entered \subseteq entered'
  BY <1>1, ItemStep DEF ItemKept, ItemTaken, ItemEntered
<1>4. \A x \in Items : out[x] # 0 => out'[x] # 0
  BY OutStep
<1>5. \A x \in Items : prior'[x] = prior[x] \/ prior'[x] = entered
  BY <1>1, <1>2, HistoryStep DEF HistoryKept, DequeueCalled, CallDone, CalledWith
<1>6. \A x \in Items : prior'[x] \subseteq entered'
  BY <1>3, <1>5 DEF Remembered
<1>7. ASSUME NEW u \in Threads
      PROVE  /\ \A x \in known'[u] : out'[x] # 0
             /\ pc'[u] \notin DequeuePcs => known'[u] = {}
  <2>1. /\ \A x \in known[u] : out[x] # 0 /\ x \in Items
        /\ pc[u] \notin DequeuePcs => known[u] = {}
    BY <1>2 DEF Remembered
  <2>2. CASE u # t
    <3>1. known'[u] = known[u] /\ pc'[u] = pc[u]
      BY <1>1, <2>2 DEF Same
    <3> QED
      BY <1>4, <2>1, <3>1
  <2>3. CASE u = t
    <3>1. CASE HistoryKept(t)
      BY <1>4, <2>1, <2>3, <3>1 DEF HistoryKept
    <3>2. CASE DequeueCalled(t)
      <4>1. known'[u] = {x \in Items : out[x] > 0} /\ pc'[u] \in DequeuePcs
        BY <1>2, <2>3, <3>2 DEF DequeueCalled, DequeuePcs
      <4>2. \A x \in Items : out[x] > 0 => out[x] # 0
        BY <1>2
      <4> QED
        BY <1>4, <4>1, <4>2
    <3>3. CASE CallDone(t)
      BY <1>2, <2>3, <3>3 DEF CallDone
    <3>4. CASE \E x \in Items : CalledWith(t, x)
      <4>1. known' = known /\ pc[t] \notin DequeuePcs
        BY <3>4 DEF CalledWith, DequeuePcs, CellPcs
      <4> QED
        BY <2>1, <2>3, <4>1
    <3> QED
      BY <1>1, <3>1, <3>2, <3>3, <3>4, HistoryStep
  <2> QED
    BY <2>2, <2>3
<1> QED
  BY <1>6, <1>7 DEF Remembered


LEMMA AheadMore ==
  ASSUME NEW r \in Nat, NEW k \in Nat, NEW s \in Nat, NEW j \in Nat,
         NEW q \in Nat, NEW l \in Nat, Ahead(r, k, s, j), s < q \/ (s = q /\ j <= l)
  PROVE  Ahead(r, k, q, l)
BY DEF Ahead

\* The enqueue of y begins: y is nowhere yet.
LEMMA NotBehind ==
  ASSUME Basics, Cells2, Once, Remembered, NEW t \in Threads, Step(t),
         NEW y \in Items, CalledWith(t, y), NEW r, NEW k
  PROVE  AheadOf(r, k, y)'
<1>1. TypeOK /\ Locals(t) /\ Owned /\ \A v \in Threads \ {t} : Same(v)
  BY OthersSame DEF Basics
<1>2. y \notin Sent /\ y \in unsent
  BY DEF CalledWith, Sent
<1>3. out[y] = 0 /\ ~In(y) /\ \A v \in Threads : y \notin known[v]
  <2>1. out[y] = 0 /\ ~In(y)
    BY <1>2 DEF Once
  <2> QED
    BY <2>1 DEF Remembered
<1>4. out' = out /\ known' = known /\ pc'[t] = "lTail" /\ pc[t] = "idle"
  BY DEF CalledWith
<1>5. prq'[t] = 0
  <2>1. Locals(t)'
    BY BasicsStep DEF Basics
  <2> QED
    BY <1>4, <2>1 DEF Locals
<1>6. \A s \in Rings, j \in Cells : value'[s][j] # y
  <2>1. CellsKept(t)
    BY <1>4, CellStep DEF Basics, LinkNew, Reserves, Marks, Undoes, Puts, Takes, Empties, Skips,
                          Spoils, Leaves, Moves
  <2>2. \A s \in Rings, j \in Cells : value'[s][j] = value[s][j]
    BY <2>1 DEF CellsKept, ValueKept
  <2> QED
    BY <1>3, <2>2 DEF In
<1>8. Cells' = Cells
  BY OthersSame DEF Basics, Cells
<1>7. \A u \in Threads : prq'[u] # 0 => ~(Pending(u)' /\ item'[u] = y) /\ y \notin known'[u]
  <2> SUFFICES ASSUME NEW u \in Threads, prq'[u] # 0
               PROVE  ~(Pending(u)' /\ item'[u] = y) /\ y \notin known'[u]
    OBVIOUS
  <2>1. pc'[u] = pc[u] /\ item'[u] = item[u] /\ known'[u] = known[u]
    BY <1>1, <1>5 DEF Same
  <2> QED
    BY <1>1, <1>2, <1>3, <2>1 DEF Pending, Owned
<1> QED
  BY <1>3, <1>4, <1>6, <1>7, <1>8 DEF AheadOf

\* What is ahead of an item stays ahead of it.
LEMMA AheadStep ==
  ASSUME Basics, Cells2, Passed, Once, Reached, Remembered, NEW t \in Threads, Step(t),
         NEW r \in Rings, NEW k \in Nat, NEW y \in Items,
         k < rtail[r].t, r <= qtail, AheadOf(r, k, y)
  PROVE  AheadOf(r, k, y)'
<1>1. TypeOK /\ TypeOK' /\ Locals(t) /\ Locals(t)' /\ \A v \in Threads \ {t} : Same(v)
  BY BasicsStep, OthersSame DEF Basics
<1>2. /\ qhead \in Rings /\ qhead' \in Rings /\ qtail \in Rings /\ r \in Nat
      /\ Rings \subseteq Nat \ {0} /\ Cells' = Cells
      /\ \A u \in Threads : prq[u] # 0 => prq[u] \in Rings /\ prq[u] \in Nat
  <2>1. qhead \in Rings /\ qhead' \in Rings /\ qtail \in Rings
        /\ \A u \in Threads : prq[u] \in Rings \union {0}
    BY <1>1 DEF TypeOK
  <2>2. Rings \subseteq Nat
    BY RingsAre
  <2>3. Cells' = Cells
    BY <1>1, OthersSame DEF Cells
  <2> QED
    BY <2>1, <2>2, <2>3, RingsAre
<1>3. /\ qhead \in Nat /\ qhead' \in Nat /\ qhead <= qhead' /\ qtail \in Nat
      /\ \A s \in Rings : rhead[s] \in Nat /\ rhead'[s] \in Nat /\ rhead[s] <= rhead'[s]
      /\ \A s \in Rings : rtail[s].t \in Nat /\ rtail'[s].t \in Nat
  BY Forward
<1>4. /\ \A s \in Rings, j \in Cells : value[s][j] = y => Ahead(r, k, s, Place(s, j))
      /\ out[y] # 0 => Ahead(r, k, qhead, rhead[qhead])
      /\ \A u \in Threads : prq[u] # 0 /\ ((Pending(u) /\ item[u] = y) \/ y \in known[u]) =>
           Ahead(r, k, prq[u], Turn(u))
  BY DEF AheadOf
<1>5. ASSUME NEW s \in Rings, NEW j \in Cells, value'[s][j] = y
      PROVE  Ahead(r, k, s, Place(s, j)')
  <2>1. CASE Stays(s, j)
    BY <1>4, <1>5, <2>1 DEF Stays
  <2>2. CASE PutNow(t, s, j)
    <3>1. /\ Pending(t) /\ item[t] = y /\ prq[t] \in Rings
      BY <1>5, <2>2 DEF PutNow
    <3>2. prq[t] # 0 /\ prq[t] \in Nat
      BY <3>1, RingsAre
    <3>3. Ahead(r, k, prq[t], Turn(t))
      BY <1>4, <3>1, <3>2
    <3>4. CASE Puts(t) /\ s = prq[t] /\ Place(s, j)' = ticket[t]
      <4>1. Turn(t) = ticket[t]
        BY <3>4 DEF Puts, Leaves, Turn, PutPcs
      <4> QED
        BY <3>3, <3>4, <4>1
    <3>5. CASE LinkNew(t) /\ s = prq[t] + 1 /\ Place(s, j)' = R
      BY <1>2, <3>2, <3>3, <3>5 DEF Ahead
    <3> QED
      BY <2>2, <3>4, <3>5 DEF PutNow
  <2> QED
    BY <1>5, <2>1, <2>2, ItemFrom
<1>6. Ahead(r, k, qhead, rhead[qhead]) => Ahead(r, k, qhead', rhead'[qhead'])
  <2>1. qhead < qhead' \/ (qhead = qhead' /\ rhead[qhead] <= rhead'[qhead'])
    <3>1. qhead < qhead' \/ qhead = qhead'
      BY <1>3
    <3> QED
      BY <1>2, <1>3, <3>1
  <2>2. rhead[qhead] \in Nat /\ rhead'[qhead'] \in Nat
    BY <1>2, <1>3
  <2> QED
    BY <1>2, <1>3, <2>1, <2>2, AheadMore
<1>7. ASSUME out'[y] # 0 PROVE Ahead(r, k, qhead', rhead'[qhead'])
  <2>1. CASE out[y] # 0
    BY <1>4, <1>6, <2>1
  <2>2. CASE Takes(t) /\ seen[t].value = y
    <3>1. /\ prq[t] \in Rings /\ pc[t] = "dTake" /\ ticket[t] \in Nat /\ Cell(ticket[t]) \in Cells
          /\ value[prq[t]][Cell(ticket[t])] = y /\ Place(prq[t], Cell(ticket[t])) = ticket[t]
      BY <2>2, TakenFrom DEF Takes, Leaves
    <3>2. Ahead(r, k, prq[t], ticket[t])
      BY <1>4, <2>2, <3>1
    <3>3. prq[t] <= qhead /\ ticket[t] < rhead[prq[t]]
      BY <3>1 DEF Cells2, Tickets, Passed, DequeuePcs, TakePcs, CellPcs
    <3>4. prq[t] \in Nat /\ rhead[prq[t]] \in Nat /\ rhead[qhead] \in Nat
      BY <1>2, <1>3, <3>1, RingsAre
    <3>5. prq[t] < qhead \/ (prq[t] = qhead /\ ticket[t] <= rhead[qhead])
      <4>1. prq[t] < qhead \/ prq[t] = qhead
        BY <1>3, <3>3, <3>4
      <4>2. ticket[t] <= rhead[prq[t]]
        BY <3>1, <3>3, <3>4
      <4> QED
        BY <4>1, <4>2
    <3>6. Ahead(r, k, qhead, rhead[qhead])
      BY <1>2, <1>3, <3>1, <3>2, <3>4, <3>5, AheadMore
    <3> QED
      BY <1>6, <3>6
  <2> QED
    BY <1>7, <2>1, <2>2, OutStep
<1>8. ASSUME NEW u \in Threads, prq'[u] # 0,
             (Pending(u)' /\ item'[u] = y) \/ y \in known'[u]
      PROVE  Ahead(r, k, prq'[u], Turn(u)')
  <2>1. CASE prq'[u] = prq[u]
    <3>1. prq[u] \in Rings /\ prq[u] \in Nat
      BY <1>1, <1>2, <1>8, <2>1 DEF TypeOK
    <3>2. (Pending(u) /\ item[u] = y) \/ y \in known[u]
      <4>1. CASE u # t
        BY <1>1, <1>8, <4>1 DEF Same, Pending
      <4>2. CASE u = t
        <5>1. pc'[t] \notin {"idle", "lTail", "lHead"}
          BY <1>1, <1>8, <4>2 DEF Locals
        <5>2. Pending(t)' /\ item'[t] = y => Pending(t) /\ item[t] = y
          BY <1>1, <5>1, ItemStep DEF ItemKept, ItemTaken, ItemEntered, Pending, LinkNew
        <5>3. known'[t] = known[t]
          BY <1>1, <5>1, HistoryStep DEF HistoryKept, DequeueCalled, CallDone, CalledWith
        <5> QED
          BY <1>8, <4>2, <5>2, <5>3
      <4> QED
        BY <4>1, <4>2
    <3>3. Ahead(r, k, prq[u], Turn(u))
      BY <1>4, <1>8, <2>1, <3>2
    <3>4. Turn(u) \in Nat /\ Turn(u)' \in Nat /\ Turn(u) <= Turn(u)'
      BY <1>8, <2>1, TurnForward DEF Cells2
    <3> QED
      BY <1>2, <2>1, <3>1, <3>3, <3>4, AheadMore
  <2>2. CASE u = t /\ pc[t] = "lTail" /\ pc'[t] = "lNext" /\ prq'[t] = qtail /\ rtail' = rtail
    <3>1. Turn(t)' = rtail[qtail].t
      BY <2>2 DEF Turn, PutPcs, TakePcs, CellPcs, EnqueuePcs
    <3>2. rtail[qtail].t \in Nat
      BY <1>2, <1>3
    <3>3. r < qtail \/ r = qtail
      BY <1>2, <1>3
    <3> QED
      BY <2>2, <3>1, <3>3 DEF Ahead
  <2>3. CASE u = t /\ pc[t] = "lHead" /\ pc'[t] = "dTicket" /\ prq'[t] = qhead /\ rhead' = rhead
    <3>1. Turn(t)' = rhead[qhead]
      BY <2>3 DEF Turn, PutPcs, TakePcs, CellPcs, EnqueuePcs
    <3>2. ~Pending(t)' /\ pc[t] # "idle"
      BY <2>3 DEF Pending, EnqueuePcs
    <3>3. y \in known[t]
      <4>1. known'[t] = known[t]
        BY <1>1, <2>3, HistoryStep DEF HistoryKept, DequeueCalled, CallDone, CalledWith
      <4> QED
        BY <1>8, <2>3, <3>2, <4>1
    <3>4. out[y] # 0
      BY <3>3 DEF Remembered
    <3> QED
      BY <1>4, <2>3, <3>1, <3>4
  <2>4. u # t => prq'[u] = prq[u]
    BY <1>1 DEF Same
  <2> QED
    BY <1>1, <1>8, <2>1, <2>2, <2>3, <2>4, OwnRing
<1> QED
  BY <1>2, <1>5, <1>7, <1>8 DEF AheadOf

LEMMA InOrderStep ==
  ASSUME Basics, Cells2, Takers, Once, Order, NEW t \in Threads, Step(t)
  PROVE  InOrder'
<1>1. TypeOK /\ TypeOK' /\ Reached /\ Remembered /\ InOrder /\ Passed /\ Waiting
  BY BasicsStep DEF Basics, Order, Takers
<1>2. Cells' = Cells
  BY OthersSame DEF Basics, Cells
<1> SUFFICES ASSUME NEW r \in Rings, NEW i \in Cells, NEW y \in Items,
                    value'[r][i] \in prior'[y], NEW k \in Nat, k = Place(r, i)'
             PROVE  AheadOf(r, k, y)'
  <2>1. \A r \in Rings, i \in Cells : Place(r, i)' \in Nat
    <3>1. mark' \in [Rings -> [Cells -> MarkType]]
      BY <1>1, <1>2 DEF TypeOK
    <3>2. R' \in Nat
      BY <1>1 DEF TypeOK
    <3>3. \A r \in Rings, i \in Cells : mark'[r][i].epoch \in Nat
      <4>1. \A m \in MarkType : m.epoch \in Nat
        BY DEF MarkType
      <4> QED
        BY <3>1, <4>1
    <3>4. \A i \in Cells : i \in Nat
      BY <1>1 DEF TypeOK, Cells
    <3>5. \A e, n, i \in Nat : e * n + i \in Nat
      <4>1. \A e, n \in Nat : e * n \in Nat
        OBVIOUS
      <4>2. \A m, i \in Nat : m + i \in Nat
        OBVIOUS
      <4> QED
        BY <4>1, <4>2, Zenon
    <3> QED
      BY <3>2, <3>3, <3>4, <3>5 DEF Place, Ticket
  <2> QED
    BY <1>2, <2>1 DEF InOrder, AheadOf, Ahead
<1>3. prior \in [Items -> SUBSET Items] /\ prior' \in [Items -> SUBSET Items]
  BY <1>1 DEF TypeOK
<1>4. CASE CalledWith(t, y)
  BY <1>1, <1>4, NotBehind
<1>5. CASE ~CalledWith(t, y)
  <2>1. prior'[y] = prior[y]
    BY <1>1, <1>3, <1>5, HistoryStep DEF HistoryKept, DequeueCalled, CallDone, CalledWith
  <2>2. value'[r][i] \in Items /\ value'[r][i] \in entered /\ value'[r][i] \in Sent
    BY <1>1, <1>3, <2>1, SentFacts DEF Remembered
  <2>3. value[r][i] = value'[r][i] /\ Place(r, i) = k
    BY <2>2, ItemFrom DEF Stays, PutNow
  <2>4. k < rtail[r].t /\ r <= qtail
    BY <1>1, <2>2, <2>3 DEF Reached, Waiting, Full, Place
  <2>5. AheadOf(r, k, y)
    BY <1>1, <2>1, <2>3 DEF InOrder
  <2> QED
    BY <1>1, <2>4, <2>5, AheadStep
<1> QED
  BY <1>4, <1>5

LEMMA OrderStep ==
  ASSUME Basics, Cells2, Takers, Once, Order, NEW t \in Threads, Step(t)
  PROVE  Order'
<1>1. Reached /\ Remembered
  BY DEF Order
<1>2. Reached' /\ Remembered'
  BY <1>1, ReachedStep, RememberedStep
<1>3. InOrder'
  BY InOrderStep
<1> QED
  BY <1>2, <1>3 DEF Order

LEMMA OrderQuiet ==
  ASSUME Basics, Order, Destroy \/ Finished \/ UNCHANGED vars
  PROVE  Order'
<1>1. UNCHANGED <<R, queue, pc, locals, calls>>
  BY QuietStep DEF Basics
<1>2. /\ qhead' = qhead /\ qtail' = qtail /\ rhead' = rhead /\ rtail' = rtail
      /\ mark' = mark /\ value' = value /\ pc' = pc /\ item' = item /\ prq' = prq
      /\ ticket' = ticket /\ entered' = entered /\ prior' = prior /\ out' = out /\ known' = known
      /\ Cells' = Cells
  BY <1>1 DEF queue, ends, tickets, cells, locals, ringLocals, calls, Cells
<1>3. \A t \in Threads : Turn(t)' = Turn(t) /\ (Pending(t)' <=> Pending(t))
  BY <1>2 DEF Turn, Pending
<1>4. \A r, i : Place(r, i)' = Place(r, i)
  BY <1>1, <1>2 DEF Place, Ticket
<1>5. Reached' /\ Remembered'
  BY <1>2 DEF Order, Reached, Remembered
<1>6. InOrder'
  BY <1>2, <1>3, <1>4 DEF Order, InOrder, AheadOf, Ahead
<1> QED
  BY <1>5, <1>6 DEF Order

LEMMA OrderInit == Init => Order
<1> SUFFICES ASSUME Init PROVE Order
  OBVIOUS
<1>1. \A t \in Threads : pc[t] = "idle" /\ known[t] = {}
  BY DEF Init
<1>2. \A x \in Items : prior[x] = {}
  BY DEF Init
<1>3. \A r \in Rings, i \in Cells : value[r][i] \notin Items
  BY DEF Init
<1>4. Reached
  BY <1>1, <1>3 DEF Reached, EnqueuePcs
<1>5. Remembered /\ InOrder
  BY <1>1, <1>2 DEF Remembered, InOrder
<1> QED
  BY <1>4, <1>5 DEF Order

\* A dequeue takes nothing that should have come out before what it knows.
LEMMA TakesInOrder ==
  ASSUME Basics, Cells2, Order, NEW t \in Threads, Step(t), NEW u \in Threads,
         pc[u] = "dTake", pc'[u] = "idle", NEW y \in known[u]
  PROVE  seen[u].value \notin prior[y]
<1>1. /\ prq[u] \in Rings /\ prq[u] # 0 /\ ticket[u] \in Nat /\ Cell(ticket[u]) \in Cells
      /\ value[prq[u]][Cell(ticket[u])] = seen[u].value
      /\ Place(prq[u], Cell(ticket[u])) = ticket[u]
  BY TakenFrom
<1>2. y \in Items
  BY DEF Basics, TypeOK
<1> SUFFICES ASSUME seen[u].value \in prior[y] PROVE FALSE
  OBVIOUS
<1>3. AheadOf(prq[u], ticket[u], y)
  BY <1>1, <1>2 DEF Order, InOrder
<1>4. Ahead(prq[u], ticket[u], prq[u], Turn(u))
  BY <1>1, <1>3 DEF AheadOf
<1>5. Turn(u) = ticket[u] /\ prq[u] \in Nat
  BY <1>1, RingsAre DEF Turn, TakePcs, CellPcs
<1> QED
  BY <1>1, <1>4, <1>5 DEF Ahead

LEMMA Inductive == Spec => []IInv
<1>1. Init => IInv
  BY BasicsInit, Cells2Init, TakersInit, OnceInit, OrderInit DEF IInv
<1>2. IInv /\ [Next]_vars => IInv'
  <2> SUFFICES ASSUME IInv, [Next]_vars PROVE IInv'
    OBVIOUS
  <2> USE DEF IInv
  <2>1. CASE \E t \in Threads : Step(t)
    BY <2>1, BasicsStep, Cells2Step, TakersStep, OnceStep, OrderStep
  <2>2. CASE Destroy \/ Finished \/ UNCHANGED vars
    BY <2>2, BasicsQuiet, Cells2Quiet, TakersQuiet, OnceQuiet, OrderQuiet
  <2> QED
    BY <2>1, <2>2 DEF Next, Step
<1> QED
  BY <1>1, <1>2, PTL DEF Spec

\* NoneStranded for rings of any size and any number of threads: no item is left
\* in a cell that the dequeues have passed.  It is the part Waiting of IInv.
THEOREM NothingStranded == Spec => []NoneStranded
<1>1. IInv => NoneStranded
  BY DEF IInv, Takers, Waiting, NoneStranded, Full, Ticket, Held
<1> QED
  BY <1>1, Inductive, PTL

\* ExactlyOnce for rings of any size and any number of threads: no item is lost
\* or duplicated, however many cells and rings its enqueue has tried.
THEOREM EveryItemOnce == Spec => []ExactlyOnce
<1>1. IInv => ExactlyOnce
  BY Counted DEF IInv
<1> QED
  BY <1>1, Inductive, PTL


\* OrderKept for rings of any size and any number of threads: what comes out keeps
\* the order of the enqueues that did not overlap.  The cells are in the order of
\* their rings and tickets (AheadOf), and a dequeue goes through them in this order.
THEOREM FirstInFirstOut == Spec => OrderKept
<1> DEFINE Keeps == \A t \in Threads : (pc[t] = "dTake" /\ pc'[t] = "idle") =>
                      \A y \in known[t] : seen[t].value \notin prior[y]
<1>1. IInv /\ [Next]_vars => [Keeps]_vars
  <2> SUFFICES ASSUME IInv, [Next]_vars PROVE [Keeps]_vars
    OBVIOUS
  <2>1. CASE \E t \in Threads : Step(t)
    BY <2>1, TakesInOrder DEF IInv
  <2>2. CASE Destroy \/ Finished \/ UNCHANGED vars
    <3>1. pc' = pc
      BY <2>2 DEF Destroy, Finished, vars
    <3> QED
      BY <3>1
  <2> QED
    BY <2>1, <2>2 DEF Next, Step
<1> QED
  BY <1>1, Inductive, PTL DEF Spec, OrderKept

=============================================================================
