------------------------------ MODULE LCRQueue ------------------------------
(***************************************************************************)
(* LCRQueue<T> and its rings CRQ (include/lcr_queue.hpp), after the LCRQ   *)
(* of Morrison and Afek: a linked list of rings of R cells.  Inside a ring *)
(* fetch-and-add hands out tickets; an enqueue puts its item into the cell *)
(* of its ticket, a dequeue takes the item of its ticket or, when the      *)
(* enqueue is late, spoils the cell for it.  An enqueue that meets a full  *)
(* ring, or fails too often, closes it and links a new ring.               *)
(*                                                                         *)
(* One action per shared memory access, together with the thread-local     *)
(* code that follows it.  The two words of a cell are read one after the   *)
(* other and replaced together.  A new ring is private until it is linked; *)
(* one whose link fails is deleted and leaves no trace.                    *)
(***************************************************************************)
EXTENDS Naturals, FiniteSets

CONSTANTS Threads,     \* the threads that share the queue
          Items,       \* the items they pass through it, each of them once
          Null,        \* nullptr, and EMPTY, the value of an empty cell
          R,           \* cells of a ring (1024 in C++)
          MaxDequeues  \* bound of the model: calls of dequeue in all

ASSUME NullAssumption == Null \notin Items
ASSUME SizeAssumption == R \in Nat \ {0} /\ MaxDequeues \in Nat /\ IsFiniteSet(Items)

StarvingThreshold == R

\* Rings are numbered in the order they are linked.  Each ring after the first
\* is linked with the item that did not fit into the one before.
Rings == 1..(Cardinality(Items) + 1)
RingOrNull == Rings \union {0}
Cells == 0..(R - 1)

VARIABLES
  qhead, qtail,  \* LCRQueue::_head and _tail
  next,          \* next[r]: CRQ::next of ring r, 0 for nullptr
  rhead,         \* rhead[r]: CRQ::_head
  rtail,         \* rtail[r]: CRQ::_tail, the ticket and the closed bit
  cell,          \* cell[r][i]: CRQ::_array, the safe bit, the index, the value
  freed,         \* the rings the destructor has deleted
  pc,            \* pc[t]: the shared access thread t makes next
  item,          \* item[t]: the argument of enqueue
  crq,           \* crq[t]: the local crq of the running call
  ticket,        \* ticket[t]: the local t of enqueue, h of dequeue
  word,          \* word[t]: the cell as the thread has read it
  tries,         \* tries[t]: the local iteration of CRQ::enqueue
  fix,           \* fix[t]: the locals h and t of fixState
  unsent,        \* the items no thread has passed to enqueue yet
  dequeues,      \* the calls of dequeue left
  entered,       \* history: the items whose enqueue has returned
  prior,         \* history: prior[x], those that had when x was enqueued
  out,           \* history: the items that came out, and how often
  known          \* history: known[t], those that had when t called dequeue

rings == <<next, rhead, rtail, cell>>
queue == <<qhead, qtail, rings>>
locals == <<item, crq, ticket, word, tries, fix>>
history == <<entered, prior, out, known>>
calls == <<unsent, dequeues, history>>
vars == <<queue, freed, pc, locals, calls>>

Cell(s, i, v) == [safe |-> s, idx |-> i, val |-> v]
Word(t, c) == [t |-> t, closed |-> c]
NewCells == [i \in Cells |-> Cell(TRUE, i, Null)]
NoWord == Cell(TRUE, 0, Null)
NoFix == [h |-> 0, tail |-> Word(0, FALSE)]

EnqueuePcs == {"lTail", "lNext", "lHelp", "eTicket", "eVal", "eIdx", "eHead",
               "eCas", "eOver", "eClose", "lLink", "lSwing"}
DequeuePcs == {"lHead", "dTicket", "dVal", "dIdx", "dTake", "dUnsafe", "dSkip",
               "dTail", "fHead", "fTail", "fTail2", "fCas", "lDNext", "lDSwing"}

CellType == [safe : BOOLEAN, idx : Nat, val : Items \union {Null}]

TypeOK ==
  /\ qhead \in Rings /\ qtail \in Rings
  /\ next \in [Rings -> RingOrNull]
  /\ rhead \in [Rings -> Nat]
  /\ rtail \in [Rings -> [t : Nat, closed : BOOLEAN]]
  /\ cell \in [Rings -> [Cells -> CellType]]
  /\ freed \subseteq Rings
  /\ pc \in [Threads -> {"idle"} \union EnqueuePcs \union DequeuePcs]
  /\ item \in [Threads -> Items \union {Null}]
  /\ crq \in [Threads -> RingOrNull]
  /\ \A t \in Threads :
       crq[t] = 0 => pc[t] \in {"idle", "lTail", "lHead"}
  /\ ticket \in [Threads -> Nat]
  /\ word \in [Threads -> CellType]
  /\ tries \in [Threads -> 0..(StarvingThreshold + 1)]
  /\ fix \in [Threads -> [h : Nat, tail : [t : Nat, closed : BOOLEAN]]]
  /\ unsent \subseteq Items /\ dequeues \in 0..MaxDequeues
  /\ entered \subseteq Items /\ prior \in [Items -> SUBSET Items]
  /\ out \in [Items -> Nat] /\ known \in [Threads -> SUBSET Items]

Init ==
  /\ qhead = 1 /\ qtail = 1
  /\ next = [r \in Rings |-> 0]
  /\ rhead = [r \in Rings |-> 0]
  /\ rtail = [r \in Rings |-> Word(0, FALSE)]
  /\ cell = [r \in Rings |-> NewCells]
  /\ freed = {}
  /\ pc = [t \in Threads |-> "idle"]
  /\ item = [t \in Threads |-> Null] /\ crq = [t \in Threads |-> 0]
  /\ ticket = [t \in Threads |-> 0] /\ word = [t \in Threads |-> NoWord]
  /\ tries = [t \in Threads |-> 0] /\ fix = [t \in Threads |-> NoFix]
  /\ unsent = Items /\ dequeues = MaxDequeues
  /\ entered = {} /\ prior = [x \in Items |-> {}]
  /\ out = [x \in Items |-> 0] /\ known = [t \in Threads |-> {}]

Goto(t, from, to) ==
  /\ pc[t] = from
  /\ pc' = [pc EXCEPT ![t] = to]
  /\ UNCHANGED freed

\* The locals of CRQ::enqueue and CRQ::dequeue go out of scope.
LeaveRing(t) ==
  /\ ticket' = [ticket EXCEPT ![t] = 0]
  /\ word' = [word EXCEPT ![t] = NoWord]
  /\ tries' = [tries EXCEPT ![t] = 0]
  /\ fix' = [fix EXCEPT ![t] = NoFix]

\* The loop of LCRQueue starts over.
Again(t, from, to) ==
  /\ Goto(t, from, to)
  /\ crq' = [crq EXCEPT ![t] = 0]
  /\ LeaveRing(t)
  /\ UNCHANGED <<item, calls>>

Return(t, from) ==
  /\ Goto(t, from, "idle")
  /\ crq' = [crq EXCEPT ![t] = 0]
  /\ LeaveRing(t)
  /\ item' = [item EXCEPT ![t] = Null]
  /\ UNCHANGED <<unsent, dequeues>>

EnqueueReturns(t, from) ==
  /\ Return(t, from)
  /\ entered' = entered \union {item[t]}
  /\ UNCHANGED <<prior, out, known>>

\* The cell of the ticket of thread t.
At(t) == cell[crq[t]][ticket[t] % R]

\* CAS2: both words of the cell, expected as they were read.
Cas2(t, new) ==
  /\ At(t) = word[t]
  /\ cell' = [cell EXCEPT ![crq[t]][ticket[t] % R] = new]

----------------------------------------------------------------------------
(* LCRQueue::enqueue *)

CallEnqueue(t, x) ==
  /\ x \in unsent
  /\ Goto(t, "idle", "lTail")
  /\ unsent' = unsent \ {x}
  /\ item' = [item EXCEPT ![t] = x]
  /\ prior' = [prior EXCEPT ![x] = entered]
  /\ UNCHANGED <<queue, crq, ticket, word, tries, fix, dequeues, entered, out, known>>

LTail(t) ==
  /\ Goto(t, "lTail", "lNext")
  /\ crq' = [crq EXCEPT ![t] = qtail]
  /\ UNCHANGED <<queue, item, ticket, word, tries, fix, calls>>

LNext(t) ==
  /\ Goto(t, "lNext", IF next[crq[t]] = 0 THEN "eTicket" ELSE "lHelp")
  /\ UNCHANGED <<queue, locals, calls>>

\* _tail.compare_exchange_strong(crq, crq->next); the next of a ring is set once.
CasTail(t) == qtail' = IF qtail = crq[t] THEN next[crq[t]] ELSE qtail

\* Mutant: nobody helps a _tail that lags behind.
LHelpNot(t) ==
  /\ Again(t, "lHelp", "lTail")
  /\ UNCHANGED queue

LHelp(t) ==
  /\ Again(t, "lHelp", "lTail")
  /\ CasTail(t)
  /\ UNCHANGED <<qhead, rings>>

\* The ring was closed: link a new one that holds the item.
LLink(t) ==
  /\ \/ /\ Goto(t, "lLink", "lSwing")
        /\ next[crq[t]] = 0
        /\ LET n == crq[t] + 1
           IN  /\ next' = [next EXCEPT ![crq[t]] = n]
               /\ rtail' = [rtail EXCEPT ![n] = Word(1, FALSE)]
               /\ cell' = [cell EXCEPT ![n][0] = Cell(TRUE, 0, item[t])]
        /\ UNCHANGED <<locals, calls>>
     \/ /\ Again(t, "lLink", "lTail")
        /\ next[crq[t]] # 0
        /\ UNCHANGED <<next, rtail, cell>>
  /\ UNCHANGED <<qhead, qtail, rhead>>

LSwing(t) ==
  /\ EnqueueReturns(t, "lSwing")
  /\ CasTail(t)
  /\ UNCHANGED <<qhead, rings>>

----------------------------------------------------------------------------
(* CRQ::enqueue *)

\* _tail.fetch_add(1), which counts on in a closed ring.
ETicket(t) ==
  /\ \/ /\ Goto(t, "eTicket", "lLink")
        /\ rtail[crq[t]].closed
        /\ LeaveRing(t)
     \/ /\ Goto(t, "eTicket", "eVal")
        /\ ~rtail[crq[t]].closed
        /\ ticket' = [ticket EXCEPT ![t] = rtail[crq[t]].t]
        /\ UNCHANGED <<word, tries, fix>>
  /\ rtail' = [rtail EXCEPT ![crq[t]].t = @ + 1]
  /\ UNCHANGED <<qhead, qtail, next, rhead, cell, item, crq, calls>>

EVal(t) ==
  /\ Goto(t, "eVal", "eIdx")
  /\ word' = [word EXCEPT ![t].val = At(t).val]
  /\ UNCHANGED <<queue, item, crq, ticket, tries, fix, calls>>

EIdx(t) ==
  /\ Goto(t, "eIdx",
          IF word[t].val = Null /\ At(t).idx <= ticket[t]
          THEN IF At(t).safe THEN "eCas" ELSE "eHead"
          ELSE "eOver")
  /\ word' = [word EXCEPT ![t].safe = At(t).safe, ![t].idx = At(t).idx]
  /\ UNCHANGED <<queue, item, crq, ticket, tries, fix, calls>>

\* Mutant: an unsafe cell is used without a look at _head.
EHeadNot(t) ==
  /\ Goto(t, "eHead", "eCas")
  /\ UNCHANGED <<queue, locals, calls>>

\* The cell is unsafe: use it only if no dequeue has this ticket yet.
EHead(t) ==
  /\ Goto(t, "eHead", IF rhead[crq[t]] <= ticket[t] THEN "eCas" ELSE "eOver")
  /\ UNCHANGED <<queue, locals, calls>>

ECas(t) ==
  /\ \/ /\ EnqueueReturns(t, "eCas")
        /\ Cas2(t, Cell(TRUE, ticket[t], item[t]))
     \/ /\ Goto(t, "eCas", "eOver")
        /\ At(t) # word[t]
        /\ UNCHANGED <<cell, locals, calls>>
  /\ UNCHANGED <<qhead, qtail, next, rhead, rtail>>

\* t - h >= R on unsigned words: the difference also counts as too large when
\* dequeues have taken later tickets and h is greater than t.
TooFar(t) == ticket[t] < rhead[crq[t]] \/ ticket[t] - rhead[crq[t]] >= R

EOver(t) ==
  /\ \/ /\ Goto(t, "eOver", "eClose")
        /\ TooFar(t) \/ tries[t] > StarvingThreshold
        /\ UNCHANGED <<ticket, word, tries>>
     \/ /\ Goto(t, "eOver", "eTicket")
        /\ ~TooFar(t) /\ tries[t] <= StarvingThreshold
        /\ tries' = [tries EXCEPT ![t] = @ + 1]
        /\ ticket' = [ticket EXCEPT ![t] = 0]
        /\ word' = [word EXCEPT ![t] = NoWord]
  /\ UNCHANGED <<queue, item, crq, fix, calls>>

EClose(t) ==
  /\ Goto(t, "eClose", "lLink")
  /\ rtail' = [rtail EXCEPT ![crq[t]].closed = TRUE]
  /\ LeaveRing(t)
  /\ UNCHANGED <<qhead, qtail, next, rhead, cell, item, crq, calls>>

----------------------------------------------------------------------------
(* LCRQueue::dequeue *)

CallDequeue(t) ==
  /\ dequeues > 0
  /\ Goto(t, "idle", "lHead")
  /\ dequeues' = dequeues - 1
  /\ known' = [known EXCEPT ![t] = {x \in Items : out[x] > 0}]
  /\ UNCHANGED <<queue, locals, unsent, entered, prior, out>>

LHead(t) ==
  /\ Goto(t, "lHead", "dTicket")
  /\ crq' = [crq EXCEPT ![t] = qhead]
  /\ UNCHANGED <<queue, item, ticket, word, tries, fix, calls>>

\* The ring gave nothing: return false if there is no other ring.
LDReturnEmpty(t) ==
  /\ Return(t, "lDNext")
  /\ next[crq[t]] = 0
  /\ known' = [known EXCEPT ![t] = {}]
  /\ UNCHANGED <<queue, entered, prior, out>>

\* Mutant: the null test is missing.
LDNextNoNull(t) ==
  /\ Goto(t, "lDNext", "lDSwing")
  /\ UNCHANGED <<queue, locals, calls>>

LDNext(t) ==
  /\ Goto(t, "lDNext", "lDSwing")
  /\ next[crq[t]] # 0
  /\ UNCHANGED <<queue, locals, calls>>

LDSwing(t) ==
  /\ Again(t, "lDSwing", "lHead")
  /\ qhead' = IF qhead = crq[t] THEN next[crq[t]] ELSE qhead
  /\ UNCHANGED <<qtail, rings>>

----------------------------------------------------------------------------
(* CRQ::dequeue and fixState *)

DTicket(t) ==
  /\ Goto(t, "dTicket", "dVal")
  /\ ticket' = [ticket EXCEPT ![t] = rhead[crq[t]]]
  /\ rhead' = [rhead EXCEPT ![crq[t]] = @ + 1]
  /\ UNCHANGED <<qhead, qtail, next, rtail, cell, item, crq, word, tries, fix, calls>>

DVal(t) ==
  /\ Goto(t, "dVal", "dIdx")
  /\ word' = [word EXCEPT ![t].val = At(t).val]
  /\ UNCHANGED <<queue, item, crq, ticket, tries, fix, calls>>

\* Mutant: a dequeue takes whatever item it finds.
DIdxAny(t) ==
  /\ Goto(t, "dIdx",
          IF At(t).idx > ticket[t] THEN "dTail"
          ELSE IF word[t].val = Null THEN "dSkip" ELSE "dTake")
  /\ word' = [word EXCEPT ![t].safe = At(t).safe, ![t].idx = At(t).idx]
  /\ UNCHANGED <<queue, item, crq, ticket, tries, fix, calls>>

DIdx(t) ==
  /\ Goto(t, "dIdx",
          IF At(t).idx > ticket[t] THEN "dTail"
          ELSE IF word[t].val = Null THEN "dSkip"
          ELSE IF At(t).idx = ticket[t] THEN "dTake" ELSE "dUnsafe")
  /\ word' = [word EXCEPT ![t].safe = At(t).safe, ![t].idx = At(t).idx]
  /\ UNCHANGED <<queue, item, crq, ticket, tries, fix, calls>>

\* A compare-and-swap of the cell that failed: read the cell again.
Reread(t, from) ==
  /\ Goto(t, from, "dVal")
  /\ At(t) # word[t]
  /\ word' = [word EXCEPT ![t] = NoWord]
  /\ UNCHANGED <<cell, item, crq, ticket, tries, fix, calls>>

\* Mutant: the item is returned whether or not the compare-and-swap took it.
DTakeAnyway(t) ==
  /\ Return(t, "dTake")
  /\ \/ Cas2(t, Cell(word[t].safe, ticket[t] + R, Null))
     \/ At(t) # word[t] /\ UNCHANGED cell
  /\ out' = [out EXCEPT ![word[t].val] = @ + 1]
  /\ known' = [known EXCEPT ![t] = {}]
  /\ UNCHANGED <<qhead, qtail, next, rhead, rtail, entered, prior>>

\* The item of this ticket: take it and return true.
DTake(t) ==
  /\ \/ /\ Return(t, "dTake")
        /\ Cas2(t, Cell(word[t].safe, ticket[t] + R, Null))
        /\ out' = [out EXCEPT ![word[t].val] = @ + 1]
        /\ known' = [known EXCEPT ![t] = {}]
        /\ UNCHANGED <<entered, prior>>
     \/ Reread(t, "dTake")
  /\ UNCHANGED <<qhead, qtail, next, rhead, rtail>>

\* An item of an earlier round: mark the cell unsafe for the enqueue with this ticket.
DUnsafe(t) ==
  /\ \/ /\ Goto(t, "dUnsafe", "dTail")
        /\ Cas2(t, Cell(FALSE, word[t].idx, word[t].val))
        /\ UNCHANGED <<locals, calls>>
     \/ Reread(t, "dUnsafe")
  /\ UNCHANGED <<qhead, qtail, next, rhead, rtail>>

\* No item yet: spoil the cell for the enqueue with this ticket.
DSkip(t) ==
  /\ \/ /\ Goto(t, "dSkip", "dTail")
        /\ Cas2(t, Cell(word[t].safe, ticket[t] + R, Null))
        /\ UNCHANGED <<locals, calls>>
     \/ Reread(t, "dSkip")
  /\ UNCHANGED <<qhead, qtail, next, rhead, rtail>>

\* Is the ring empty?
DTail(t) ==
  /\ \/ /\ Goto(t, "dTail", "fHead")
        /\ rtail[crq[t]].t <= ticket[t] + 1
     \/ /\ Goto(t, "dTail", "dTicket")
        /\ rtail[crq[t]].t > ticket[t] + 1
  /\ word' = [word EXCEPT ![t] = NoWord]
  /\ ticket' = [ticket EXCEPT ![t] = 0]
  /\ UNCHANGED <<queue, item, crq, tries, fix, calls>>

FHead(t) ==
  /\ Goto(t, "fHead", "fTail")
  /\ fix' = [fix EXCEPT ![t].h = rhead[crq[t]]]
  /\ UNCHANGED <<queue, item, crq, ticket, word, tries, calls>>

FTail(t) ==
  /\ Goto(t, "fTail", "fTail2")
  /\ fix' = [fix EXCEPT ![t].tail = rtail[crq[t]]]
  /\ UNCHANGED <<queue, item, crq, ticket, word, tries, calls>>

\* The tail with its closed bit is no smaller than any head.
FTail2(t) ==
  /\ \/ /\ Goto(t, "fTail2", "fHead")
        /\ rtail[crq[t]] # fix[t].tail
        /\ fix' = [fix EXCEPT ![t] = NoFix]
     \/ /\ Goto(t, "fTail2", "lDNext")
        /\ rtail[crq[t]] = fix[t].tail
        /\ fix[t].tail.closed \/ fix[t].h <= fix[t].tail.t
        /\ fix' = [fix EXCEPT ![t] = NoFix]
     \/ /\ Goto(t, "fTail2", "fCas")
        /\ rtail[crq[t]] = fix[t].tail
        /\ ~fix[t].tail.closed /\ fix[t].h > fix[t].tail.t
        /\ UNCHANGED fix
  /\ UNCHANGED <<queue, item, crq, ticket, word, tries, calls>>

\* Mutant: the tail is stored, not compared and swapped.
FCasStore(t) ==
  /\ Goto(t, "fCas", "lDNext")
  /\ rtail' = [rtail EXCEPT ![crq[t]] = Word(fix[t].h, FALSE)]
  /\ fix' = [fix EXCEPT ![t] = NoFix]
  /\ UNCHANGED <<qhead, qtail, next, rhead, cell, item, crq, ticket, word, tries, calls>>

FCas(t) ==
  /\ \/ /\ Goto(t, "fCas", "lDNext")
        /\ rtail[crq[t]] = fix[t].tail
        /\ rtail' = [rtail EXCEPT ![crq[t]] = Word(fix[t].h, FALSE)]
     \/ /\ Goto(t, "fCas", "fHead")
        /\ rtail[crq[t]] # fix[t].tail
        /\ UNCHANGED rtail
  /\ fix' = [fix EXCEPT ![t] = NoFix]
  /\ UNCHANGED <<qhead, qtail, next, rhead, cell, item, crq, ticket, word, tries, calls>>

----------------------------------------------------------------------------

Enqueue(t) ==
  \/ LTail(t) \/ LNext(t) \/ LHelp(t) \/ LLink(t) \/ LSwing(t)
  \/ ETicket(t) \/ EVal(t) \/ EIdx(t) \/ EHead(t) \/ ECas(t)
  \/ EOver(t) \/ EClose(t)

Dequeue(t) ==
  \/ LHead(t) \/ LDReturnEmpty(t) \/ LDNext(t) \/ LDSwing(t)
  \/ DTicket(t) \/ DVal(t) \/ DIdx(t) \/ DTake(t) \/ DUnsafe(t)
  \/ DSkip(t) \/ DTail(t)
  \/ FHead(t) \/ FTail(t) \/ FTail2(t) \/ FCas(t)

Call(t) == freed = {} /\ (CallDequeue(t) \/ \E x \in Items : CallEnqueue(t, x))

\* ~LCRQueue(), with no call in progress: deletes the rings from _head on.  Those
\* that _head has left are deleted by nobody.
Destroy ==
  /\ \A t \in Threads : pc[t] = "idle"
  /\ freed = {}
  /\ freed' = {r \in Rings : r >= qhead /\ (r = qhead \/ next[r - 1] = r)}
  /\ UNCHANGED <<queue, pc, locals, calls>>

Finished == freed # {} /\ UNCHANGED vars

Next == Destroy \/ Finished \/ \E t \in Threads : Call(t) \/ Enqueue(t) \/ Dequeue(t)

Spec == Init /\ [][Next]_vars

\* The scheduler keeps running thread t inside its call; every other thread
\* may stop for ever at any point of a call.
OnlyFair(t) == WF_vars(Enqueue(t) \/ Dequeue(t))

----------------------------------------------------------------------------
(* Properties *)

\* An item in a cell is still to be taken: its ticket has not been handed to a
\* dequeue, or the dequeue that has it has not left the cell.  The safe bit,
\* the spoiled index and the two words of the cell are all there for this.
NoneStranded ==
  \A r \in Rings, i \in Cells : cell[r][i].val # Null =>
    \/ rhead[r] <= cell[r][i].idx
    \/ \E t \in Threads :
         /\ crq[t] = r /\ ticket[t] = cell[r][i].idx
         /\ pc[t] \in {"dVal", "dIdx", "dTake", "dUnsafe", "dSkip"}

\* The tail of a ring only goes forward and a closed ring stays closed, although
\* fixState writes a head it has read earlier into the tail while other threads
\* take tickets and close the ring: no ticket is handed out twice, and an enqueue
\* that draws its ticket after the close puts no item into the ring.
TailForward ==
  [][\A r \in Rings : /\ rtail[r].t <= rtail'[r].t
                      /\ rtail[r].closed => rtail'[r].closed]_rtail

\* An item is in one cell or has come out once, never both and never twice,
\* even if its enqueue tried several cells and rings.
AtMostOnce ==
  \A x \in Items :
    out[x] + Cardinality({p \in Rings \X Cells : cell[p[1]][p[2]].val = x}) <= 1

\* First in, first out, for the items that come out: a dequeue does not return
\* x if, when it was called, some y had come out although the enqueue of x had
\* returned before that of y began.
OrderKept ==
  [][\A t \in Threads : (pc[t] = "dTake" /\ pc'[t] = "idle") =>
       \A y \in known[t] : word[t].val \notin prior[y]]_vars

\* Lock-freedom: a thread that keeps running finishes its call even if all
\* the others stop in the middle of theirs.
LockFree(t) == pc[t] # "idle" ~> pc[t] = "idle"

\* "assert(allConsumedItems == items)" (correctness.cc:148): when every item
\* was enqueued, no call is in progress and no ring that dequeue can reach
\* holds an item, every item has come out.
AllConsumed ==
  (/\ unsent = {} /\ \A t \in Threads : pc[t] = "idle"
   /\ \A r \in Rings, i \in Cells : r >= qhead => cell[r][i].val = Null)
  => \A x \in Items : out[x] = 1

=============================================================================
